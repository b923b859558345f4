-------------------------- MODULE PatternTextProofs --------------------------
(***************************************************************************)
(* Proofs about the text of a pattern, for every program, compiled or not: *)
(* the renderer's loop always moves on, and each quantifier it writes is   *)
(* greedy or not as one of the program (RegexRender); the loop over the    *)
(* strings shows each its own text, or says what is missing, with the      *)
(* modifiers it was written with (PatternText).                            *)
(***************************************************************************)
EXTENDS PatternText, SequenceTheorems, CommonLemmas, TLAPS

Field == {"start", "off", "end", "turns", "pieces", "starts", "call"}

(* A frame whose offset has moved on at each of its turns.  The pieces and *)
(* what is rendered of them do not matter here.                            *)
Advances(f) ==
    /\ DOMAIN f = Field
    /\ f.start \in Nat /\ f.off \in Nat /\ f.end \in Nat /\ f.turns \in Nat
    /\ f.call.next \in Nat /\ f.call.mid \in Nat
    /\ f.turns <= f.off - f.start

(* The inductive invariant: also, a call returns to its caller beyond the  *)
(* instruction that called it.                                             *)
Stack(fs) ==
    /\ fs \in Seq({fs[n] : n \in DOMAIN fs})
    /\ \A n \in DOMAIN fs : Advances(fs[n])
    /\ \A n \in 2 .. Len(fs) : fs[n].call.next > fs[n - 1].off

RInv == Stack(frames) /\ (frames # <<>> => code \in Codes)

-----------------------------------------------------------------------------
(* Sequences of whatever, and how a stack changes.                         *)
LEMMA OwnRange ==
    ASSUME NEW S, NEW fs \in Seq(S)
    PROVE  fs \in Seq({fs[n] : n \in DOMAIN fs})
<1>1. Len(fs) \in Nat /\ DOMAIN fs = 1 .. Len(fs) /\ fs = [n \in 1 .. Len(fs) |-> fs[n]]
  OBVIOUS
<1>2. fs \in [1 .. Len(fs) -> {fs[n] : n \in DOMAIN fs}]
  BY <1>1
<1> QED BY <1>1, <1>2

LEMMA Replaced ==
    ASSUME NEW fs, Stack(fs), fs # <<>>, NEW f, Advances(f),
           f.call.next = fs[Len(fs)].call.next
    PROVE  Stack([fs EXCEPT ![Len(fs)] = f])
<1> DEFINE S  == {fs[n] : n \in DOMAIN fs} \cup {f}
           gs == [fs EXCEPT ![Len(fs)] = f]
<1>1. fs \in Seq(S) /\ Len(fs) \in 1 .. Len(fs) /\ DOMAIN fs = 1 .. Len(fs)
  <2>1. fs \in Seq({fs[n] : n \in DOMAIN fs})  BY DEF Stack
  <2>2. Len(fs) \in Nat /\ DOMAIN fs = 1 .. Len(fs)  BY <2>1
  <2>3. Len(fs) # 0  BY <2>1, <2>2
  <2>4. Len(fs) \in 1 .. Len(fs)  BY <2>2, <2>3
  <2>5. Seq({fs[n] : n \in DOMAIN fs}) \subseteq Seq(S)  OBVIOUS
  <2> QED BY <2>1, <2>2, <2>4, <2>5
<1>2. gs \in Seq(S) /\ Len(gs) = Len(fs) /\ DOMAIN gs = DOMAIN fs
  BY <1>1
<1>3. \A n \in 1 .. Len(fs) : gs[n] = IF n = Len(fs) THEN f ELSE fs[n]
  BY <1>1
<1>4. gs \in Seq({gs[n] : n \in DOMAIN gs})
  <2> HIDE DEF gs
  <2> QED BY <1>2, OwnRange
<1>5. \A n \in DOMAIN gs : Advances(gs[n])
  BY <1>1, <1>2, <1>3 DEF Stack
<1>6. \A n \in 2 .. Len(gs) : gs[n].call.next > gs[n - 1].off
  <2> SUFFICES ASSUME NEW n \in 2 .. Len(fs) PROVE gs[n].call.next > gs[n - 1].off
    BY <1>2
  <2>1. n \in 1 .. Len(fs) /\ n - 1 \in 1 .. Len(fs) /\ n - 1 # Len(fs)  BY <1>1
  <2>2. gs[n - 1] = fs[n - 1]  BY <2>1, <1>3
  <2>3. gs[n].call.next = fs[n].call.next  BY <2>1, <1>3
  <2> QED BY <2>2, <2>3 DEF Stack
<1> HIDE DEF gs
<1>7. Stack(gs)  BY <1>4, <1>5, <1>6 DEF Stack
<1> QED BY <1>7 DEF gs

LEMMA Called ==
    ASSUME NEW fs, Stack(fs), NEW f, Advances(f),
           fs # <<>> => f.call.next > fs[Len(fs)].off
    PROVE  Stack(Append(fs, f))
<1> DEFINE S  == {fs[n] : n \in DOMAIN fs} \cup {f}
           gs == Append(fs, f)
<1>1. fs \in Seq(S) /\ Len(fs) \in Nat /\ DOMAIN fs = 1 .. Len(fs)
  <2>1. fs \in Seq({fs[n] : n \in DOMAIN fs})  BY DEF Stack
  <2> QED BY <2>1
<1>2. gs \in Seq(S) /\ Len(gs) = Len(fs) + 1 /\ DOMAIN gs = 1 .. Len(fs) + 1
  BY <1>1
<1>3. \A n \in 1 .. Len(fs) + 1 : gs[n] = IF n = Len(fs) + 1 THEN f ELSE fs[n]
  BY <1>1
<1>4. gs \in Seq({gs[n] : n \in DOMAIN gs})
  <2> HIDE DEF gs
  <2> QED BY <1>2, OwnRange
<1>5. \A n \in DOMAIN gs : Advances(gs[n])
  BY <1>1, <1>2, <1>3 DEF Stack
<1>6. \A n \in 2 .. Len(gs) : gs[n].call.next > gs[n - 1].off
  <2> SUFFICES ASSUME NEW n \in 2 .. Len(fs) + 1 PROVE gs[n].call.next > gs[n - 1].off
    BY <1>2
  <2>1. n \in 1 .. Len(fs) + 1 /\ n - 1 \in 1 .. Len(fs) + 1 /\ n - 1 # Len(fs) + 1  BY <1>1
  <2>2. gs[n - 1] = fs[n - 1]  BY <2>1, <1>3
  <2>3. CASE n = Len(fs) + 1
    <3>1. fs # <<>>  BY <2>3, <1>1
    <3>2. f.call.next > fs[Len(fs)].off  BY <3>1
    <3> HIDE DEF gs
    <3>3. gs[n] = f  BY <2>1, <2>3, <1>3
    <3>4. n - 1 = Len(fs)  BY <2>3, <1>1
    <3>5. gs[n - 1] = fs[Len(fs)]  BY <2>2, <3>4
    <3> QED BY <3>2, <3>3, <3>5
  <2>4. CASE n # Len(fs) + 1
    <3>1. gs[n] = fs[n] /\ n \in 2 .. Len(fs)  BY <2>1, <2>4, <1>1, <1>3
    <3> QED BY <3>1, <2>2 DEF Stack
  <2> QED BY <2>3, <2>4
<1> HIDE DEF gs
<1>7. Stack(gs)  BY <1>4, <1>5, <1>6 DEF Stack
<1> QED BY <1>7 DEF gs

LEMMA Shortened ==
    ASSUME NEW fs, Stack(fs), NEW m \in Nat, m <= Len(fs)
    PROVE  /\ Stack(SubSeq(fs, 1, m)) /\ Len(SubSeq(fs, 1, m)) = m
           /\ \A n \in 1 .. m : SubSeq(fs, 1, m)[n] = fs[n]
<1> DEFINE S  == {fs[n] : n \in DOMAIN fs}
           gs == SubSeq(fs, 1, m)
<1>1. fs \in Seq(S) /\ Len(fs) \in Nat /\ DOMAIN fs = 1 .. Len(fs)
  <2>1. fs \in Seq({fs[n] : n \in DOMAIN fs})  BY DEF Stack
  <2> QED BY <2>1
<1>2. gs \in Seq(S) /\ Len(gs) = m /\ DOMAIN gs = 1 .. m
  BY <1>1
<1>3. \A n \in 1 .. m : gs[n] = fs[n]
  BY <1>1
<1>4. gs \in Seq({gs[n] : n \in DOMAIN gs})
  <2> HIDE DEF gs
  <2> QED BY <1>2, OwnRange
<1>5. \A n \in DOMAIN gs : Advances(gs[n])
  BY <1>1, <1>2, <1>3 DEF Stack
<1>6. \A n \in 2 .. Len(gs) : gs[n].call.next > gs[n - 1].off
  <2> SUFFICES ASSUME NEW n \in 2 .. m PROVE gs[n].call.next > gs[n - 1].off
    BY <1>2
  <2>1. n \in 1 .. m /\ n - 1 \in 1 .. m /\ n \in 2 .. Len(fs)  BY <1>1
  <2> QED BY <2>1, <1>3 DEF Stack
<1> HIDE DEF gs
<1>7. Stack(gs)  BY <1>4, <1>5, <1>6 DEF Stack
<1> QED BY <1>2, <1>3, <1>7 DEF gs

-----------------------------------------------------------------------------
(* One frame: a new one, and one whose turn moved on.                      *)
LEMMA NewFrame ==
    ASSUME NEW start \in Nat, NEW end \in Nat, NEW call, call.next \in Nat, call.mid \in Nat
    PROVE  Advances(Frame(start, end, call)) /\ Frame(start, end, call).call = call
BY DEF Frame, Advances, Field

LEMMA Kept ==
    ASSUME NEW f, Advances(f), NEW pieces, NEW starts
    PROVE  LET g == [f EXCEPT !.pieces = pieces, !.starts = starts]
           IN Advances(g) /\ g.call = f.call /\ g.off = f.off
<1> DEFINE g == [f EXCEPT !.pieces = pieces, !.starts = starts]
<1>1. DOMAIN g = Field
  BY DEF Advances
<1>2. /\ g.start = f.start /\ g.off = f.off /\ g.end = f.end /\ g.turns = f.turns
      /\ g.call = f.call
  BY DEF Advances, Field
<1> HIDE DEF g
<1>3. Advances(g)
  BY <1>1, <1>2 DEF Advances
<1> QED BY <1>2, <1>3 DEF g

LEMMA Resumed ==
    ASSUME NEW f, Advances(f), NEW next \in Nat, next > f.off
    PROVE  Advances(Resume(f, next)) /\ Resume(f, next).call = f.call
<1> DEFINE g == Resume(f, next)
<1>1. DOMAIN g = Field
  BY DEF Advances, Resume
<1>2. /\ g.start = f.start /\ g.off = next /\ g.end = f.end /\ g.turns = f.turns + 1
      /\ g.call = f.call
  BY DEF Advances, Field, Resume
<1> HIDE DEF g
<1>3. Advances(g)
  BY <1>1, <1>2 DEF Advances
<1> QED BY <1>2, <1>3 DEF g

LEMMA ResumedWith ==
    ASSUME NEW f, Advances(f), NEW q, NEW next \in Nat, next > f.off
    PROVE  Advances(WithPiece(f, q, next)) /\ WithPiece(f, q, next).call = f.call
<1> DEFINE g == [f EXCEPT !.pieces = Append(f.pieces, q), !.starts = Append(f.starts, f.off)]
<1>1. Advances(g) /\ g.call = f.call /\ g.off = f.off
  BY Kept
<1>2. WithPiece(f, q, next) = Resume(g, next)
  BY DEF WithPiece
<1> HIDE DEF g
<1>3. Advances(Resume(g, next)) /\ Resume(g, next).call = g.call
  BY <1>1, Resumed
<1> QED BY <1>1, <1>2, <1>3

-----------------------------------------------------------------------------
(* The innermost frame, and the instruction it is at.                      *)
LEMMA TopFacts ==
    ASSUME RInv, frames # <<>>
    PROVE  /\ Stack(frames) /\ Advances(Top) /\ code \in Codes
           /\ Len(frames) \in Nat \ {0} /\ DOMAIN frames = 1 .. Len(frames)
<1>1. frames \in Seq({frames[n] : n \in DOMAIN frames})
  BY DEF RInv, Stack
<1>2. Len(frames) \in Nat /\ DOMAIN frames = 1 .. Len(frames)
  BY <1>1
<1>3. Len(frames) # 0
  BY <1>1, <1>2
<1>4. Len(frames) \in DOMAIN frames
  BY <1>2, <1>3
<1> QED BY <1>2, <1>3, <1>4 DEF RInv, Stack, Top

LEMMA CodeFacts ==
    ASSUME NEW c \in Codes
    PROVE  /\ DOMAIN c \subseteq Nat
           /\ \A o \in DOMAIN c : c[o].end \in Nat /\ c[o].end > o /\ c[o].target \in Int
BY RenderAssumption DEF Instr

LEMMA InsFacts ==
    ASSUME RInv, AtInstr
    PROVE  /\ frames # <<>> /\ Advances(Top)
           /\ Ins.end \in Nat /\ Ins.end > Top.off /\ Ins.target \in Int
           /\ \A ops : Forward(ops) => Ins.target \in Nat
<1>1. frames # <<>> /\ Top.off \in DOMAIN code
  BY DEF AtInstr, Looping
<1>2. Advances(Top) /\ code \in Codes
  BY <1>1, TopFacts
<1>3. Ins.end \in Nat /\ Ins.end > Top.off /\ Ins.target \in Int
  BY <1>1, <1>2, CodeFacts DEF Ins
<1>4. ASSUME NEW ops, Forward(ops) PROVE Ins.target \in Nat
  BY <1>2, <1>3, <1>4 DEF Forward, Advances
<1> QED BY <1>1, <1>2, <1>3, <1>4

(* The three ways in which a step changes the stack.                       *)
LEMMA TopReplaced ==
    ASSUME RInv, frames # <<>>, NEW f, Advances(f), f.call.next = Top.call.next,
           ReplaceTop(f), code' = code
    PROVE  RInv'
<1>1. Stack(frames) /\ code \in Codes
  BY TopFacts
<1>2. f.call.next = frames[Len(frames)].call.next
  BY DEF Top
<1>3. Stack([frames EXCEPT ![Len(frames)] = f])
  BY <1>1, <1>2, Replaced
<1> QED BY <1>1, <1>3 DEF RInv, ReplaceTop

LEMMA CallEntered ==
    ASSUME RInv, AtInstr, NEW start \in Nat, NEW end \in Nat, NEW call,
           call.next \in Nat, call.mid \in Nat, call.next > Top.off, Enter(start, end, call)
    PROVE  RInv'
<1>1. frames # <<>>
  BY InsFacts
<1>2. Stack(frames) /\ code \in Codes
  BY <1>1, TopFacts
<1>3. Advances(Frame(start, end, call)) /\ Frame(start, end, call).call = call
  BY NewFrame
<1>4. Frame(start, end, call).call.next > frames[Len(frames)].off
  BY <1>3 DEF Top
<1>5. Stack(Append(frames, Frame(start, end, call)))
  BY <1>2, <1>3, <1>4, Called
<1>6. CASE frames' = Append(frames, Frame(start, end, call)) /\ code' = code
  BY <1>2, <1>5, <1>6 DEF RInv
<1>7. CASE frames' = <<>> /\ code' = code
  BY <1>7 DEF RInv, Stack
<1> QED BY <1>6, <1>7 DEF Enter

LEMMA CallReturned ==
    ASSUME RInv, Returning, NEW q, BackWith(q), code' = code
    PROVE  RInv'
<1> DEFINE m     == Len(frames) - 2
           outer == SubSeq(frames, 1, m)
           f     == WithPiece(Caller, q, Top.call.next)
<1>1. frames # <<>>
  BY DEF Returning, RInv, Stack
<1>2. Stack(frames) /\ Advances(Top) /\ code \in Codes /\ Len(frames) \in Nat
  BY <1>1, TopFacts
<1>3. Len(frames) > 1
  BY DEF Returning
<1>4. m \in Nat /\ m <= Len(frames) /\ m + 1 = Len(frames) - 1
  BY <1>2, <1>3
<1>5. DOMAIN frames = 1 .. Len(frames)
  BY <1>1, TopFacts
<1>6. Advances(Caller)
  <2>1. Len(frames) - 1 \in DOMAIN frames  BY <1>2, <1>3, <1>5
  <2> QED BY <1>2, <2>1 DEF Caller, Stack
<1>7. Top.call.next \in Nat /\ Top.call.next > Caller.off
  <2>1. Len(frames) \in 2 .. Len(frames)  BY <1>2, <1>3
  <2> QED BY <1>2, <2>1 DEF Stack, Top, Caller, Advances
<1>8. Advances(f) /\ f.call = Caller.call
  BY <1>6, <1>7, ResumedWith
<1>9. /\ Stack(outer) /\ Len(outer) = m
      /\ \A n \in 1 .. m : outer[n] = frames[n]
  BY <1>2, <1>4, Shortened
<1>10. outer # <<>> => f.call.next > outer[Len(outer)].off
  <2> SUFFICES ASSUME outer # <<>> PROVE f.call.next > outer[m].off
    BY <1>9
  <2>1. m # 0
    <3> HIDE DEF outer
    <3>1. outer \in Seq({outer[n] : n \in DOMAIN outer})  BY <1>9 DEF Stack
    <3> QED BY <3>1, <1>9
  <2>2. m + 1 \in 2 .. Len(frames) /\ m \in 1 .. m  BY <1>4, <2>1
  <2>3. frames[m + 1].call.next > frames[m + 1 - 1].off  BY <1>2, <2>2 DEF Stack
  <2>4. m + 1 - 1 = m  BY <1>4
  <2>5. Caller = frames[m + 1]  BY <1>4 DEF Caller
  <2>6. outer[m] = frames[m]  BY <1>9, <2>2
  <2> HIDE DEF m, f, outer
  <2> QED BY <2>3, <2>4, <2>5, <2>6, <1>8
<1>11. Stack(Append(outer, f))
  <2> HIDE DEF f, outer, m
  <2> QED BY <1>8, <1>9, <1>10, Called
<1> QED BY <1>2, <1>11 DEF RInv, BackWith

-----------------------------------------------------------------------------
(* The invariant is inductive: one step for each action.                   *)
LEMMA InitInv == RenderInit => RInv
BY DEF RenderInit, RInv, Stack

LEMMA StartInv ==
    ASSUME NEW c \in Codes, Start(c)
    PROVE  RInv'
<1>1. PICK ends \in Whole(c) : frames' = <<Frame(ends[1], ends[2], Repeated(1, 1, TRUE, 0))>>
  BY DEF Start
<1> DEFINE f == Frame(ends[1], ends[2], Repeated(1, 1, TRUE, 0))
<1>2. ends[1] \in Nat /\ ends[2] \in Nat
  BY CodeFacts DEF Whole
<1>3. Repeated(1, 1, TRUE, 0).next \in Nat /\ Repeated(1, 1, TRUE, 0).mid \in Nat
  BY DEF Repeated, Call
<1>4. Advances(f)
  <2> HIDE DEF f
  <2> QED BY <1>2, <1>3, NewFrame DEF f
<1>5. Stack(<<f>>)
  <2> HIDE DEF f
  <2> QED BY <1>4 DEF Stack
<1> QED BY <1>1, <1>5 DEF RInv, Start

LEMMA StepInv ==
    ASSUME RInv, RenderStep
    PROVE  RInv'
<1>1. CASE Abandon
  <2> DEFINE f == [Top EXCEPT !.off = Top.end]
  <2>1. frames # <<>> /\ Top.off < Top.end /\ ReplaceTop(f) /\ code' = code
    BY <1>1 DEF Abandon, Looping
  <2>2. Advances(Top)
    BY <2>1, TopFacts
  <2>3. DOMAIN f = Field
    BY <2>2 DEF Advances
  <2>4. /\ f.start = Top.start /\ f.off = Top.end /\ f.end = Top.end /\ f.turns = Top.turns
        /\ f.call = Top.call
    BY <2>2 DEF Advances, Field
  <2> HIDE DEF f
  <2>5. Advances(f)
    BY <2>1, <2>2, <2>3, <2>4 DEF Advances
  <2> QED BY <2>1, <2>4, <2>5, TopReplaced
<1>2. CASE ClosePlus
  <2>1. AtInstr /\ code' = code
    BY <1>2 DEF ClosePlus
  <2>2. PICK pieces, starts :
          ReplaceTop(Resume([Top EXCEPT !.pieces = pieces, !.starts = starts], Ins.end))
    BY <1>2 DEF ClosePlus
  <2> DEFINE g == [Top EXCEPT !.pieces = pieces, !.starts = starts]
  <2>3. frames # <<>> /\ Advances(Top) /\ Ins.end \in Nat /\ Ins.end > Top.off
    BY <2>1, InsFacts
  <2>4. Advances(g) /\ g.call = Top.call /\ g.off = Top.off
    BY <2>3, Kept
  <2>5. ReplaceTop(Resume(g, Ins.end))
    BY <2>2
  <2> HIDE DEF g
  <2>6. Advances(Resume(g, Ins.end)) /\ Resume(g, Ins.end).call = g.call
    BY <2>3, <2>4, Resumed
  <2> QED BY <2>1, <2>3, <2>4, <2>5, <2>6, TopReplaced
<1>3. CASE EnterRepeat
  <2>1. PICK close \in RepeatEnds :
          Enter(Ins.end, close,
                Repeated(Ins.lo, Ins.hi, Ins.op = "REPEAT_START_GREEDY", code[close].end))
    BY <1>3 DEF EnterRepeat
  <2>2. AtInstr
    BY <1>3 DEF EnterRepeat
  <2>3. frames # <<>> /\ Advances(Top) /\ Ins.end \in Nat /\ Ins.end > Top.off
    BY <2>2, InsFacts
  <2>4. code \in Codes
    BY <2>3, TopFacts
  <2>5. close \in DOMAIN code /\ Ins.end <= close
    BY <2>1 DEF RepeatEnds
  <2>6. close \in Nat /\ code[close].end \in Nat /\ code[close].end > close
    BY <2>4, <2>5, CodeFacts
  <2> DEFINE call == Repeated(Ins.lo, Ins.hi, Ins.op = "REPEAT_START_GREEDY", code[close].end)
  <2>7. call.next = code[close].end /\ call.mid = 0
    BY DEF Repeated, Call
  <2> HIDE DEF call
  <2>8. call.next \in Nat /\ call.mid \in Nat /\ call.next > Top.off
    BY <2>3, <2>5, <2>6, <2>7 DEF Advances
  <2> QED BY <2>1, <2>2, <2>3, <2>6, <2>8, CallEntered DEF call
<1>4. CASE EnterStar
  <2>1. PICK o \in LoopsBack :
          Enter(Ins.end, o, Repeated(0, Inf, Ins.op = "SPLIT_A", Ins.target))
    BY <1>4 DEF EnterStar
  <2>2. AtInstr /\ Forward(Split)
    BY <1>4 DEF EnterStar
  <2>3. frames # <<>> /\ Advances(Top) /\ Ins.end \in Nat /\ Ins.target \in Nat
    BY <2>2, InsFacts
  <2>4. o \in Nat
    BY <2>1, <2>3, TopFacts, CodeFacts DEF LoopsBack, Before
  <2> DEFINE call == Repeated(0, Inf, Ins.op = "SPLIT_A", Ins.target)
  <2>5. call.next = Ins.target /\ call.mid = 0
    BY DEF Repeated, Call
  <2> HIDE DEF call
  <2>6. call.next \in Nat /\ call.mid \in Nat /\ call.next > Top.off
    BY <2>2, <2>3, <2>5 DEF Forward
  <2> QED BY <2>1, <2>2, <2>3, <2>4, <2>6, CallEntered DEF call
<1>5. CASE EnterAlternation
  <2>1. PICK o \in JumpsOver :
          Enter(Ins.end, o, Call("left", 1, 1, TRUE, Ins.target, code[o].target, <<>>))
    BY <1>5 DEF EnterAlternation
  <2>2. AtInstr /\ Forward(Split)
    BY <1>5 DEF EnterAlternation
  <2>3. frames # <<>> /\ Advances(Top) /\ Ins.end \in Nat /\ Ins.target \in Nat
    BY <2>2, InsFacts
  <2>4. o \in Nat /\ code[o].target \in Int /\ code[o].target > Ins.target
    BY <2>1, <2>3, TopFacts, CodeFacts DEF JumpsOver, Before
  <2> DEFINE call == Call("left", 1, 1, TRUE, Ins.target, code[o].target, <<>>)
  <2>5. call.next = code[o].target /\ call.mid = Ins.target
    BY DEF Call
  <2> HIDE DEF call
  <2>6. call.next \in Nat /\ call.mid \in Nat /\ call.next > Top.off
    BY <2>2, <2>3, <2>4, <2>5 DEF Forward, Advances
  <2> QED BY <2>1, <2>2, <2>3, <2>4, <2>6, CallEntered DEF call
<1>6. CASE EnterOptional
  <2>1. AtInstr /\ Forward(Split)
        /\ Enter(Ins.end, Ins.target, Repeated(0, 1, Ins.op = "SPLIT_A", Ins.target))
    BY <1>6 DEF EnterOptional
  <2>2. frames # <<>> /\ Advances(Top) /\ Ins.end \in Nat /\ Ins.target \in Nat
    BY <2>1, InsFacts
  <2> DEFINE call == Repeated(0, 1, Ins.op = "SPLIT_A", Ins.target)
  <2>3. call.next = Ins.target /\ call.mid = 0
    BY DEF Repeated, Call
  <2> HIDE DEF call
  <2>4. call.next \in Nat /\ call.mid \in Nat /\ call.next > Top.off
    BY <2>1, <2>2, <2>3 DEF Forward
  <2> QED BY <2>1, <2>2, <2>4, CallEntered DEF call
<1>7. CASE RepeatAnyUnit
  <2>1. PICK q : ReplaceTop(WithPiece(Top, q, Ins.end))
    BY <1>7 DEF RepeatAnyUnit
  <2>2. AtInstr /\ code' = code
    BY <1>7 DEF RepeatAnyUnit
  <2> QED BY <2>1, <2>2, InsFacts, ResumedWith, TopReplaced
<1>8. CASE JumpAhead
  <2>1. AtInstr /\ Forward({"JUMP"}) /\ ReplaceTop(Resume(Top, Ins.target)) /\ code' = code
    BY <1>8 DEF JumpAhead
  <2>2. frames # <<>> /\ Advances(Top) /\ Ins.target \in Nat /\ Ins.target > Top.off
    BY <2>1, InsFacts DEF Forward
  <2> QED BY <2>1, <2>2, Resumed, TopReplaced
<1>9. CASE AtomUnit
  <2>1. PICK q : ReplaceTop(WithPiece(Top, q, Ins.end))
    BY <1>9 DEF AtomUnit
  <2>2. AtInstr /\ code' = code
    BY <1>9 DEF AtomUnit
  <2> QED BY <2>1, <2>2, InsFacts, ResumedWith, TopReplaced
<1>10. CASE ReturnPiece
  <2>1. Returning /\ code' = code /\ \E q : BackWith(q)
    BY <1>10 DEF ReturnPiece
  <2> QED BY <2>1, CallReturned
<1>11. CASE ReturnLeft
  <2>1. PICK left : ReplaceTop(Frame(Top.call.mid, Top.call.next,
                                     [Top.call EXCEPT !.kind = "right", !.left = left]))
    BY <1>11 DEF ReturnLeft
  <2>2. Returning /\ code' = code
    BY <1>11 DEF ReturnLeft
  <2>3. frames # <<>>
    BY <2>2 DEF Returning, RInv, Stack
  <2>4. Advances(Top)
    BY <2>3, TopFacts
  <2> DEFINE call == [Top.call EXCEPT !.kind = "right", !.left = left]
  <2>5. call.next = Top.call.next /\ call.mid = Top.call.mid
    OBVIOUS
  <2>6. ReplaceTop(Frame(Top.call.mid, Top.call.next, call))
    BY <2>1
  <2> HIDE DEF call
  <2>7. /\ Top.call.next \in Nat /\ Top.call.mid \in Nat
        /\ call.next \in Nat /\ call.mid \in Nat
    BY <2>4, <2>5 DEF Advances
  <2>8. /\ Advances(Frame(Top.call.mid, Top.call.next, call))
        /\ Frame(Top.call.mid, Top.call.next, call).call = call
    BY <2>7, NewFrame
  <2> QED BY <2>2, <2>3, <2>5, <2>6, <2>8, TopReplaced
<1>12. CASE ReturnRight
  <2>1. Returning /\ code' = code /\ \E q : BackWith(q)
    BY <1>12 DEF ReturnRight
  <2> QED BY <2>1, CallReturned
<1>13. CASE Rendered
  BY <1>13 DEF Rendered, RInv, Stack
<1> QED BY <1>1, <1>2, <1>3, <1>4, <1>5, <1>6, <1>7, <1>8, <1>9, <1>10, <1>11, <1>12, <1>13
        DEF RenderStep

LEMMA NextInv == RInv /\ [RenderNext]_rvars => RInv'
<1> SUFFICES ASSUME RInv, [RenderNext]_rvars PROVE RInv'
  OBVIOUS
<1>1. CASE code' \in Codes /\ Start(code')
  BY <1>1, StartInv
<1>2. CASE RenderStep
  BY <1>2, StepInv
<1>3. CASE UNCHANGED rvars
  BY <1>3 DEF rvars, RInv
<1> QED BY <1>1, <1>2, <1>3 DEF RenderNext

LEMMA Always == RenderSpec => []RInv
BY InitInv, NextInv, PTL DEF RenderSpec

-----------------------------------------------------------------------------
LEMMA InvAdvances == RInv => TurnsAdvance
BY DEF RInv, Stack, Advances, TurnsAdvance

LEMMA InvUncut == RInv => GuardNeverCuts
<1> SUFFICES ASSUME RInv, AllShort, Looping, Top.off \in DOMAIN code
             PROVE  Top.turns < MaxTurns
  BY DEF GuardNeverCuts
<1>1. Advances(Top) /\ code \in Codes
  BY TopFacts DEF Looping
<1>2. Top.off < MaxTurns
  BY <1>1 DEF AllShort
<1> QED BY <1>1, <1>2, RenderAssumption DEF Advances

(* For every program, also one that no compiler wrote, every turn of every *)
(* loop of _seq moves on, and calls return beyond their caller: the loop   *)
(* ends by itself.                                                         *)
THEOREM TurnsAdvanceHolds == RenderSpec => []TurnsAdvance
BY Always, InvAdvances, PTL

(* The guard of _seq is never what ends it: `unrecovered` is not set by    *)
(* the length of a program of at most MaxTurns bytes.                      *)
THEOREM GuardNeverCutsHolds == RenderSpec => []GuardNeverCuts
BY Always, InvUncut, PTL

-----------------------------------------------------------------------------
(* The quantifiers of a text, and what the renderer does with them.        *)
Fits(t, G) == OwnSeq(t) /\ Greed(t) \subseteq G

LEMMA FitsIs ==
    ASSUME NEW t, OwnSeq(t), NEW G
    PROVE  Fits(t, G) <=> \A n \in 1 .. Len(t) : t[n].k = "quantifier" => t[n].greedy \in G
<1>1. DOMAIN t = 1 .. Len(t)
  BY OwnFacts
<1> QED BY <1>1 DEF Fits, Greed

LEMMA NoneFits == ASSUME NEW G PROVE Fits(<<>>, G)
BY DEF Fits, Greed, OwnSeq

LEMMA OneFits ==
    ASSUME NEW G, NEW k, k.k = "quantifier" => k.greedy \in G
    PROVE  Fits(<<k>>, G)
<1>1. OwnSeq(<<k>>) /\ Len(<<k>>) = 1 /\ <<k>>[1] = k
  BY DEF OwnSeq
<1> QED BY <1>1, FitsIs

LEMMA BothFit ==
    ASSUME NEW G, NEW t, Fits(t, G), NEW u, Fits(u, G)
    PROVE  Fits(t \o u, G)
<1>1. OwnSeq(t) /\ OwnSeq(u) /\ Len(t) \in Nat /\ Len(u) \in Nat
  BY OwnFacts DEF Fits
<1>2. /\ OwnSeq(t \o u) /\ Len(t \o u) = Len(t) + Len(u)
      /\ \A n \in 1 .. Len(t) + Len(u) : (t \o u)[n] = IF n <= Len(t) THEN t[n] ELSE u[n - Len(t)]
  BY <1>1, ConcatIs
<1> DEFINE tu == t \o u
<1> HIDE DEF tu
<1>3. ASSUME NEW n \in 1 .. Len(tu), tu[n].k = "quantifier" PROVE tu[n].greedy \in G
  <2>1. CASE n <= Len(t)
    <3>1. tu[n] = t[n] /\ n \in 1 .. Len(t)
      BY <1>1, <1>2, <2>1 DEF tu
    <3> QED BY <1>1, <1>3, <3>1, FitsIs
  <2>2. CASE n > Len(t)
    <3>1. tu[n] = u[n - Len(t)] /\ n - Len(t) \in 1 .. Len(u)
      BY <1>1, <1>2, <2>2 DEF tu
    <3> QED BY <1>1, <1>3, <3>1, FitsIs
  <2> QED BY <1>1, <1>2, <2>1, <2>2 DEF tu
<1>4. Fits(tu, G)
  BY <1>2, <1>3, FitsIs DEF tu
<1> QED BY <1>4 DEF tu

LEMMA AppendFits ==
    ASSUME NEW G, NEW t, Fits(t, G), NEW k, k.k = "quantifier" => k.greedy \in G
    PROVE  Fits(Append(t, k), G)
<1>1. OwnSeq(t) /\ Len(t) \in Nat
  BY OwnFacts DEF Fits
<1>2. /\ OwnSeq(Append(t, k)) /\ Len(Append(t, k)) = Len(t) + 1
      /\ \A n \in 1 .. Len(t) + 1 : Append(t, k)[n] = IF n <= Len(t) THEN t[n] ELSE k
  BY <1>1, AppendOwn, AppendIs
<1> DEFINE u == Append(t, k)
<1> HIDE DEF u
<1>3. ASSUME NEW n \in 1 .. Len(u), u[n].k = "quantifier" PROVE u[n].greedy \in G
  <2>1. CASE n <= Len(t)
    <3>1. u[n] = t[n] /\ n \in 1 .. Len(t)
      BY <1>1, <1>2, <2>1 DEF u
    <3> QED BY <1>1, <1>3, <3>1, FitsIs
  <2>2. CASE n > Len(t)
    <3>1. u[n] = k
      BY <1>1, <1>2, <2>2 DEF u
    <3> QED BY <1>3, <3>1
  <2> QED BY <1>1, <2>1, <2>2, <1>2 DEF u
<1>4. Fits(u, G)
  BY <1>2, <1>3, FitsIs DEF u
<1> QED BY <1>4 DEF u

LEMMA TokenFits ==
    ASSUME NEW G, NEW k, k # "quantifier", NEW set
    PROVE  Fits(<<Token(k, set)>>, G)
<1>1. Token(k, set).k = k
  BY DEF Token
<1> QED BY <1>1, OneFits

LEMMA AtomFits == ASSUME NEW G, NEW ins PROVE Fits(<<Atom(ins)>>, G)
<1>1. Atom(ins).k # "quantifier"
  <2>1. ClassText(ins.set).k # "quantifier"
    BY DEF ClassText, Token
  <2>2. ins.op \in Shorthand => ins.op # "quantifier"
    BY DEF Shorthand
  <2>3. CASE ins.op = "LITERAL"
    BY <2>3 DEF Atom, Token
  <2>4. CASE ins.op = "NOT_LITERAL"
    BY <2>4 DEF Atom, Token
  <2>5. CASE ins.op = "ANY"
    BY <2>5 DEF Atom, Token
  <2>6. CASE ins.op \in {"CLASS", "MASKED_LITERAL"}
    <3>1. Atom(ins) = ClassText(ins.set)
      <4>0. ins.op \notin Shorthand
        BY <2>6 DEF Shorthand
      <4>1. CASE ins.op = "CLASS"
        BY <4>0, <4>1 DEF Atom
      <4>2. CASE ins.op = "MASKED_LITERAL"
        BY <4>0, <4>2 DEF Atom
      <4> QED BY <2>6, <4>1, <4>2
    <3> QED BY <2>1, <3>1
  <2>7. CASE ins.op \in Shorthand
    <3>1. ins.op \notin {"LITERAL", "NOT_LITERAL", "ANY", "CLASS", "MASKED_LITERAL"}
      BY <2>7 DEF Shorthand
    <3>2. Atom(ins) = Token(ins.op, {})
      BY <2>7, <3>1 DEF Atom
    <3> QED BY <2>2, <2>7, <3>2 DEF Token
  <2>8. CASE ins.op \notin {"LITERAL", "NOT_LITERAL", "ANY", "CLASS", "MASKED_LITERAL"} \cup Shorthand
    <3>1. Atom(ins) = Token("(?#)", {})
      BY <2>8 DEF Atom
    <3> QED BY <3>1 DEF Token
  <2> QED BY <2>3, <2>4, <2>5, <2>6, <2>7, <2>8
<1> QED BY <1>1, OneFits

-----------------------------------------------------------------------------
(* FlattenSeq and MergePieces step by step.                                *)
LEMMA FlattenStays ==
    ASSUME NEW T, NEW N \in Nat \ {0}, NEW seqs, Len(seqs) = N,
           \A n \in 1 .. N : seqs[n] \in T,
           \A t \in T : \A n \in 1 .. N : t \o seqs[n] \in T
    PROVE  FlattenSeq(seqs) \in T
<1> DEFINE M == N - 1
           G == [n \in 1 .. M |-> [t \in T |-> t \o seqs[n + 1]]]
<1>1. M \in Nat /\ \A n \in 1 .. M : n + 1 \in 1 .. N
  OBVIOUS
<1>2. G \in [1 .. M -> [T -> T]]
  <2>1. ASSUME NEW n \in 1 .. M, NEW t \in T PROVE t \o seqs[n + 1] \in T
    BY <1>1
  <2> QED BY <2>1
<1>3. ASSUME NEW t \in T, NEW n \in 1 .. M PROVE G[n][t] = t \o seqs[n + 1]
  OBVIOUS
<1> DEFINE z == seqs[1]
<1>4. z \in T /\ 1 \in 1 .. N /\ N = M + 1
  OBVIOUS
<1> HIDE DEF G, z, M
<1>5. PICK f : Stepwise(T, z, G, M, f)
  BY <1>1, <1>2, <1>4, StepsExist
<1> DEFINE Join(u, n) == IF n = 1 THEN seqs[n] ELSE u[n - 1] \o seqs[n]
           g == [n \in 1 .. N |-> f[n - 1]]
<1>6. g = [n \in 1 .. N |-> Join(g, n)]
  <2>1. ASSUME NEW n \in 1 .. N PROVE f[n - 1] = Join(g, n)
    <3>1. CASE n = 1
      <4>1. f[0] = seqs[1]
        BY <1>5 DEF Stepwise, z
      <4> QED BY <3>1, <4>1
    <3>2. CASE n # 1
      <4>1. n - 1 \in 1 .. M /\ n - 1 \in 1 .. N /\ n - 1 - 1 \in 0 .. M /\ n - 1 + 1 = n
        BY <1>1, <1>4, <3>2
      <4>2. f[n - 1] = f[n - 1 - 1] \o seqs[n]
        <5>1. f[n - 1 - 1] \in T
          BY <1>5, <4>1 DEF Stepwise
        <5>2. f[n - 1] = G[n - 1][f[n - 1 - 1]]
          BY <1>5, <4>1 DEF Stepwise
        <5> QED BY <1>3, <4>1, <5>1, <5>2
      <4>3. g[n - 1] = f[n - 1 - 1]
        BY <4>1
      <4> HIDE DEF g
      <4> QED BY <3>2, <4>2, <4>3
    <3> QED BY <3>1, <3>2
  <2> HIDE DEF Join
  <2> QED BY <2>1
<1> DEFINE u == CHOOSE u : u = [n \in 1 .. N |-> Join(u, n)]
<1>7. \A n \in 1 .. N : u[n] = Join(u, n)
  <2> HIDE DEF Join, g
  <2> QED BY <1>6
<1>8. FlattenSeq(seqs) = u[N]
  BY DEF FlattenSeq
<1> HIDE DEF u, g
<1> DEFINE v == [n \in 0 .. M |-> u[n + 1]]
<1>9. \A n \in 0 .. M : v[n] = u[n + 1]
  OBVIOUS
<1> HIDE DEF v
<1>10. v[0] \in T
  BY <1>1, <1>4, <1>7, <1>9
<1>11. ASSUME NEW n \in 1 .. M, v[n - 1] \in T PROVE v[n] \in T
  <2>1. /\ n + 1 \in 1 .. N /\ n + 1 # 1 /\ n + 1 - 1 = n /\ n - 1 + 1 = n
        /\ n \in 0 .. M /\ n - 1 \in 0 .. M
    BY <1>1, <1>4
  <2>2. v[n] = u[n] \o seqs[n + 1]
    <3>1. PICK i \in 1 .. N : i = n + 1
      BY <2>1
    <3>2. u[i] = u[n] \o seqs[i]
      <4>1. i # 1 /\ i - 1 = n
        BY <2>1, <3>1
      <4>2. u[i] = u[i - 1] \o seqs[i]
        BY <1>7, <4>1
      <4> QED BY <4>1, <4>2
    <3>3. v[n] = u[n + 1]
      BY <1>9, <2>1
    <3> QED BY <3>1, <3>2, <3>3
  <2>3. v[n - 1] = u[n]
    BY <1>9, <2>1
  <2> QED BY <1>11, <2>1, <2>2, <2>3
<1>12. \A n \in 0 .. M : v[n] \in T
  BY <1>1, <1>10, <1>11, StaysIn
<1>13. u[N] \in T
  <2>1. M \in 0 .. M /\ v[M] = u[M + 1]
    BY <1>1, <1>9
  <2> QED BY <1>4, <1>12, <2>1
<1> QED BY <1>8, <1>13

LEMMA OnlyIs == ASSUME NEW x PROVE Only({x}) = x
BY DEF Only

LEMMA MergeStays ==
    ASSUME NEW T, NEW pieces, Len(pieces) \in Nat, <<>> \in T,
           \A done \in T : \A n \in 1 .. Len(pieces) : Attach(done, pieces[n]) \in T
    PROVE  MergePieces(pieces) \in T
<1> DEFINE N == Len(pieces)
           Join(t, n) == Only({Attach(done, pieces[n]) : done \in {t}})
           G == [n \in 1 .. N |-> [t \in T |-> Join(t, n)]]
<1>1. ASSUME NEW t, NEW n PROVE Join(t, n) = Attach(t, pieces[n])
  <2>1. {Attach(done, pieces[n]) : done \in {t}} = {Attach(t, pieces[n])}
    OBVIOUS
  <2> QED BY <2>1, OnlyIs
<1> HIDE DEF Join
<1>2. G \in [1 .. N -> [T -> T]]
  BY <1>1
<1>3. ASSUME NEW t \in T, NEW n \in 1 .. N PROVE G[n][t] = Join(t, n)
  OBVIOUS
<1> DEFINE z == <<>>
<1>4. z \in T /\ N \in Nat
  OBVIOUS
<1> HIDE DEF G, z, N
<1>5. PICK f : Stepwise(T, z, G, N, f)
  BY <1>2, <1>4, StepsExist
<1> DEFINE Step_(u, n) == IF n = 0 THEN <<>> ELSE Join(u[n - 1], n)
<1>6. f = [n \in 0 .. N |-> Step_(f, n)]
  <2>1. ASSUME NEW n \in 0 .. N PROVE f[n] = Step_(f, n)
    <3>1. CASE n = 0
      BY <1>5, <3>1 DEF z, Stepwise
    <3>2. CASE n \in 1 .. N
      <4>1. f[n - 1] \in T
        BY <1>4, <1>5, <3>2 DEF Stepwise
      <4>2. f[n] = Join(f[n - 1], n)
        BY <1>3, <1>5, <3>2, <4>1 DEF Stepwise
      <4> QED BY <1>4, <3>2, <4>2
    <3> QED BY <1>4, <3>1, <3>2
  <2> HIDE DEF Step_
  <2> QED BY <1>5, <2>1 DEF Stepwise
<1> DEFINE u == CHOOSE u : u = [n \in 0 .. N |-> Step_(u, n)]
<1>7. \A n \in 0 .. N : u[n] = Step_(u, n)
  <2> HIDE DEF Step_
  <2> QED BY <1>6
<1>8. MergePieces(pieces) = u[N]
  BY DEF MergePieces, N, Join
<1> HIDE DEF u
<1>9. u[0] \in T
  BY <1>4, <1>7
<1>10. ASSUME NEW n \in 1 .. N, u[n - 1] \in T PROVE u[n] \in T
  <2>1. u[n] = Attach(u[n - 1], pieces[n])
    BY <1>1, <1>4, <1>7
  <2> QED BY <1>10, <2>1 DEF N
<1>11. \A n \in 0 .. N : u[n] \in T
  BY <1>4, <1>9, <1>10, StaysIn
<1> QED BY <1>4, <1>8, <1>11

-----------------------------------------------------------------------------
(* Pieces: the text of one, and what merging makes of them.                *)
Pieces(B) == [base : B, lo : Nat, hi : Nat, greedy : BOOLEAN, atomic : BOOLEAN]

PieceFits(q, G) == q \in Pieces({q.base}) /\ Fits(q.base, G) /\ (Once(q) \/ q.greedy \in G)

PiecesFit(qs, G) == OwnSeq(qs) /\ \A n \in DOMAIN qs : PieceFits(qs[n], G)

LEMMA NewPieceFits ==
    ASSUME NEW G, NEW base, Fits(base, G), NEW lo \in Nat, NEW hi \in Nat, NEW greedy \in BOOLEAN,
           NEW atomic \in BOOLEAN, (lo = 1 /\ hi = 1) \/ greedy \in G
    PROVE  PieceFits(Piece(base, lo, hi, greedy, atomic), G)
BY DEF PieceFits, Pieces, Piece, Once

LEMMA PieceTextFits ==
    ASSUME NEW G, NEW q, PieceFits(q, G)
    PROVE  Fits(PieceText(q), G)
<1>1. Fits(q.base, G)
  BY DEF PieceFits
<1>2. Fits(Bracketed(q), G)
  <2>1. Fits(<<Token("(", {})>>, G) /\ Fits(<<Token(")", {})>>, G)
    BY TokenFits
  <2>2. Fits(<<Token("(", {})>> \o q.base \o <<Token(")", {})>>, G)
    BY <1>1, <2>1, BothFit
  <2> QED BY <1>1, <2>2 DEF Bracketed
<1>3. CASE q.base = <<>> \/ Once(q)
  BY <1>1, <1>3 DEF PieceText
<1>4. CASE ~ (q.base = <<>> \/ Once(q))
  <2> DEFINE k == Quantifier(q.lo, q.hi, q.greedy)
  <2>1. k.greedy = q.greedy /\ q.greedy \in G
    BY <1>4 DEF PieceFits, Quantifier
  <2> HIDE DEF k
  <2>2. Fits(Append(Bracketed(q), k), G)
    BY <1>2, <2>1, AppendFits
  <2> QED BY <1>4, <2>2 DEF PieceText, k
<1> QED BY <1>3, <1>4

(* Two pieces are merged only if their quantifiers are of one greediness,  *)
(* and one of them has a quantifier.                                       *)
LEMMA MergedFits ==
    ASSUME NEW G, NEW B, NEW q \in Pieces(B), NEW r \in Pieces(B), PieceFits(q, G),
           PieceFits(r, G), Mergeable(q, r)
    PROVE  Merged(q, r) \in Pieces(B) /\ PieceFits(Merged(q, r), G)
<1>1. /\ q.base \in B /\ q.lo \in Nat /\ q.hi \in Nat /\ q.greedy \in BOOLEAN /\ q.atomic \in BOOLEAN
      /\ r.lo \in Nat /\ r.hi \in Nat
  BY DEF Pieces
<1>2. q.greedy \in G
  BY DEF PieceFits, Mergeable
<1> DEFINE hi == IF Inf \in {q.hi, r.hi} THEN Inf ELSE q.hi + r.hi
<1>3. hi \in Nat /\ q.lo + r.lo \in Nat
  BY <1>1, RenderAssumption
<1> HIDE DEF hi
<1>4. Fits(q.base, G)
  BY DEF PieceFits
<1>5. Merged(q, r) = Piece(q.base, q.lo + r.lo, hi, q.greedy, q.atomic)
  BY DEF Merged, hi
<1>6. PieceFits(Merged(q, r), G)
  BY <1>1, <1>2, <1>3, <1>4, <1>5, NewPieceFits
<1>7. Merged(q, r) \in Pieces(B)
  BY <1>1, <1>3, <1>5 DEF Piece, Pieces
<1> QED BY <1>6, <1>7

Fitting(B, G) == {t \in Seq(Pieces(B)) : \A n \in 1 .. Len(t) : PieceFits(t[n], G)}

LEMMA AttachFits ==
    ASSUME NEW G, NEW B, NEW done \in Fitting(B, G), NEW q \in Pieces(B), PieceFits(q, G)
    PROVE  Attach(done, q) \in Fitting(B, G)
<1>1. done \in Seq(Pieces(B)) /\ Len(done) \in Nat /\ \A n \in 1 .. Len(done) : PieceFits(done[n], G)
  BY DEF Fitting
<1>2. ASSUME NEW d \in Seq(Pieces(B)), \A n \in 1 .. Len(d) : PieceFits(d[n], G),
             NEW r \in Pieces(B), PieceFits(r, G)
      PROVE  Append(d, r) \in Fitting(B, G)
  <2>1. /\ Append(d, r) \in Seq(Pieces(B)) /\ Len(Append(d, r)) = Len(d) + 1
        /\ \A n \in 1 .. Len(d) + 1 : Append(d, r)[n] = IF n <= Len(d) THEN d[n] ELSE r
    BY <1>2
  <2>2. ASSUME NEW n \in 1 .. Len(Append(d, r)) PROVE PieceFits(Append(d, r)[n], G)
    BY <1>2, <2>1
  <2> QED BY <2>1, <2>2 DEF Fitting
<1>3. CASE done # <<>> /\ Mergeable(Last(done), q)
  <2>1. Len(done) \in 1 .. Len(done) /\ Len(done) - 1 \in 0 .. Len(done)
    BY <1>1, <1>3
  <2> DEFINE l == Last(done)  d == Front(done)
  <2>2. l \in Pieces(B) /\ PieceFits(l, G)
    BY <1>1, <2>1 DEF Last
  <2>3. /\ d \in Seq(Pieces(B)) /\ Len(d) = Len(done) - 1
        /\ \A n \in 1 .. Len(d) : d[n] = done[n]
    <3>1. PICK m \in 0 .. Len(done) : m = Len(done) - 1
      BY <2>1
    <3>2. d = SubSeq(done, 1, m)
      BY <3>1 DEF Front
    <3> HIDE DEF d
    <3>3. d \in Seq(Pieces(B)) /\ Len(d) = m /\ \A n \in 1 .. m : d[n] = done[n]
      BY <1>1, <3>2
    <3> QED BY <3>1, <3>3
  <2> HIDE DEF l, d
  <2>4. \A n \in 1 .. Len(d) : PieceFits(d[n], G)
    BY <1>1, <2>1, <2>3
  <2>5. Merged(l, q) \in Pieces(B) /\ PieceFits(Merged(l, q), G)
    BY <1>3, <2>2, MergedFits DEF l
  <2>6. Append(d, Merged(l, q)) \in Fitting(B, G)
    BY <1>2, <2>3, <2>4, <2>5
  <2> QED BY <1>3, <2>6 DEF Attach, l, d
<1>4. CASE ~ (done # <<>> /\ Mergeable(Last(done), q))
  <2>1. Append(done, q) \in Fitting(B, G)
    BY <1>1, <1>2
  <2> QED BY <1>4, <2>1 DEF Attach
<1> QED BY <1>3, <1>4

LEMMA MergingFits ==
    ASSUME NEW G, NEW qs, PiecesFit(qs, G)
    PROVE  PiecesFit(MergePieces(qs), G)
<1> DEFINE B == {qs[n].base : n \in DOMAIN qs}
           T == Fitting(B, G)
<1>1. Len(qs) \in Nat /\ DOMAIN qs = 1 .. Len(qs)
  BY OwnFacts DEF PiecesFit
<1>2. ASSUME NEW n \in 1 .. Len(qs) PROVE qs[n] \in Pieces(B) /\ PieceFits(qs[n], G)
  <2>1. PieceFits(qs[n], G) /\ qs[n].base \in B
    BY <1>1 DEF PiecesFit
  <2> HIDE DEF B
  <2> QED BY <2>1 DEF PieceFits, Pieces
<1> HIDE DEF B
<1>3. <<>> \in T
  BY DEF Fitting
<1>4. \A done \in T : \A n \in 1 .. Len(qs) : Attach(done, qs[n]) \in T
  BY <1>2, AttachFits
<1> HIDE DEF T
<1>5. MergePieces(qs) \in T
  BY <1>1, <1>3, <1>4, MergeStays
<1> DEFINE m == MergePieces(qs)
<1> HIDE DEF m
<1>6. m \in Seq(Pieces(B)) /\ \A n \in 1 .. Len(m) : PieceFits(m[n], G)
  BY <1>5 DEF T, Fitting, m
<1>7. OwnSeq(m) /\ DOMAIN m = 1 .. Len(m)
  BY <1>6, OwnRange DEF OwnSeq
<1> QED BY <1>6, <1>7 DEF PiecesFit, m

LEMMA FormatFits ==
    ASSUME NEW G, NEW qs, PiecesFit(qs, G)
    PROVE  Fits(FormatPieces(qs), G)
<1> DEFINE N    == Len(qs)
           seqs == [n \in DOMAIN qs |-> PieceText(qs[n])]
           S    == UNION {{seqs[n][k] : k \in DOMAIN seqs[n]} : n \in 1 .. N}
           T    == {t \in Seq(S) : Fits(t, G)}
<1>1. N \in Nat /\ DOMAIN qs = 1 .. N
  BY OwnFacts DEF PiecesFit
<1>2. /\ DOMAIN seqs = 1 .. N /\ seqs = [n \in 1 .. N |-> seqs[n]]
      /\ \A n \in 1 .. N : seqs[n] = PieceText(qs[n])
  BY <1>1
<1>3. FormatPieces(qs) = FlattenSeq(seqs)
  BY DEF FormatPieces
<1> HIDE DEF N, seqs
<1>4. Len(seqs) = N
  BY <1>1, <1>2, LenByDomain
<1>5. \A n \in 1 .. N : Fits(seqs[n], G)
  BY <1>1, <1>2, PieceTextFits DEF PiecesFit
<1>6. CASE N = 0
  <2>1. seqs = <<>>
    BY <1>2, <1>6
  <2>2. FlattenSeq(seqs) = seqs
    BY <1>4, <1>6 DEF FlattenSeq
  <2> QED BY <1>3, <2>1, <2>2, NoneFits
<1>7. CASE N # 0
  <2>1. ASSUME NEW n \in 1 .. N PROVE seqs[n] \in T
    <3>1. OwnSeq(seqs[n]) /\ {seqs[n][k] : k \in DOMAIN seqs[n]} \subseteq S
      BY <1>5 DEF Fits
    <3> HIDE DEF S
    <3>2. seqs[n] \in Seq(S)
      BY <3>1 DEF OwnSeq
    <3> QED BY <1>5, <3>2
  <2> HIDE DEF S
  <2>2. ASSUME NEW t \in T, NEW n \in 1 .. N PROVE t \o seqs[n] \in T
    <3>1. seqs[n] \in Seq(S) /\ Fits(seqs[n], G)
      BY <2>1
    <3>2. t \o seqs[n] \in Seq(S)
      BY <3>1
    <3> QED BY <3>1, <3>2, BothFit
  <2> HIDE DEF T
  <2>3. FlattenSeq(seqs) \in T
    BY <1>1, <1>4, <1>7, <2>1, <2>2, FlattenStays
  <2> QED BY <1>3, <2>3 DEF T
<1> QED BY <1>6, <1>7

LEMMA TextFits ==
    ASSUME NEW G, NEW qs, PiecesFit(qs, G)
    PROVE  Fits(Text(qs), G)
<1>1. {FormatPieces(merged) : merged \in {MergePieces(qs)}} = {FormatPieces(MergePieces(qs))}
  OBVIOUS
<1>2. Text(qs) = FormatPieces(MergePieces(qs))
  BY <1>1, OnlyIs DEF Text
<1> QED BY <1>2, MergingFits, FormatFits

-----------------------------------------------------------------------------
(* What a call returns, and what its frame keeps, has quantifiers only of  *)
(* the greediness that the program has.  A piece begins before the offset  *)
(* that its frame is at, so that a split to it goes back.                  *)
CallFits(c, G) ==
    /\ c.lo \in Nat /\ c.hi \in Nat /\ c.greedy \in BOOLEAN
    /\ (c.lo = 1 /\ c.hi = 1) \/ c.greedy \in G
    /\ Fits(c.left, G)

FrameFits(f, G) ==
    /\ PiecesFit(f.pieces, G) /\ CallFits(f.call, G)
    /\ OwnSeq(f.starts) /\ Len(f.starts) = Len(f.pieces)
    /\ \A n \in DOMAIN f.starts : f.starts[n] \in Int /\ f.starts[n] <= f.off

Folded ==
    /\ \A n \in DOMAIN frames : FrameFits(frames[n], CodeGreed(code))
    /\ Fits(text, CodeGreed(code))

LEMMA RepeatedFits ==
    ASSUME NEW G, NEW lo \in Nat, NEW hi \in Nat, NEW greedy \in BOOLEAN, NEW next,
           (lo = 1 /\ hi = 1) \/ greedy \in G
    PROVE  CallFits(Repeated(lo, hi, greedy, next), G)
BY NoneFits DEF CallFits, Repeated, Call

LEMMA NewFrameFits ==
    ASSUME NEW G, NEW start, NEW end, NEW call, CallFits(call, G)
    PROVE  FrameFits(Frame(start, end, call), G)
<1> DEFINE f == Frame(start, end, call)
<1>1. f.pieces = <<>> /\ f.starts = <<>> /\ f.call = call
  BY DEF Frame
<1>2. OwnSeq(<<>>) /\ DOMAIN <<>> = {}
  BY DEF OwnSeq
<1> HIDE DEF f
<1>3. FrameFits(f, G)
  BY <1>1, <1>2 DEF FrameFits, PiecesFit
<1> QED BY <1>3 DEF f

LEMMA MovedFits ==
    ASSUME NEW G, NEW f, Advances(f), FrameFits(f, G), NEW next \in Nat, next >= f.off
    PROVE  FrameFits(Resume(f, next), G)
<1> DEFINE g == Resume(f, next)
<1>1. g.off = next /\ g.pieces = f.pieces /\ g.starts = f.starts /\ g.call = f.call
  BY DEF Advances, Field, Resume
<1>2. f.off \in Nat
  BY DEF Advances
<1> HIDE DEF g
<1>3. FrameFits(g, G)
  BY <1>1, <1>2 DEF FrameFits
<1> QED BY <1>3 DEF g

(* The pieces and their starts are replaced together.                      *)
LEMMA KeptFits ==
    ASSUME NEW G, NEW f, Advances(f), FrameFits(f, G), NEW pieces, PiecesFit(pieces, G),
           NEW starts, OwnSeq(starts), Len(starts) = Len(pieces),
           \A n \in DOMAIN starts : starts[n] \in Int /\ starts[n] <= f.off
    PROVE  FrameFits([f EXCEPT !.pieces = pieces, !.starts = starts], G)
<1> DEFINE g == [f EXCEPT !.pieces = pieces, !.starts = starts]
<1>1. g.off = f.off /\ g.pieces = pieces /\ g.starts = starts /\ g.call = f.call
  BY DEF Advances, Field
<1> HIDE DEF g
<1>2. FrameFits(g, G)
  BY <1>1 DEF FrameFits
<1> QED BY <1>2 DEF g

LEMMA OneMoreFits ==
    ASSUME NEW G, NEW qs, PiecesFit(qs, G), NEW q, PieceFits(q, G)
    PROVE  PiecesFit(Append(qs, q), G) /\ Len(Append(qs, q)) = Len(qs) + 1
<1>1. OwnSeq(qs) /\ DOMAIN qs = 1 .. Len(qs) /\ Len(qs) \in Nat
  BY OwnFacts DEF PiecesFit
<1>2. /\ OwnSeq(Append(qs, q)) /\ Len(Append(qs, q)) = Len(qs) + 1
      /\ DOMAIN Append(qs, q) = 1 .. Len(qs) + 1
      /\ \A n \in 1 .. Len(qs) + 1 : Append(qs, q)[n] = IF n <= Len(qs) THEN qs[n] ELSE q
  BY <1>1, AppendOwn, AppendIs
<1> DEFINE rs == Append(qs, q)
<1> HIDE DEF rs
<1>3. ASSUME NEW n \in DOMAIN rs PROVE PieceFits(rs[n], G)
  BY <1>1, <1>2 DEF PiecesFit, rs
<1>4. PiecesFit(rs, G)
  BY <1>2, <1>3 DEF PiecesFit, rs
<1> QED BY <1>2, <1>4 DEF rs

LEMMA OwnOf == ASSUME NEW S, NEW t \in Seq(S) PROVE OwnSeq(t)
BY OwnRange DEF OwnSeq

LEMMA SliceIs ==
    ASSUME NEW t, OwnSeq(t), NEW a \in Nat \ {0}, NEW b \in 0 .. Len(t), a <= b + 1
    PROVE  /\ OwnSeq(SubSeq(t, a, b)) /\ Len(SubSeq(t, a, b)) = b - a + 1
           /\ DOMAIN SubSeq(t, a, b) = 1 .. b - a + 1
           /\ \A n \in 1 .. b - a + 1 : SubSeq(t, a, b)[n] = t[a + n - 1] /\ a + n - 1 \in DOMAIN t
<1> DEFINE S == {t[n] : n \in DOMAIN t}
           u == SubSeq(t, a, b)
<1>1. t \in Seq(S) /\ Len(t) \in Nat /\ DOMAIN t = 1 .. Len(t)
  BY OwnFacts DEF OwnSeq
<1> HIDE DEF S
<1>2. /\ u \in Seq(S) /\ Len(u) = b - a + 1 /\ DOMAIN u = 1 .. b - a + 1
      /\ \A n \in 1 .. b - a + 1 : u[n] = t[a + n - 1] /\ a + n - 1 \in DOMAIN t
  BY <1>1
<1> HIDE DEF u
<1>3. OwnSeq(u)
  <2>1. u \in Seq(S)
    BY <1>2
  <2> QED BY <2>1, OwnOf
<1> QED BY <1>2, <1>3 DEF u

LEMMA SliceFits ==
    ASSUME NEW G, NEW qs, PiecesFit(qs, G), NEW a \in Nat \ {0}, NEW b \in 0 .. Len(qs), a <= b + 1
    PROVE  PiecesFit(SubSeq(qs, a, b), G) /\ Len(SubSeq(qs, a, b)) = b - a + 1
<1> DEFINE u == SubSeq(qs, a, b)
<1>1. /\ OwnSeq(u) /\ Len(u) = b - a + 1 /\ DOMAIN u = 1 .. b - a + 1
      /\ \A n \in 1 .. b - a + 1 : u[n] = qs[a + n - 1] /\ a + n - 1 \in DOMAIN qs
  BY SliceIs DEF PiecesFit
<1> HIDE DEF u
<1>2. PiecesFit(u, G)
  BY <1>1 DEF PiecesFit
<1> QED BY <1>1, <1>2 DEF u

LEMMA WithPieceFits ==
    ASSUME NEW G, NEW f, Advances(f), FrameFits(f, G), NEW q, PieceFits(q, G),
           NEW next \in Nat, next > f.off
    PROVE  FrameFits(WithPiece(f, q, next), G)
<1> DEFINE pieces == Append(f.pieces, q)
           starts == Append(f.starts, f.off)
           g      == [f EXCEPT !.pieces = pieces, !.starts = starts]
<1>1. PiecesFit(pieces, G) /\ Len(pieces) = Len(f.pieces) + 1
  BY OneMoreFits DEF FrameFits
<1>2. f.off \in Nat /\ OwnSeq(f.starts) /\ Len(f.starts) = Len(f.pieces)
      /\ Len(f.starts) \in Nat /\ DOMAIN f.starts = 1 .. Len(f.starts)
  BY OwnFacts DEF FrameFits, Advances
<1>3. /\ OwnSeq(starts) /\ Len(starts) = Len(f.starts) + 1 /\ DOMAIN starts = 1 .. Len(f.starts) + 1
      /\ \A n \in 1 .. Len(f.starts) + 1 :
            starts[n] = IF n <= Len(f.starts) THEN f.starts[n] ELSE f.off
  BY <1>2, AppendOwn, AppendIs
<1> HIDE DEF pieces, starts
<1>4. \A n \in DOMAIN starts : starts[n] \in Int /\ starts[n] <= f.off
  <2> SUFFICES ASSUME NEW n \in 1 .. Len(f.starts) + 1
               PROVE  starts[n] \in Int /\ starts[n] <= f.off
    BY <1>3
  <2>1. CASE n <= Len(f.starts)
    <3>1. starts[n] = f.starts[n] /\ n \in DOMAIN f.starts
      BY <1>2, <1>3, <2>1
    <3> QED BY <3>1 DEF FrameFits
  <2>2. CASE ~ (n <= Len(f.starts))
    <3>1. starts[n] = f.off
      BY <1>2, <1>3, <2>2
    <3> QED BY <1>2, <3>1
  <2> QED BY <2>1, <2>2
<1>5. FrameFits(g, G)
  BY <1>1, <1>2, <1>3, <1>4, KeptFits
<1>6. Advances(g) /\ g.off = f.off
  BY Kept
<1>7. WithPiece(f, q, next) = Resume(g, next)
  BY DEF WithPiece, pieces, starts
<1> HIDE DEF g
<1>8. FrameFits(Resume(g, next), G)
  BY <1>2, <1>5, <1>6, MovedFits
<1> QED BY <1>7, <1>8

-----------------------------------------------------------------------------
(* The ways in which a step changes the stack.                             *)
LEMMA TopFits ==
    ASSUME RInv, Folded, frames # <<>>
    PROVE  FrameFits(Top, CodeGreed(code))
<1>1. Len(frames) \in DOMAIN frames
  BY TopFacts
<1> QED BY <1>1 DEF Folded, Top

LEMMA TopReplacedFits ==
    ASSUME RInv, Folded, frames # <<>>, NEW f, FrameFits(f, CodeGreed(code)), ReplaceTop(f),
           UNCHANGED <<code, text>>
    PROVE  Folded'
<1>1. DOMAIN frames' = DOMAIN frames
  BY DEF ReplaceTop
<1>2. ASSUME NEW n \in DOMAIN frames' PROVE FrameFits(frames'[n], CodeGreed(code))
  <2>1. frames'[n] = f \/ frames'[n] = frames[n]
    BY <1>1 DEF ReplaceTop
  <2> QED BY <1>1, <2>1 DEF Folded
<1> QED BY <1>2 DEF Folded

LEMMA CallEnteredFits ==
    ASSUME RInv, Folded, AtInstr, NEW start, NEW end, NEW call, CallFits(call, CodeGreed(code)),
           Enter(start, end, call)
    PROVE  Folded'
<1>1. FrameFits(Frame(start, end, call), CodeGreed(code))
  BY NewFrameFits
<1>2. OwnSeq(frames)
  BY DEF RInv, Stack, OwnSeq
<1>3. CASE frames' = Append(frames, Frame(start, end, call)) /\ UNCHANGED <<code, text, full>>
  <2>1. ASSUME NEW n \in DOMAIN frames' PROVE FrameFits(frames'[n], CodeGreed(code))
    <3> DEFINE f == Frame(start, end, call)
    <3> HIDE DEF f
    <3>0. FrameFits(f, CodeGreed(code)) /\ frames' = Append(frames, f)
      BY <1>1, <1>3 DEF f
    <3>1. /\ DOMAIN frames' = 1 .. Len(frames) + 1 /\ DOMAIN frames = 1 .. Len(frames)
          /\ Len(frames) \in Nat
          /\ \A k \in 1 .. Len(frames) + 1 : frames'[k] = IF k <= Len(frames) THEN frames[k] ELSE f
      BY <1>2, <3>0, AppendIs, OwnFacts
    <3>2. frames'[n] = f \/ (n \in DOMAIN frames /\ frames'[n] = frames[n])
      BY <3>1
    <3> QED BY <3>0, <3>2 DEF Folded
  <2> QED BY <1>3, <2>1 DEF Folded
<1>4. CASE frames' = <<>> /\ text' = <<>> /\ UNCHANGED code
  <2>1. Fits(<<>>, CodeGreed(code)) /\ DOMAIN <<>> = {}
    BY NoneFits
  <2> QED BY <1>4, <2>1 DEF Folded
<1> QED BY <1>3, <1>4 DEF Enter

LEMMA CallReturnedFits ==
    ASSUME RInv, Folded, Returning, NEW q, PieceFits(q, CodeGreed(code)), BackWith(q),
           UNCHANGED <<code, text>>
    PROVE  Folded'
<1> DEFINE m     == Len(frames) - 2
           outer == SubSeq(frames, 1, m)
           f     == WithPiece(Caller, q, Top.call.next)
<1>1. frames # <<>>
  BY DEF Returning, RInv, Stack
<1>2. Stack(frames) /\ Advances(Top) /\ Len(frames) \in Nat /\ DOMAIN frames = 1 .. Len(frames)
  BY <1>1, TopFacts
<1>3. Len(frames) > 1 /\ m \in Nat /\ m <= Len(frames) /\ Len(frames) - 1 \in DOMAIN frames
      /\ Len(frames) \in 2 .. Len(frames)
  BY <1>2 DEF Returning
<1>4. Advances(Caller) /\ FrameFits(Caller, CodeGreed(code))
  BY <1>2, <1>3 DEF Caller, Stack, Folded
<1>5. Top.call.next \in Nat /\ Top.call.next > Caller.off
  BY <1>2, <1>3 DEF Stack, Top, Caller, Advances
<1>6. FrameFits(f, CodeGreed(code))
  BY <1>4, <1>5, WithPieceFits
<1>7. /\ Stack(outer) /\ Len(outer) = m
      /\ \A n \in 1 .. m : outer[n] = frames[n]
  BY <1>2, <1>3, Shortened
<1>8. frames' = Append(outer, f)
  BY DEF BackWith
<1> HIDE DEF outer, f, m
<1>9. OwnSeq(outer)
  BY <1>7 DEF Stack, OwnSeq
<1>10. /\ DOMAIN frames' = 1 .. m + 1
       /\ \A n \in 1 .. m + 1 : frames'[n] = IF n <= m THEN outer[n] ELSE f
  BY <1>7, <1>8, <1>9, AppendIs
<1>11. ASSUME NEW n \in DOMAIN frames' PROVE FrameFits(frames'[n], CodeGreed(code))
  <2>1. frames'[n] = f \/ (n \in DOMAIN frames /\ frames'[n] = frames[n])
    BY <1>2, <1>3, <1>7, <1>10
  <2> QED BY <1>6, <2>1 DEF Folded
<1> QED BY <1>11 DEF Folded

-----------------------------------------------------------------------------
(* Each quantifier that the renderer writes is one of the program's.       *)
LEMMA CodeGreedIs ==
    ASSUME NEW c \in Codes, NEW o \in DOMAIN c
    PROVE  /\ c[o].op \in Split /\ c[o].target <= o => (c[o].op = "SPLIT_B") \in CodeGreed(c)
           /\ c[o].op \in Split /\ c[o].target > o /\ ~ Alternates(c, o) =>
                (c[o].op = "SPLIT_A") \in CodeGreed(c)
           /\ c[o].op \in RepeatStart => (c[o].op = "REPEAT_START_GREEDY") \in CodeGreed(c)
           /\ c[o].op \in RepeatAny => (c[o].op = "REPEAT_ANY_GREEDY") \in CodeGreed(c)
<1>1. ASSUME c[o].op \in Split, c[o].target <= o PROVE (c[o].op = "SPLIT_B") \in CodeGreed(c)
  BY <1>1 DEF CodeGreed, SplitsBack
<1>2. ASSUME c[o].op \in Split, c[o].target > o, ~ Alternates(c, o)
      PROVE  (c[o].op = "SPLIT_A") \in CodeGreed(c)
  BY <1>2 DEF CodeGreed, SplitsForward
<1> DEFINE greedy == c[o].op \in {"REPEAT_START_GREEDY", "REPEAT_ANY_GREEDY"}
<1>3. ASSUME c[o].op \in RepeatStart \cup RepeatAny PROVE greedy \in CodeGreed(c)
  BY <1>3 DEF CodeGreed, RepeatsOf
<1>4. ASSUME c[o].op \in RepeatStart PROVE greedy = (c[o].op = "REPEAT_START_GREEDY")
  BY <1>4 DEF RepeatStart
<1>5. ASSUME c[o].op \in RepeatAny PROVE greedy = (c[o].op = "REPEAT_ANY_GREEDY")
  BY <1>5 DEF RepeatAny
<1> HIDE DEF greedy
<1> QED BY <1>1, <1>2, <1>3, <1>4, <1>5

LEMMA InsTyped ==
    ASSUME RInv, AtInstr
    PROVE  /\ Top.off \in DOMAIN code /\ code \in Codes
           /\ Ins.lo \in Nat /\ Ins.hi \in Nat /\ Ins = code[Top.off]
<1>1. frames # <<>> /\ Top.off \in DOMAIN code
  BY DEF AtInstr, Looping
<1>2. code \in Codes
  BY <1>1, TopFacts
<1>3. code[Top.off] \in Instr
  BY <1>1, <1>2, RenderAssumption
<1> QED BY <1>1, <1>2, <1>3 DEF Instr, Ins

(* There is one instruction before the target of a split.                  *)
LEMMA StarIsNone ==
    ASSUME RInv, AtInstr, NEW o \in LoopsBack, Forward(Split)
    PROVE  ~ Alternates(code, Top.off)
<1> SUFFICES ASSUME Alternates(code, Top.off) PROVE FALSE
  OBVIOUS
<1>1. PICK q \in DOMAIN code :
        /\ q < Ins.target /\ \A r \in DOMAIN code : r < Ins.target => r <= q
        /\ code[q].op = "JUMP" /\ code[q].target > Ins.target
  BY DEF Alternates, Ins
<1>2. o \in DOMAIN code /\ o < Ins.target /\ (\A r \in DOMAIN code : r < Ins.target => r <= o)
      /\ code[o].target = Top.off
  BY DEF LoopsBack, Before
<1>3. code \in Codes /\ DOMAIN code \subseteq Nat /\ Ins.target \in Int /\ Top.off \in DOMAIN code
  BY InsTyped, InsFacts, CodeFacts
<1>4. o = q
  BY <1>1, <1>2, <1>3
<1> QED BY <1>1, <1>2, <1>3, <1>4 DEF Forward

LEMMA OptionalIsNone ==
    ASSUME JumpsOver = {}
    PROVE  ~ Alternates(code, Top.off)
BY DEF Alternates, Ins, JumpsOver, Before

LEMMA InitFolds == RenderInit => Folded
BY NoneFits DEF RenderInit, Folded

LEMMA StartFolds ==
    ASSUME NEW c, Start(c)
    PROVE  Folded'
<1>1. PICK ends \in Whole(c) : frames' = <<Frame(ends[1], ends[2], Repeated(1, 1, TRUE, 0))>>
  BY DEF Start
<1> DEFINE f == Frame(ends[1], ends[2], Repeated(1, 1, TRUE, 0))
<1>2. CallFits(Repeated(1, 1, TRUE, 0), CodeGreed(c))
  BY RepeatedFits
<1>3. FrameFits(f, CodeGreed(c))
  BY <1>2, NewFrameFits
<1> HIDE DEF f
<1>4. frames' = <<f>> /\ code' = c /\ text' = <<>>
  BY <1>1 DEF Start, f
<1> QED BY <1>3, <1>4, NoneFits DEF Folded

(* e+: the pieces since the target of the split become one.                *)
LEMMA PlusFolds ==
    ASSUME RInv, Folded, ClosePlus
    PROVE  Folded'
<1> DEFINE G    == CodeGreed(code)
           k    == Min({n \in DOMAIN Top.starts : Top.starts[n] = Ins.target})
           body == Text(SubSeq(Top.pieces, k, Len(Top.pieces)))
           plus == Piece(body, 1, Inf, Ins.op = "SPLIT_B", FALSE)
           pieces == Append(SubSeq(Top.pieces, 1, k - 1), plus)
           starts == Append(SubSeq(Top.starts, 1, k - 1), Ins.target)
           g      == [Top EXCEPT !.pieces = pieces, !.starts = starts]
<1>1. AtInstr /\ ClosesPlus /\ UNCHANGED <<code, text>> /\ ReplaceTop(Resume(g, Ins.end))
  BY DEF ClosePlus
<1>2. /\ frames # <<>> /\ Advances(Top) /\ FrameFits(Top, G)
      /\ Ins.end \in Nat /\ Ins.end > Top.off /\ Ins.target \in Int /\ Top.off \in Nat
  BY <1>1, InsFacts, TopFits DEF Advances
<1>3. /\ PiecesFit(Top.pieces, G) /\ OwnSeq(Top.starts) /\ Len(Top.starts) = Len(Top.pieces)
      /\ Len(Top.starts) \in Nat /\ DOMAIN Top.starts = 1 .. Len(Top.starts)
      /\ \A n \in DOMAIN Top.starts : Top.starts[n] <= Top.off
  BY <1>2, OwnFacts DEF FrameFits
<1>4. k \in 1 .. Len(Top.starts) /\ Top.starts[k] = Ins.target
  <2> DEFINE S == {n \in DOMAIN Top.starts : Top.starts[n] = Ins.target}
  <2>1. S # {} /\ S \subseteq Nat
    BY <1>1, <1>3 DEF ClosesPlus
  <2> HIDE DEF S
  <2>2. Min(S) \in S
    BY <2>1, MinOfPlaces
  <2> QED BY <1>3, <2>2 DEF S
<1> HIDE DEF k
<1>5. Ins.target <= Top.off
  BY <1>3, <1>4
<1>6. (Ins.op = "SPLIT_B") \in G
  <2>1. Ins.op \in Split
    BY <1>1 DEF ClosesPlus
  <2> QED BY <1>1, <1>5, <2>1, InsTyped, CodeGreedIs
<1>7. PiecesFit(SubSeq(Top.pieces, k, Len(Top.pieces)), G)
  <2>1. k \in Nat \ {0} /\ Len(Top.pieces) \in 0 .. Len(Top.pieces) /\ k <= Len(Top.pieces) + 1
    BY <1>3, <1>4
  <2> QED BY <1>3, <2>1, SliceFits
<1>8. Fits(body, G)
  BY <1>7, TextFits
<1> HIDE DEF body
<1>9. PieceFits(plus, G)
  <2> DEFINE greedy == Ins.op = "SPLIT_B"
  <2>1. greedy \in BOOLEAN /\ greedy \in G
    BY <1>6
  <2> HIDE DEF greedy
  <2>2. PieceFits(Piece(body, 1, Inf, greedy, FALSE), G)
    BY <1>8, <2>1, RenderAssumption, NewPieceFits
  <2> QED BY <2>2 DEF greedy
<1> HIDE DEF plus
<1>10. k - 1 \in 0 .. Len(Top.pieces) /\ 1 \in Nat \ {0} /\ 1 <= k - 1 + 1 /\ k - 1 - 1 + 1 = k - 1
  BY <1>3, <1>4
<1>11. PiecesFit(SubSeq(Top.pieces, 1, k - 1), G) /\ Len(SubSeq(Top.pieces, 1, k - 1)) = k - 1
  BY <1>3, <1>10, SliceFits
<1>12. PiecesFit(pieces, G) /\ Len(pieces) = k
  <2>1. PiecesFit(pieces, G) /\ Len(pieces) = k - 1 + 1
    BY <1>9, <1>11, OneMoreFits
  <2> QED BY <1>4, <2>1
<1>13. /\ OwnSeq(starts) /\ Len(starts) = k
       /\ \A n \in DOMAIN starts : starts[n] \in Int /\ starts[n] <= Top.off
  <2> DEFINE t == SubSeq(Top.starts, 1, k - 1)
  <2>1. /\ OwnSeq(t) /\ Len(t) = k - 1
        /\ \A n \in 1 .. k - 1 : t[n] = Top.starts[1 + n - 1] /\ 1 + n - 1 \in DOMAIN Top.starts
    BY <1>3, <1>10, SliceIs
  <2> HIDE DEF t
  <2>2. \A n \in 1 .. k - 1 : t[n] \in Int /\ t[n] <= Top.off
    BY <1>2, <2>1 DEF FrameFits
  <2>3. /\ OwnSeq(Append(t, Ins.target)) /\ Len(Append(t, Ins.target)) = k - 1 + 1
        /\ DOMAIN Append(t, Ins.target) = 1 .. k - 1 + 1
        /\ \A n \in 1 .. k - 1 + 1 : Append(t, Ins.target)[n] = IF n <= k - 1 THEN t[n] ELSE Ins.target
    BY <2>1, AppendOwn, AppendIs
  <2>4. \A n \in 1 .. k - 1 + 1 : Append(t, Ins.target)[n] \in Int /\ Append(t, Ins.target)[n] <= Top.off
    BY <1>2, <1>4, <1>5, <2>2, <2>3
  <2> QED BY <1>4, <2>3, <2>4 DEF t
<1> HIDE DEF pieces, starts
<1>14. FrameFits(g, G) /\ Advances(g) /\ g.off = Top.off
  <2>1. Advances(Top) /\ FrameFits(Top, G)
    BY <1>2
  <2>2. PiecesFit(pieces, G) /\ OwnSeq(starts) /\ Len(starts) = Len(pieces)
    BY <1>12, <1>13
  <2>3. FrameFits(g, G)
    BY <2>1, <2>2, <1>13, KeptFits
  <2>4. Advances(g) /\ g.off = Top.off
    BY <2>1, Kept
  <2> QED BY <2>3, <2>4
<1> HIDE DEF g
<1>15. FrameFits(Resume(g, Ins.end), G)
  BY <1>2, <1>14, MovedFits
<1> QED BY <1>1, <1>2, <1>15, TopReplacedFits

LEMMA StepFolds ==
    ASSUME RInv, Folded, RenderStep
    PROVE  Folded'
<1> DEFINE G == CodeGreed(code)
<1>1. CASE Abandon
  <2> DEFINE f == [Top EXCEPT !.off = Top.end]
  <2>1. frames # <<>> /\ Top.off < Top.end /\ ReplaceTop(f) /\ UNCHANGED <<code, text>>
    BY <1>1 DEF Abandon, Looping
  <2>2. Advances(Top) /\ FrameFits(Top, G)
    BY <2>1, TopFacts, TopFits
  <2>3. f.off = Top.end /\ f.pieces = Top.pieces /\ f.starts = Top.starts /\ f.call = Top.call
    BY <2>2 DEF Advances, Field
  <2> HIDE DEF f
  <2>4. Top.end \in Nat /\ Top.off \in Nat
    BY <2>2 DEF Advances
  <2>5. FrameFits(f, G)
    BY <2>1, <2>2, <2>3, <2>4 DEF FrameFits
  <2> QED BY <2>1, <2>5, TopReplacedFits
<1>2. CASE ClosePlus
  BY <1>2, PlusFolds
<1>3. CASE EnterRepeat
  <2> DEFINE greedy == Ins.op = "REPEAT_START_GREEDY"
  <2>1. AtInstr /\ Ins.op \in RepeatStart
    BY <1>3 DEF EnterRepeat, Closed
  <2>2. greedy \in G /\ greedy \in BOOLEAN
    BY <2>1, InsTyped, CodeGreedIs
  <2>3. PICK close : Enter(Ins.end, close, Repeated(Ins.lo, Ins.hi, greedy, code[close].end))
    BY <1>3 DEF EnterRepeat
  <2> HIDE DEF greedy
  <2>4. CallFits(Repeated(Ins.lo, Ins.hi, greedy, code[close].end), G)
    BY <2>1, <2>2, InsTyped, RepeatedFits
  <2> QED BY <2>1, <2>3, <2>4, CallEnteredFits
<1>4. CASE EnterStar
  <2> DEFINE greedy == Ins.op = "SPLIT_A"
  <2>1. PICK o \in LoopsBack : Enter(Ins.end, o, Repeated(0, Inf, greedy, Ins.target))
    BY <1>4 DEF EnterStar
  <2>2. AtInstr /\ Forward(Split)
    BY <1>4 DEF EnterStar
  <2>3. greedy \in G /\ greedy \in BOOLEAN
    <3>1. ~ Alternates(code, Top.off) /\ Ins.op \in Split /\ Ins.target > Top.off
      BY <2>1, <2>2, StarIsNone DEF Forward
    <3> QED BY <2>2, <3>1, InsTyped, CodeGreedIs
  <2> HIDE DEF greedy
  <2>4. CallFits(Repeated(0, Inf, greedy, Ins.target), G)
    BY <2>3, RenderAssumption, RepeatedFits
  <2> QED BY <2>1, <2>2, <2>4, CallEnteredFits
<1>5. CASE EnterAlternation
  <2>1. PICK o : Enter(Ins.end, o, Call("left", 1, 1, TRUE, Ins.target, code[o].target, <<>>))
    BY <1>5 DEF EnterAlternation
  <2>2. AtInstr
    BY <1>5 DEF EnterAlternation
  <2>3. CallFits(Call("left", 1, 1, TRUE, Ins.target, code[o].target, <<>>), G)
    BY NoneFits DEF CallFits, Call
  <2> QED BY <2>1, <2>2, <2>3, CallEnteredFits
<1>6. CASE EnterOptional
  <2> DEFINE greedy == Ins.op = "SPLIT_A"
  <2>1. AtInstr /\ Forward(Split) /\ JumpsOver = {}
        /\ Enter(Ins.end, Ins.target, Repeated(0, 1, greedy, Ins.target))
    BY <1>6 DEF EnterOptional
  <2>2. greedy \in G /\ greedy \in BOOLEAN
    <3>1. ~ Alternates(code, Top.off) /\ Ins.op \in Split /\ Ins.target > Top.off
      BY <2>1, OptionalIsNone DEF Forward
    <3> QED BY <2>1, <3>1, InsTyped, CodeGreedIs
  <2> HIDE DEF greedy
  <2>3. CallFits(Repeated(0, 1, greedy, Ins.target), G)
    BY <2>2, RepeatedFits
  <2> QED BY <2>1, <2>3, CallEnteredFits
<1>7. CASE RepeatAnyUnit
  <2> DEFINE greedy == Ins.op = "REPEAT_ANY_GREEDY"
             q == Piece(<<Token(".", {})>>, Ins.lo, Ins.hi, greedy, FALSE)
  <2>1. AtInstr /\ Ins.op \in RepeatAny /\ UNCHANGED <<code, text>>
        /\ ReplaceTop(WithPiece(Top, q, Ins.end))
    BY <1>7 DEF RepeatAnyUnit
  <2>2. greedy \in G /\ greedy \in BOOLEAN
    BY <2>1, InsTyped, CodeGreedIs
  <2> HIDE DEF greedy
  <2>3. PieceFits(q, G)
    BY <2>1, <2>2, InsTyped, TokenFits, NewPieceFits
  <2> HIDE DEF q
  <2>4. frames # <<>> /\ FrameFits(WithPiece(Top, q, Ins.end), G)
    BY <2>1, <2>3, InsFacts, TopFits, WithPieceFits
  <2> QED BY <2>1, <2>4, TopReplacedFits
<1>8. CASE JumpAhead
  <2>1. AtInstr /\ Forward({"JUMP"}) /\ ReplaceTop(Resume(Top, Ins.target)) /\ UNCHANGED <<code, text>>
    BY <1>8 DEF JumpAhead
  <2>2. frames # <<>> /\ Advances(Top) /\ Ins.target \in Nat /\ Ins.target > Top.off
    BY <2>1, InsFacts DEF Forward
  <2>3. Ins.target >= Top.off
    BY <2>2 DEF Advances
  <2>4. FrameFits(Resume(Top, Ins.target), G)
    BY <2>2, <2>3, TopFits, MovedFits
  <2> QED BY <2>1, <2>2, <2>4, TopReplacedFits
<1>9. CASE AtomUnit
  <2> DEFINE q == Piece(<<Atom(Ins)>>, 1, 1, TRUE, FALSE)
  <2>1. AtInstr /\ UNCHANGED <<code, text>> /\ ReplaceTop(WithPiece(Top, q, Ins.end))
    BY <1>9 DEF AtomUnit
  <2>2. PieceFits(q, G)
    BY AtomFits, NewPieceFits
  <2> HIDE DEF q
  <2>3. frames # <<>> /\ FrameFits(WithPiece(Top, q, Ins.end), G)
    BY <2>1, <2>2, InsFacts, TopFits, WithPieceFits
  <2> QED BY <2>1, <2>3, TopReplacedFits
<1>10. ASSUME Returning
       PROVE  frames # <<>> /\ CallFits(Top.call, G) /\ Fits(Text(Top.pieces), G)
  <2>1. frames # <<>>
    BY <1>10 DEF Returning, RInv, Stack
  <2> QED BY <2>1, TopFits, TextFits DEF FrameFits
<1>11. CASE ReturnPiece
  <2> DEFINE q == Piece(Text(Top.pieces), Top.call.lo, Top.call.hi, Top.call.greedy, FALSE)
  <2>1. Returning /\ BackWith(q) /\ UNCHANGED <<code, text>>
    BY <1>11 DEF ReturnPiece
  <2>2. PieceFits(q, G)
    BY <1>10, <2>1, NewPieceFits DEF CallFits
  <2> HIDE DEF q
  <2> QED BY <2>1, <2>2, CallReturnedFits
<1>12. CASE ReturnLeft
  <2> DEFINE left == Text(Top.pieces)
             call == [Top.call EXCEPT !.kind = "right", !.left = left]
  <2>1. Returning /\ ReplaceTop(Frame(Top.call.mid, Top.call.next, call)) /\ UNCHANGED <<code, text>>
    BY <1>12 DEF ReturnLeft
  <2>2. frames # <<>> /\ CallFits(Top.call, G) /\ Fits(left, G)
    BY <1>10, <2>1
  <2> HIDE DEF left
  <2>3. CallFits(call, G)
    BY <2>2 DEF CallFits
  <2> HIDE DEF call
  <2>4. FrameFits(Frame(Top.call.mid, Top.call.next, call), G)
    BY <2>3, NewFrameFits
  <2> QED BY <2>1, <2>2, <2>4, TopReplacedFits
<1>13. CASE ReturnRight
  <2> DEFINE base == <<Token("(", {})>> \o Top.call.left \o <<Token("|", {})>>
                       \o Text(Top.pieces) \o <<Token(")", {})>>
  <2>1. Returning /\ BackWith(Piece(base, 1, 1, TRUE, TRUE)) /\ UNCHANGED <<code, text>>
    BY <1>13 DEF ReturnRight
  <2>2. Fits(Top.call.left, G) /\ Fits(Text(Top.pieces), G)
    BY <1>10, <2>1 DEF CallFits
  <2>3. /\ Fits(<<Token("(", {})>>, G) /\ Fits(<<Token("|", {})>>, G) /\ Fits(<<Token(")", {})>>, G)
    BY TokenFits
  <2>4. Fits(<<Token("(", {})>> \o Top.call.left, G)
    BY <2>2, <2>3, BothFit
  <2>5. Fits(<<Token("(", {})>> \o Top.call.left \o <<Token("|", {})>>, G)
    BY <2>3, <2>4, BothFit
  <2>6. Fits(<<Token("(", {})>> \o Top.call.left \o <<Token("|", {})>> \o Text(Top.pieces), G)
    BY <2>2, <2>5, BothFit
  <2>7. Fits(base, G)
    BY <2>3, <2>6, BothFit
  <2> HIDE DEF base
  <2>8. PieceFits(Piece(base, 1, 1, TRUE, TRUE), G)
    BY <2>7, NewPieceFits
  <2> QED BY <2>1, <2>8, CallReturnedFits
<1>14. CASE Rendered
  <2>1. Len(frames) = 1 /\ text' = Text(Top.pieces) /\ frames' = <<>> /\ code' = code
    BY <1>14 DEF Rendered
  <2>2. frames # <<>>
    BY <2>1 DEF RInv, Stack
  <2>3. Fits(Text(Top.pieces), G)
    BY <2>2, TopFits, TextFits DEF FrameFits
  <2> QED BY <2>1, <2>3 DEF Folded
<1> QED BY <1>1, <1>2, <1>3, <1>4, <1>5, <1>6, <1>7, <1>8, <1>9, <1>11, <1>12, <1>13, <1>14
        DEF RenderStep

LEMMA StepSameCode == RenderStep => code' = code
<1>1. Abandon \/ ClosePlus \/ RepeatAnyUnit \/ JumpAhead \/ AtomUnit => code' = code
  BY DEF Abandon, ClosePlus, RepeatAnyUnit, JumpAhead, AtomUnit
<1>2. EnterRepeat \/ EnterStar \/ EnterAlternation \/ EnterOptional => code' = code
  BY DEF EnterRepeat, EnterStar, EnterAlternation, EnterOptional, Enter
<1>3. ReturnPiece \/ ReturnLeft \/ ReturnRight \/ Rendered => code' = code
  BY DEF ReturnPiece, ReturnLeft, ReturnRight, Rendered
<1> QED BY <1>1, <1>2, <1>3 DEF RenderStep

LEMMA NextFolds == RInv /\ Folded /\ [RenderNext]_rvars => Folded'
<1> SUFFICES ASSUME RInv, Folded, [RenderNext]_rvars PROVE Folded'
  OBVIOUS
<1>1. CASE Start(code')
  BY <1>1, StartFolds
<1>2. CASE RenderStep
  BY <1>2, StepFolds
<1>3. CASE UNCHANGED rvars
  BY <1>3 DEF rvars, Folded
<1> QED BY <1>1, <1>2, <1>3 DEF RenderNext

-----------------------------------------------------------------------------
(* The loop over the strings.  Types first: what the loop keeps, and what  *)
(* the renderer and the search do with theirs.                             *)
Busy == {"programs", "regex", "plaintext"}

Typed ==
    /\ TypeOK
    /\ strings \in Sources /\ OwnSeq(rendered) /\ DOMAIN result = DOMAIN strings
    /\ phase \in Busy => s \in DOMAIN strings
    /\ phase = "plaintext" => rendered # <<>>

LEMMA StringFacts ==
    ASSUME strings \in Sources
    PROVE  /\ OwnSeq(strings) /\ Len(strings) \in Nat /\ DOMAIN strings = 1 .. Len(strings)
           /\ \A n \in DOMAIN strings : strings[n].programs \in Seq(Codes)
<1>1. OwnSeq(strings) /\ \A n \in DOMAIN strings : strings[n].programs \in Seq(Codes)
  BY PatternTextAssumption DEF OwnSeq
<1> QED BY <1>1, OwnFacts

LEMMA RenderTyped ==
    ASSUME full \in BOOLEAN, RenderStep
    PROVE  full' \in BOOLEAN
<1>1. CASE Abandon
  BY <1>1 DEF Abandon
<1>2. CASE ClosePlus \/ RepeatAnyUnit \/ JumpAhead
  BY <1>2 DEF ClosePlus, RepeatAnyUnit, JumpAhead
<1>3. CASE EnterRepeat \/ EnterStar \/ EnterAlternation \/ EnterOptional
  BY <1>3 DEF EnterRepeat, EnterStar, EnterAlternation, EnterOptional, Enter
<1>4. CASE AtomUnit
  BY <1>4 DEF AtomUnit
<1>5. CASE ReturnPiece \/ ReturnLeft \/ ReturnRight \/ Rendered
  BY <1>5 DEF ReturnPiece, ReturnLeft, ReturnRight, Rendered
<1> QED BY <1>1, <1>2, <1>3, <1>4, <1>5 DEF RenderStep

LEMMA SearchTyped ==
    ASSUME searching \in BOOLEAN, SearchStep
    PROVE  searching' \in BOOLEAN
<1>1. CASE NextSeed \/ NotRecovered
  BY <1>1 DEF NextSeed, NotRecovered
<1>2. CASE TryTails
  BY <1>2 DEF TryTails
<1> QED BY <1>1, <1>2 DEF SearchStep

LEMMA InitTyped == Init => Typed
<1> SUFFICES ASSUME Init PROVE Typed
  OBVIOUS
<1>1. strings \in Sources /\ Len(strings) \in Nat
  BY StringFacts DEF Init
<1>2. OwnSeq(<<>>)
  BY DEF OwnSeq
<1>3. NoText.form \in Form
  BY DEF NoText, Form
<1>4. DOMAIN result = DOMAIN strings /\ \A n \in DOMAIN strings : result[n].form \in Form
  BY <1>3 DEF Init
<1>5. s \in 1 .. Len(strings) + 1 /\ p \in Nat \ {0} /\ exact \in BOOLEAN
  BY <1>1 DEF Init
<1>6. rendered = <<>> /\ warnings = {} /\ phase = "strings"
  BY DEF Init
<1>7. full \in BOOLEAN /\ searching \in BOOLEAN /\ frames = <<>> /\ ~ searching
  BY DEF Init, RenderInit, SearchInit
<1> QED BY <1>1, <1>2, <1>4, <1>5, <1>6, <1>7 DEF Typed, TypeOK, Busy

(* A string's text is settled: the loop goes on to the next.               *)
LEMMA NextStringTyped ==
    ASSUME Typed, phase \in Busy, phase # "regex", ~ searching,
           NEW t, t.form \in Form, NEW kinds, kinds \subseteq Loss, NextString(t, kinds)
    PROVE  Typed'
<1>1. s \in DOMAIN strings /\ s \in 1 .. Len(strings) /\ Len(strings) \in Nat
  BY StringFacts DEF Typed
<1>2. \A n \in DOMAIN strings : result'[n].form \in Form /\ DOMAIN result' = DOMAIN strings
  BY DEF NextString, Typed, TypeOK
<1>3. warnings' \subseteq (DOMAIN strings) \X (Loss \cup {"xor", "base64"})
  BY <1>1 DEF NextString, Typed, TypeOK
<1>4. s' \in 1 .. Len(strings) + 1 /\ phase' = "strings"
  BY <1>1 DEF NextString
<1> QED BY <1>2, <1>3, <1>4 DEF NextString, Typed, TypeOK, Busy, OwnSeq, rvars, bvars

LEMMA FirstShownTyped ==
    ASSUME Typed, phase \in {"programs", "plaintext"}, ~ searching, rendered # <<>>,
           NEW kinds, kinds \subseteq Loss, FirstShown(kinds)
    PROVE  Typed'
<1>1. 1 \in DOMAIN rendered
  BY OwnFacts DEF Typed, OwnSeq
<1>2. rendered[1].form \in Form
  BY <1>1 DEF Typed, TypeOK, Form
<1> DEFINE all == kinds \cup (IF Len(rendered) > 1 THEN {"several"} ELSE {})
                       \cup (IF exact THEN {} ELSE {"approximate"})
<1>3. all \subseteq Loss
  BY DEF Loss
<1>4. NextString(rendered[1], all)
  BY DEF FirstShown
<1> HIDE DEF all
<1> QED BY <1>2, <1>3, <1>4, NextStringTyped DEF Busy

(* One more text of a program of the string.                               *)
LEMMA ProgramTyped ==
    ASSUME Typed, phase \in {"programs", "regex"}, NEW t, t.form \in {"hex", "regex"},
           rendered' = Append(rendered, t), p' = p + 1, exact' \in BOOLEAN,
           phase' = "programs", frames = <<>>,
           UNCHANGED <<strings, s, result, warnings, output, rvars, bvars>>
    PROVE  Typed'
<1>1. OwnSeq(rendered') /\ Len(rendered') = Len(rendered) + 1 /\ Len(rendered) \in Nat
  BY AppendOwn, OwnFacts DEF Typed
<1>2. \A n \in DOMAIN rendered' : rendered'[n].form \in {"hex", "regex"}
  BY AppendIs, OwnFacts DEF Typed, TypeOK
<1>3. Len(rendered) = p - 1 /\ p \in Nat \ {0} /\ s \in DOMAIN strings
  BY DEF Typed, TypeOK, Busy
<1>4. UNCHANGED <<strings, s, result, warnings, full, searching, frames>>
  BY DEF rvars, bvars
<1>5. ~ searching
  BY DEF Typed, TypeOK
<1> QED BY <1>1, <1>2, <1>3, <1>4, <1>5 DEF Typed, TypeOK, Busy

LEMMA NextTyped == Typed /\ [Step \/ Done]_vars => Typed'
<1> SUFFICES ASSUME Typed, [Step \/ Done]_vars PROVE Typed'
  OBVIOUS
<1>1. CASE SkipLiteral
  <2>1. s' \in 1 .. Len(strings) + 1 /\ phase' = "strings"
    BY <1>1, StringFacts DEF SkipLiteral, Typed
  <2> QED BY <1>1, <2>1 DEF SkipLiteral, Typed, TypeOK, Busy, OwnSeq, rvars, bvars
<1>2. CASE BeginString
  <2>1. OwnSeq(<<>>) /\ Len(<<>>) = 0
    BY DEF OwnSeq
  <2>2. /\ rendered' = <<>> /\ p' = 1 /\ exact' = TRUE /\ phase' = "programs" /\ s \in DOMAIN strings
        /\ UNCHANGED <<strings, s, result, warnings, full, searching, frames>> /\ phase = "strings"
    BY <1>2 DEF BeginString, rvars, bvars
  <2> QED BY <2>1, <2>2 DEF Typed, TypeOK, Busy
<1>3. CASE HexProgram
  <2> DEFINE t == [form |-> "hex", body |-> RenderHex(Programs[p]), suffix |-> {}]
  <2>1. t.form = "hex"
    OBVIOUS
  <2>2. rendered' = Append(rendered, t)
    BY <1>3 DEF HexProgram
  <2> HIDE DEF t
  <2>3. phase = "programs" /\ phase' = "programs" /\ p' = p + 1 /\ exact' \in BOOLEAN /\ frames = <<>>
    BY <1>3 DEF HexProgram, Typed, TypeOK
  <2>4. UNCHANGED <<strings, s, result, warnings, output, rvars, bvars>>
    BY <1>3 DEF HexProgram
  <2> QED BY <2>1, <2>2, <2>3, <2>4, ProgramTyped
<1>4. CASE RegexProgram
  <2>1. full' = TRUE
    BY <1>4 DEF RegexProgram, Start
  <2>2. /\ phase = "programs" /\ phase' = "regex"
        /\ UNCHANGED <<strings, s, p, rendered, exact, result, warnings, searching>>
    BY <1>4 DEF RegexProgram, loopVars, bvars
  <2> QED BY <2>1, <2>2 DEF Typed, TypeOK, Busy
<1>5. CASE RegexStep
  <2>1. full' \in BOOLEAN
    BY <1>5, RenderTyped DEF RegexStep, Typed, TypeOK
  <2>2. phase = "regex" /\ UNCHANGED <<strings, phase, s, p, rendered, exact, result, warnings, searching>>
    BY <1>5 DEF RegexStep, tvars, loopVars, bvars
  <2> QED BY <2>1, <2>2 DEF Typed, TypeOK, Busy
<1>6. CASE RegexRendered
  <2> DEFINE t == [form |-> "regex", body |-> text, suffix |-> RegexSuffix(strings[s].flags)]
  <2>1. t.form = "regex"
    OBVIOUS
  <2>2. rendered' = Append(rendered, t)
    BY <1>6 DEF RegexRendered
  <2> HIDE DEF t
  <2>3. phase = "regex" /\ phase' = "programs" /\ p' = p + 1 /\ frames = <<>>
    BY <1>6 DEF RegexRendered
  <2>4. exact' \in BOOLEAN
    BY <1>6 DEF RegexRendered
  <2>5. UNCHANGED <<strings, s, result, warnings, output, rvars, bvars>>
    BY <1>6 DEF RegexRendered
  <2> QED BY <2>1, <2>2, <2>3, <2>4, <2>5, ProgramTyped
<1>7. CASE SearchPlaintext
  <2>1. searching' = TRUE /\ phase' = "plaintext" /\ phase = "programs" /\ rendered # <<>>
    BY <1>7 DEF SearchPlaintext, Recover
  <2>2. UNCHANGED <<strings, s, p, rendered, exact, result, warnings, full, frames>>
    BY <1>7 DEF SearchPlaintext, loopVars, rvars
  <2> QED BY <2>1, <2>2 DEF Typed, TypeOK, Busy
<1>8. CASE PlaintextStep
  <2>1. searching' \in BOOLEAN
    BY <1>8, SearchTyped DEF PlaintextStep, Typed, TypeOK
  <2>2. /\ phase = "plaintext"
        /\ UNCHANGED <<strings, phase, s, p, rendered, exact, result, warnings, full, frames>>
    BY <1>8 DEF PlaintextStep, tvars, loopVars, rvars
  <2> QED BY <2>1, <2>2 DEF Typed, TypeOK, Busy
<1>9. CASE PlaintextFound
  <2> DEFINE t == [form |-> "plaintext", body |-> found, suffix |-> {}]
  <2>1. t.form \in Form
    BY DEF Form
  <2>2. NextString(t, {}) /\ phase = "plaintext" /\ ~ searching
    BY <1>9 DEF PlaintextFound
  <2> HIDE DEF t
  <2> QED BY <2>1, <2>2, NextStringTyped DEF Busy
<1>10. CASE PlaintextNotFound
  <2>1. phase = "plaintext" /\ ~ searching /\ FirstShown({"no plaintext"})
    BY <1>10 DEF PlaintextNotFound
  <2> rendered # <<>>
    BY <2>1 DEF Typed
  <2>2. {"no plaintext"} \subseteq Loss
    BY DEF Loss
  <2> QED BY <2>1, <2>2, FirstShownTyped
<1>11. CASE FinishString
  <2>1. phase = "programs" /\ ~ searching
    BY <1>11 DEF FinishString, Typed, TypeOK
  <2>2. CASE NextString(NoText, {"not linked"})
    <3>1. NoText.form \in Form /\ {"not linked"} \subseteq Loss
      BY DEF NoText, Form, Loss
    <3> QED BY <2>1, <2>2, <3>1, NextStringTyped DEF Busy
  <2>3. CASE rendered # <<>> /\ FirstShown({})
    BY <2>1, <2>3, FirstShownTyped
  <2> QED BY <1>11, <2>2, <2>3 DEF FinishString
<1>12. CASE EmitStrings
  <2>1. warnings' \subseteq (DOMAIN strings) \X (Loss \cup {"xor", "base64"})
    <3>1. Visible \subseteq DOMAIN strings /\ "unrecovered" \in Loss
      BY DEF Visible, Loss
    <3>2. ASSUME NEW w \in warnings' PROVE w \in (DOMAIN strings) \X (Loss \cup {"xor", "base64"})
      BY <1>12, <3>1 DEF EmitStrings, Typed, TypeOK
    <3> QED BY <3>2
  <2>2. /\ phase = "strings" /\ phase' = "done"
        /\ UNCHANGED <<strings, s, p, rendered, exact, result, full, searching, frames>>
    BY <1>12 DEF EmitStrings, loopVars, rvars, bvars
  <2> QED BY <2>1, <2>2 DEF Typed, TypeOK, Busy
<1>13. CASE Done \/ UNCHANGED vars
  BY <1>13 DEF Done, vars, tvars, loopVars, rvars, bvars, Typed, TypeOK, OwnSeq
<1> QED BY <1>1, <1>2, <1>3, <1>4, <1>5, <1>6, <1>7, <1>8, <1>9, <1>10, <1>11, <1>12, <1>13
        DEF Step

(* Whatever the strings of a rule and their programs, compiled or not: a   *)
(* string that is worked on has one text for each program it is past, and  *)
(* only strings of the rule are warned about.                              *)
THEOREM TypeOKHolds == Spec => []TypeOK
<1>1. Typed => TypeOK
  BY DEF Typed
<1> QED BY <1>1, InitTyped, NextTyped, PTL DEF Spec

(* Every step of the loop is, for the renderer, a request to render one of *)
(* the programs of the string, a turn of its loop, or nothing: so what is  *)
(* proved of RegexRender holds of the renderings the loop asks for.  (That *)
(* the renderer answers, TLC checks.)                                      *)
LEMMA NextRenders == Typed /\ [Step \/ Done]_vars => [RenderNext]_rvars
<1> SUFFICES ASSUME Typed, [Step \/ Done]_vars PROVE [RenderNext]_rvars
  OBVIOUS
<1>1. CASE RegexProgram
  <2>1. s \in DOMAIN strings /\ p \in DOMAIN Programs
    BY <1>1 DEF RegexProgram, Typed, Busy
  <2>2. strings[s].programs \in Seq(Codes)
    BY <2>1, StringFacts DEF Typed
  <2>3. Programs[p] \in Codes
    BY <2>1, <2>2 DEF Programs
  <2>4. Start(Programs[p])
    BY <1>1 DEF RegexProgram
  <2>5. code' = Programs[p]
    BY <2>4 DEF Start
  <2> QED BY <2>3, <2>4, <2>5 DEF RenderNext
<1>2. CASE RegexStep
  BY <1>2 DEF RegexStep, RenderNext
<1>3. CASE SkipLiteral \/ BeginString \/ HexProgram \/ RegexRendered
  BY <1>3 DEF SkipLiteral, BeginString, HexProgram, RegexRendered
<1>4. CASE SearchPlaintext \/ PlaintextStep
  BY <1>4 DEF SearchPlaintext, PlaintextStep
<1>5. CASE PlaintextFound \/ PlaintextNotFound \/ FinishString
  BY <1>5 DEF PlaintextFound, PlaintextNotFound, FinishString, FirstShown, NextString
<1>6. CASE EmitStrings \/ Done \/ UNCHANGED vars
  BY <1>6 DEF EmitStrings, Done, vars
<1> QED BY <1>1, <1>2, <1>3, <1>4, <1>5, <1>6 DEF Step

(* Without its fairness the loop implements the renderer's specification:  *)
(* it asks only for programs of its strings, and interferes with no turn.  *)
THEOREM RendersStepwise == Spec => RenderInit /\ [][RenderNext]_rvars
<1>1. Init => RenderInit
  BY DEF Init
<1> QED BY <1>1, InitTyped, NextTyped, NextRenders, PTL DEF Spec

(* So both hold of every rendering the loop asks for.                      *)
THEOREM RequestsAdvance == Spec => [](TurnsAdvance /\ GuardNeverCuts)
BY RendersStepwise, InitInv, NextInv, InvAdvances, InvUncut, PTL

-----------------------------------------------------------------------------
(* How many digits of a text are in each permutation, and where they are.  *)
Digits(t, i) == Determined(Len(t) \div 4 + i - 1) - Leading[i]

LEMMA TextFacts ==
    ASSUME NEW t \in Plaintext
    PROVE  /\ Len(t) \in Nat /\ DOMAIN t = 1 .. Len(t) /\ \A n \in 1 .. Len(t) : t[n] \in Pair
           /\ t = <<>> <=> Len(t) = 0
           /\ \E k \in Nat : Len(t) \in {12 * k, 12 * k + 4, 12 * k + 8}
<1>1. t \in Seq(Pair) /\ Len(t) % 4 = 0
  BY DEF Plaintext
<1>2. Len(t) \in Nat /\ DOMAIN t = 1 .. Len(t) /\ (t = <<>> <=> Len(t) = 0)
  BY <1>1
<1>3. \A n \in 1 .. Len(t) : t[n] \in Pair
  BY <1>1
<1>4. ASSUME NEW n \in Nat, n % 4 = 0
      PROVE  \E k \in Nat : n \in {12 * k, 12 * k + 4, 12 * k + 8}
  <2>1. n \div 12 \in Nat
    OBVIOUS
  <2>2. n \in {12 * (n \div 12), 12 * (n \div 12) + 4, 12 * (n \div 12) + 8}
    BY <1>4
  <2> QED BY <2>1, <2>2
<1> QED BY <1>1, <1>2, <1>3, <1>4

LEMMA AheadIs == Ahead(1) = 0 /\ Ahead(2) = 2 /\ Ahead(3) = 1
BY DEF Ahead, Leading

LEMMA DigitsAre ==
    ASSUME NEW t, NEW k \in Nat
    PROVE  /\ Len(t) = 12 * k =>
                Digits(t, 1) = 4 * k /\ Digits(t, 2) = 4 * k - 1 /\ Digits(t, 3) = 4 * k - 1
           /\ Len(t) = 12 * k + 4 =>
                Digits(t, 1) = 4 * k + 1 /\ Digits(t, 2) = 4 * k /\ Digits(t, 3) = 4 * k + 1
           /\ Len(t) = 12 * k + 8 => \A i \in 1 .. 3 : Digits(t, i) = 4 * k + 2
<1>1. \A i \in 1 .. 3 : Digits(t, i) = (4 * (Len(t) \div 4 + i - 1)) \div 3 - Leading[i]
  BY DEF Digits, Determined
<1>2. Leading[1] = 0 /\ Leading[2] = 2 /\ Leading[3] = 3
  BY DEF Leading
<1>3. (12 * k) \div 4 = 3 * k /\ (12 * k + 4) \div 4 = 3 * k + 1 /\ (12 * k + 8) \div 4 = 3 * k + 2
  OBVIOUS
<1>4. /\ (4 * (3 * k)) \div 3 = 4 * k /\ (4 * (3 * k + 1)) \div 3 = 4 * k + 1
      /\ (4 * (3 * k + 2)) \div 3 = 4 * k + 2 /\ (4 * (3 * k + 3)) \div 3 = 4 * k + 4
      /\ (4 * (3 * k + 4)) \div 3 = 4 * k + 5
  OBVIOUS
<1>5. ASSUME Len(t) = 12 * k
      PROVE  Digits(t, 1) = 4 * k /\ Digits(t, 2) = 4 * k - 1 /\ Digits(t, 3) = 4 * k - 1
  BY <1>1, <1>2, <1>3, <1>4, <1>5
<1>6. ASSUME Len(t) = 12 * k + 4
      PROVE  Digits(t, 1) = 4 * k + 1 /\ Digits(t, 2) = 4 * k /\ Digits(t, 3) = 4 * k + 1
  BY <1>1, <1>2, <1>3, <1>4, <1>6
<1>7. ASSUME Len(t) = 12 * k + 8
      PROVE  Digits(t, 1) = 4 * k + 2 /\ Digits(t, 2) = 4 * k + 2 /\ Digits(t, 3) = 4 * k + 2
  BY <1>1, <1>2, <1>3, <1>4, <1>7
<1> QED BY <1>5, <1>6, <1>7

LEMMA PermutationIs ==
    ASSUME NEW t, NEW i \in 1 .. 3
    PROVE  /\ DOMAIN Permutation(t, i) = 1 .. Digits(t, i)
           /\ Permutation(t, i) = [n \in 1 .. Digits(t, i) |-> DigitAt(t, Ahead(i) + 3 * (n - 1))]
BY DEF Permutation, Digits

(* Equal permutations have equal pairs, and the other way round.           *)
LEMMA PairsAgree ==
    ASSUME NEW t \in Plaintext, NEW u \in Plaintext, NEW i \in 1 .. 3, NEW j \in 1 .. 3,
           Permutation(t, i) = Permutation(u, j), Digits(t, i) \in Nat \ {0}, Digits(u, j) \in Int
    PROVE  /\ Digits(t, i) = Digits(u, j)
           /\ \A m \in 1 .. 3 * Digits(t, i) : t[m + Ahead(i)] = u[m + Ahead(j)]
<1>1. 1 .. Digits(t, i) = 1 .. Digits(u, j)
  BY PermutationIs
<1>2. Digits(t, i) = Digits(u, j)
  BY <1>1
<1>3. Ahead(i) \in Nat /\ Ahead(j) \in Nat
  BY AheadIs
<1>4. ASSUME NEW m \in 1 .. 3 * Digits(t, i)
      PROVE  t[m + Ahead(i)] = u[m + Ahead(j)]
  <2> DEFINE n == (m - 1) \div 3 + 1
  <2>1. n \in 1 .. Digits(t, i) /\ m - 3 * (n - 1) \in {1, 2, 3}
    OBVIOUS
  <2> HIDE DEF n
  <2>2. DigitAt(t, Ahead(i) + 3 * (n - 1)) = DigitAt(u, Ahead(j) + 3 * (n - 1))
    <3>1. Permutation(t, i)[n] = DigitAt(t, Ahead(i) + 3 * (n - 1))
      BY <2>1, PermutationIs
    <3>2. Permutation(u, j)[n] = DigitAt(u, Ahead(j) + 3 * (n - 1))
      BY <1>2, <2>1, PermutationIs
    <3> QED BY <3>1, <3>2
  <2>3. \A k \in {1, 2, 3} : t[Ahead(i) + 3 * (n - 1) + k] = u[Ahead(j) + 3 * (n - 1) + k]
    BY <2>2 DEF DigitAt
  <2>4. /\ m + Ahead(i) = Ahead(i) + 3 * (n - 1) + (m - 3 * (n - 1))
        /\ m + Ahead(j) = Ahead(j) + 3 * (n - 1) + (m - 3 * (n - 1))
    BY <1>3, <2>1
  <2> QED BY <2>1, <2>3, <2>4
<1> QED BY <1>2, <1>4

LEMMA PermutationsAgree ==
    ASSUME NEW t, NEW i \in 1 .. 3, NEW j \in 1 .. 3, Digits(t, i) \in Nat,
           Digits(t, i) = Digits(t, j),
           \A m \in 1 .. 3 * Digits(t, i) : t[m + Ahead(i)] = t[m + Ahead(j)]
    PROVE  Permutation(t, i) = Permutation(t, j)
<1>1. ASSUME NEW n \in 1 .. Digits(t, i)
      PROVE  DigitAt(t, Ahead(i) + 3 * (n - 1)) = DigitAt(t, Ahead(j) + 3 * (n - 1))
  <2>1. Ahead(i) \in Nat /\ Ahead(j) \in Nat
    BY AheadIs
  <2>2. \A k \in {1, 2, 3} : t[Ahead(i) + 3 * (n - 1) + k] = t[Ahead(j) + 3 * (n - 1) + k]
    <3> SUFFICES ASSUME NEW k \in {1, 2, 3}
                 PROVE  t[Ahead(i) + 3 * (n - 1) + k] = t[Ahead(j) + 3 * (n - 1) + k]
      OBVIOUS
    <3>1. 3 * (n - 1) + k \in 1 .. 3 * Digits(t, i)
      OBVIOUS
    <3>2. /\ Ahead(i) + 3 * (n - 1) + k = 3 * (n - 1) + k + Ahead(i)
          /\ Ahead(j) + 3 * (n - 1) + k = 3 * (n - 1) + k + Ahead(j)
      BY <2>1
    <3> QED BY <3>1, <3>2
  <2> QED BY <2>2 DEF DigitAt
<1> QED BY <1>1, PermutationIs

LEMMA SameText ==
    ASSUME NEW t \in Plaintext, NEW u \in Plaintext, Len(t) = Len(u),
           \A n \in 1 .. Len(t) : t[n] = u[n]
    PROVE  t = u
BY DEF Plaintext

-----------------------------------------------------------------------------
(* A text whose permutations are all among those of another.               *)
Among(t, u) == Expanded(t) \ {<<>>} \subseteq Expanded(u)

LEMMA Matched ==
    ASSUME NEW t \in Plaintext, NEW u \in Plaintext, Among(t, u),
           NEW i \in 1 .. 3, Digits(t, i) \in Nat \ {0}
    PROVE  \E j \in 1 .. 3 :
              /\ Permutation(t, i) = Permutation(u, j) /\ Digits(t, i) = Digits(u, j)
              /\ \A m \in 1 .. 3 * Digits(t, i) : t[m + Ahead(i)] = u[m + Ahead(j)]
<1>1. DOMAIN Permutation(t, i) # {}
  BY PermutationIs
<1>2. Permutation(t, i) # <<>>
  BY <1>1
<1>3. PICK j \in 1 .. 3 : Permutation(t, i) = Permutation(u, j)
  BY <1>2 DEF Among, Expanded
<1>4. Digits(u, j) \in Int
  <2>1. PICK l \in Nat : Len(u) \in {12 * l, 12 * l + 4, 12 * l + 8}
    BY TextFacts
  <2>2. Digits(u, 1) \in Int /\ Digits(u, 2) \in Int /\ Digits(u, 3) \in Int
    <3>1. CASE Len(u) = 12 * l
      BY <3>1, DigitsAre
    <3>2. CASE Len(u) = 12 * l + 4
      <4>1. Digits(u, 1) = 4 * l + 1 /\ Digits(u, 2) = 4 * l /\ Digits(u, 3) = 4 * l + 1
        BY <3>2, DigitsAre
      <4> QED BY <4>1
    <3>3. CASE Len(u) = 12 * l + 8
      <4>1. 1 \in 1 .. 3 /\ 2 \in 1 .. 3 /\ 3 \in 1 .. 3
        OBVIOUS
      <4>2. \A h \in 1 .. 3 : Digits(u, h) = 4 * l + 2
        BY <3>3, DigitsAre
      <4> QED BY <4>1, <4>2
    <3> QED BY <2>1, <3>1, <3>2, <3>3
  <2> QED BY <2>2
<1> QED BY <1>3, <1>4, PairsAgree

LEMMA SameLength ==
    ASSUME NEW t \in Plaintext, NEW u \in Plaintext, t # <<>>, Among(t, u)
    PROVE  Len(u) = Len(t)
<1>1. PICK k \in Nat : Len(t) \in {12 * k, 12 * k + 4, 12 * k + 8}
  BY TextFacts
<1>2. PICK l \in Nat : Len(u) \in {12 * l, 12 * l + 4, 12 * l + 8}
  BY TextFacts
<1> DEFINE i == IF Len(t) = 12 * k THEN 2 ELSE 1
<1>3. /\ Len(t) = 12 * k => Digits(t, i) = 4 * k - 1 /\ k # 0
      /\ Len(t) = 12 * k + 4 => Digits(t, i) = 4 * k + 1
      /\ Len(t) = 12 * k + 8 => Digits(t, i) = 4 * k + 2
  BY DigitsAre, TextFacts
<1> HIDE DEF i
<1>4. i \in 1 .. 3
  BY DEF i
<1>5. Digits(t, i) \in Nat \ {0}
  BY <1>1, <1>3
<1>6. PICK j \in 1 .. 3 : Digits(t, i) = Digits(u, j)
  BY <1>4, <1>5, Matched
<1>7. /\ Len(u) = 12 * l => Digits(u, j) \in {4 * l, 4 * l - 1}
      /\ Len(u) = 12 * l + 4 => Digits(u, j) \in {4 * l + 1, 4 * l}
      /\ Len(u) = 12 * l + 8 => Digits(u, j) = 4 * l + 2
  BY DigitsAre
<1>8. CASE Len(t) = 12 * k
  BY <1>2, <1>3, <1>6, <1>7, <1>8
<1>9. CASE Len(t) = 12 * k + 4
  BY <1>2, <1>3, <1>6, <1>7, <1>9
<1>10. CASE Len(t) = 12 * k + 8
  BY <1>2, <1>3, <1>6, <1>7, <1>10
<1> QED BY <1>1, <1>8, <1>9, <1>10

(* Whole groups: only the first permutation is as long as itself.          *)
LEMMA FixedByGroups ==
    ASSUME NEW t \in Plaintext, NEW u \in Plaintext, t # <<>>, Among(t, u),
           NEW k \in Nat, Len(t) = 12 * k
    PROVE  t = u
<1>1. k # 0 /\ Len(u) = 12 * k
  BY SameLength, TextFacts
<1>2. Digits(t, 1) = 4 * k /\ Digits(u, 1) = 4 * k /\ Digits(u, 2) = 4 * k - 1 /\ Digits(u, 3) = 4 * k - 1
  BY <1>1, DigitsAre
<1>3. PICK j \in 1 .. 3 :
         /\ Digits(t, 1) = Digits(u, j)
         /\ \A m \in 1 .. 3 * Digits(t, 1) : t[m + Ahead(1)] = u[m + Ahead(j)]
  BY <1>1, <1>2, Matched
<1>4. j = 1
  BY <1>2, <1>3
<1>5. \A m \in 1 .. 12 * k : t[m] = u[m]
  <2>1. \A m \in 1 .. 12 * k : m \in 1 .. 3 * Digits(t, 1) /\ m + Ahead(1) = m
    BY <1>2, AheadIs
  <2> QED BY <1>3, <1>4, <2>1
<1> QED BY <1>1, <1>5, SameText

(* A byte over: the first and the third permutation overlap and cover the  *)
(* text; exchanged, they and the second make all pairs the same.           *)
LEMMA FixedByOneOver ==
    ASSUME NEW t \in Plaintext, NEW u \in Plaintext, t # <<>>, Among(t, u),
           NEW k \in Nat, Len(t) = 12 * k + 4, Distinct(t), k = 0 => ~ Steady(t, 2)
    PROVE  t = u
<1> DEFINE M == 12 * k + 3
<1>1. Len(u) = 12 * k + 4
  BY SameLength
<1>2. /\ Digits(t, 1) = 4 * k + 1 /\ Digits(t, 2) = 4 * k /\ Digits(t, 3) = 4 * k + 1
      /\ Digits(u, 1) = 4 * k + 1 /\ Digits(u, 2) = 4 * k /\ Digits(u, 3) = 4 * k + 1
  BY <1>1, DigitsAre
<1>3. PICK a \in 1 .. 3 :
         /\ Permutation(t, 1) = Permutation(u, a) /\ Digits(t, 1) = Digits(u, a)
         /\ \A m \in 1 .. 3 * Digits(t, 1) : t[m + Ahead(1)] = u[m + Ahead(a)]
  BY <1>2, Matched
<1>4. PICK b \in 1 .. 3 :
         /\ Permutation(t, 3) = Permutation(u, b) /\ Digits(t, 3) = Digits(u, b)
         /\ \A m \in 1 .. 3 * Digits(t, 3) : t[m + Ahead(3)] = u[m + Ahead(b)]
  BY <1>2, Matched
<1>5. a \in {1, 3} /\ b \in {1, 3}
  BY <1>2, <1>3, <1>4
<1>6. a # b
  BY <1>3, <1>4 DEF Distinct
<1>7. /\ \A m \in 1 .. M : t[m] = u[m + Ahead(a)]
      /\ \A m \in 1 .. M : t[m + 1] = u[m + Ahead(b)]
  <2>1. \A m \in 1 .. M : m \in 1 .. 3 * Digits(t, 1) /\ m \in 1 .. 3 * Digits(t, 3)
                          /\ m + Ahead(1) = m /\ m + Ahead(3) = m + 1
    BY <1>2, AheadIs
  <2> QED BY <1>3, <1>4, <2>1
<1>8. CASE a = 1 /\ b = 3
  <2>1. \A m \in 1 .. M : t[m] = u[m] /\ t[m + 1] = u[m + 1]
    <3>1. \A m \in 1 .. M : m + Ahead(a) = m /\ m + Ahead(b) = m + 1
      BY <1>8, AheadIs
    <3> QED BY <1>7, <3>1
  <2>2. \A n \in 1 .. 12 * k + 4 : t[n] = u[n]
    <3>1. t[M] = u[M] /\ t[M + 1] = u[M + 1]
      BY <2>1
    <3>2. \A n \in 1 .. 12 * k + 4 : n \in 1 .. M \/ n = M + 1
      OBVIOUS
    <3> QED BY <2>1, <3>1, <3>2
  <2> QED BY <1>1, <2>2, SameText
<1>9. CASE a = 3 /\ b = 1
  <2>1. \A m \in 1 .. M : t[m] = u[m + 1] /\ t[m + 1] = u[m]
    <3>1. \A m \in 1 .. M : m + Ahead(a) = m + 1 /\ m + Ahead(b) = m
      BY <1>9, AheadIs
    <3> QED BY <1>7, <3>1
  <2>2. CASE k = 0
    <3>1. \A n \in 1 .. Len(t) - 2 : t[n] = t[n + 2]
      <4>1. Len(t) - 2 = 2 /\ M = 3
        BY <2>2
      <4>2. t[1] = u[2] /\ t[2] = u[3] /\ t[3] = u[2] /\ t[4] = u[3]
        BY <2>1, <2>2
      <4> QED BY <4>1, <4>2
    <3> QED BY <2>2, <3>1 DEF Steady
  <2>3. CASE k # 0
    <3>1. PICK c \in 1 .. 3 :
             /\ Digits(t, 2) = Digits(u, c)
             /\ \A m \in 1 .. 3 * Digits(t, 2) : t[m + Ahead(2)] = u[m + Ahead(c)]
      BY <1>2, <2>3, Matched
    <3>2. c = 2
      BY <1>2, <3>1
    <3>3. \A m \in 1 .. M - 3 : t[m + 2] = u[m + 2]
      <4>1. \A m \in 1 .. M - 3 : m \in 1 .. 3 * Digits(t, 2) /\ m + Ahead(2) = m + 2
        BY <1>2, AheadIs
      <4> QED BY <3>1, <3>2, <4>1
    <3>4. \A m \in 3 .. M - 1 : t[m] = u[m]
      <4> SUFFICES ASSUME NEW m \in 3 .. M - 1 PROVE t[m] = u[m]
        OBVIOUS
      <4>1. m - 2 \in 1 .. M - 3 /\ (m - 2) + 2 = m
        OBVIOUS
      <4> QED BY <3>3, <4>1
    <3>5. \A m \in 1 .. M : t[m] = t[m + 1]
      <4> SUFFICES ASSUME NEW m \in 1 .. M PROVE t[m] = t[m + 1]
        OBVIOUS
      <4>1. CASE m \in 2 .. M - 2
        BY <2>1, <3>4, <4>1
      <4>2. CASE m = 1
        <5>1. t[1] = u[2] /\ t[3] = u[2] /\ t[2] = u[3] /\ t[3] = u[3]
          BY <2>1, <2>3, <3>4
        <5> QED BY <4>2, <5>1
      <4>3. CASE m = M - 1
        <5>1. t[M] = u[M - 1] /\ t[M - 1] = u[M - 1]
          <6>1. M - 1 \in 1 .. M /\ (M - 1) + 1 = M /\ M - 1 \in 3 .. M - 1
            BY <2>3
          <6> QED BY <2>1, <3>4, <6>1
        <5> QED BY <4>3, <5>1
      <4>4. CASE m = M
        <5>1. /\ M - 1 \in 1 .. M /\ (M - 1) + 1 = M /\ M - 1 \in 3 .. M - 1
          BY <2>3
        <5>2. t[M - 1] = u[M] /\ t[M] = u[M - 1] /\ t[M + 1] = u[M] /\ t[M - 1] = u[M - 1]
          BY <2>1, <3>4, <5>1
        <5> QED BY <4>4, <5>2
      <4> QED BY <4>1, <4>2, <4>3, <4>4
    <3>6. Permutation(t, 1) = Permutation(t, 3)
      <4>1. \A m \in 1 .. 3 * Digits(t, 1) : t[m + Ahead(1)] = t[m + Ahead(3)]
        <5>1. 3 * Digits(t, 1) = M /\ \A m \in 1 .. M : m + Ahead(1) = m /\ m + Ahead(3) = m + 1
          BY <1>2, AheadIs
        <5> QED BY <3>5, <5>1
      <4>2. Digits(t, 1) \in Nat /\ Digits(t, 1) = Digits(t, 3)
        BY <1>2
      <4> HIDE DEF M
      <4> QED BY <4>1, <4>2, PermutationsAgree
    <3> QED BY <3>6 DEF Distinct
  <2> QED BY <2>2, <2>3
<1> QED BY <1>5, <1>6, <1>8, <1>9

(* Two bytes over: each permutation covers all but two pairs.  Were two of *)
(* them exchanged, two would be one; were all three, all digits would be.  *)
LEMMA FixedByTwoOver ==
    ASSUME NEW t \in Plaintext, NEW u \in Plaintext, t # <<>>, Among(t, u),
           NEW k \in Nat, Len(t) = 12 * k + 8, Distinct(t), ~ Steady(t, 3)
    PROVE  t = u
<1> DEFINE M == 12 * k + 6
<1>1. Len(u) = 12 * k + 8
  BY SameLength
<1>2. \A i \in 1 .. 3 : Digits(t, i) = 4 * k + 2 /\ Digits(u, i) = 4 * k + 2 /\ 3 * Digits(t, i) = M
  <2>1. \A i \in 1 .. 3 : Digits(t, i) = 4 * k + 2 /\ Digits(u, i) = 4 * k + 2
    BY <1>1, DigitsAre
  <2> QED BY <2>1
<1>3. \A i \in 1 .. 3 : \E j \in 1 .. 3 :
         /\ Permutation(t, i) = Permutation(u, j)
         /\ \A m \in 1 .. M : t[m + Ahead(i)] = u[m + Ahead(j)]
  <2> SUFFICES ASSUME NEW i \in 1 .. 3
               PROVE  \E j \in 1 .. 3 :
                         /\ Permutation(t, i) = Permutation(u, j)
                         /\ \A m \in 1 .. M : t[m + Ahead(i)] = u[m + Ahead(j)]
    OBVIOUS
  <2>1. Digits(t, i) \in Nat \ {0} /\ 3 * Digits(t, i) = M
    BY <1>2
  <2> HIDE DEF M
  <2> QED BY <2>1, Matched
<1>4. PICK a \in 1 .. 3 : /\ Permutation(t, 1) = Permutation(u, a)
                          /\ \A m \in 1 .. M : t[m + Ahead(1)] = u[m + Ahead(a)]
  BY <1>3
<1>5. PICK b \in 1 .. 3 : /\ Permutation(t, 3) = Permutation(u, b)
                          /\ \A m \in 1 .. M : t[m + Ahead(3)] = u[m + Ahead(b)]
  BY <1>3
<1>6. PICK c \in 1 .. 3 : /\ Permutation(t, 2) = Permutation(u, c)
                          /\ \A m \in 1 .. M : t[m + Ahead(2)] = u[m + Ahead(c)]
  BY <1>3
<1>7. a # b /\ b # c /\ a # c
  BY <1>4, <1>5, <1>6 DEF Distinct
<1> DEFINE A == Ahead(a)
           B == Ahead(b)
           C == Ahead(c)
<1>8. \A m \in 1 .. M : t[m] = u[m + A] /\ t[m + 1] = u[m + B] /\ t[m + 2] = u[m + C]
  <2>1. \A m \in 1 .. M : m + Ahead(1) = m /\ m + Ahead(3) = m + 1 /\ m + Ahead(2) = m + 2
    BY AheadIs
  <2> QED BY <1>4, <1>5, <1>6, <2>1
<1>9. /\ A \in 0 .. 2 /\ B \in 0 .. 2 /\ C \in 0 .. 2
      /\ A # B /\ B # C /\ A # C
  BY <1>7, AheadIs
<1> HIDE DEF A, B, C
<1>10. \A m \in 1 .. M : m \in Nat /\ m + 0 = m
  OBVIOUS
<1>11. CASE A = 0 /\ B = 1 /\ C = 2
  <2>1. \A m \in 1 .. M : t[m] = u[m] /\ t[m + 1] = u[m + 1] /\ t[m + 2] = u[m + 2]
    BY <1>8, <1>10, <1>11
  <2>2. \A n \in 1 .. 12 * k + 8 : t[n] = u[n]
    <3> SUFFICES ASSUME NEW n \in 1 .. 12 * k + 8 PROVE t[n] = u[n]
      OBVIOUS
    <3>1. CASE n \in 1 .. M
      BY <2>1, <3>1
    <3>2. CASE n \notin 1 .. M
      <4>1. n - 2 \in 1 .. M /\ (n - 2) + 2 = n
        BY <3>2
      <4> QED BY <2>1, <4>1
    <3> QED BY <3>1, <3>2
  <2> QED BY <1>1, <2>2, SameText
<1>12. CASE A = 1 /\ B = 0 /\ C = 2
  <2>1. \A m \in 1 .. M : t[m] = u[m + 1] /\ t[m + 1] = u[m] /\ t[m + 2] = u[m + 2]
    BY <1>8, <1>10, <1>12
  <2>2. ASSUME NEW m \in 1 .. M PROVE t[m] = t[m + 1]
    <3>1. CASE m = 1
      <4>1. t[1] = u[2] /\ t[3] = u[2] /\ t[2] = u[3] /\ t[3] = u[3]
        BY <2>1
      <4> QED BY <3>1, <4>1
    <3>2. CASE m # 1
      <4>1. m - 1 \in 1 .. M /\ (m - 1) + 2 = m + 1
        BY <3>2
      <4>2. t[m + 1] = u[m + 1] /\ t[m] = u[m + 1]
        BY <2>1, <4>1
      <4> QED BY <4>2
    <3> QED BY <3>1, <3>2
  <2>3. \A m \in 1 .. M : t[m + Ahead(1)] = t[m + Ahead(3)]
    BY <1>10, <2>2, AheadIs
  <2>4. Permutation(t, 1) = Permutation(t, 3)
    <3>1. Digits(t, 1) \in Nat /\ Digits(t, 1) = Digits(t, 3) /\ 3 * Digits(t, 1) = M
      BY <1>2
    <3> HIDE DEF M
    <3> QED BY <2>3, <3>1, PermutationsAgree
  <2> QED BY <2>4 DEF Distinct
<1>13. CASE A = 0 /\ B = 2 /\ C = 1
  <2>1. \A m \in 1 .. M : t[m] = u[m] /\ t[m + 1] = u[m + 2] /\ t[m + 2] = u[m + 1]
    BY <1>8, <1>10, <1>13
  <2>2. ASSUME NEW m \in 1 .. M PROVE t[m + 1] = t[m + 2]
    <3>1. CASE m + 2 \in 1 .. M
      BY <2>1, <3>1
    <3>2. CASE m + 2 \notin 1 .. M
      <4>1. m \in {M - 1, M} /\ M - 1 \in 1 .. M /\ M \in 1 .. M
        BY <3>2
      <4>2. (M - 1) + 1 = M /\ (M - 1) + 2 = M + 1
        OBVIOUS
      <4>3. /\ t[M] = u[M + 1] /\ t[M + 1] = u[M] /\ t[M] = u[M]
            /\ t[M + 1] = u[M + 2] /\ t[M + 2] = u[M + 1]
        BY <2>1, <4>1, <4>2
      <4>4. t[M] = t[M + 1] /\ t[M + 1] = t[M + 2]
        BY <4>3
      <4> QED BY <4>1, <4>2, <4>4
    <3> QED BY <3>1, <3>2
  <2>3. \A m \in 1 .. M : t[m + Ahead(3)] = t[m + Ahead(2)]
    BY <2>2, AheadIs
  <2>4. Permutation(t, 3) = Permutation(t, 2)
    <3>1. Digits(t, 3) \in Nat /\ Digits(t, 3) = Digits(t, 2) /\ 3 * Digits(t, 3) = M
      BY <1>2
    <3> HIDE DEF M
    <3> QED BY <2>3, <3>1, PermutationsAgree
  <2> QED BY <2>4 DEF Distinct
<1>14. CASE A = 2 /\ B = 1 /\ C = 0
  <2>1. \A m \in 1 .. M : t[m] = u[m + 2] /\ t[m + 1] = u[m + 1] /\ t[m + 2] = u[m]
    BY <1>8, <1>10, <1>14
  <2>2. ASSUME NEW m \in 1 .. M PROVE t[m] = t[m + 2]
    <3>1. CASE m # M
      <4>1. m + 1 \in 1 .. M /\ (m + 1) + 1 = m + 2
        BY <3>1
      <4>2. t[m + 2] = u[m + 2] /\ t[m] = u[m + 2]
        BY <2>1, <4>1
      <4> QED BY <4>2
    <3>2. CASE m = M
      <4>1. M - 1 \in 1 .. M /\ (M - 1) + 1 = M
        OBVIOUS
      <4>2. t[M] = u[M] /\ t[M + 2] = u[M]
        BY <2>1, <3>2, <4>1
      <4> QED BY <3>2, <4>2
    <3> QED BY <3>1, <3>2
  <2>3. \A m \in 1 .. M : t[m + Ahead(1)] = t[m + Ahead(2)]
    BY <1>10, <2>2, AheadIs
  <2>4. Permutation(t, 1) = Permutation(t, 2)
    <3>1. Digits(t, 1) \in Nat /\ Digits(t, 1) = Digits(t, 2) /\ 3 * Digits(t, 1) = M
      BY <1>2
    <3> HIDE DEF M
    <3> QED BY <2>3, <3>1, PermutationsAgree
  <2> QED BY <2>4 DEF Distinct
<1>15. CASE \/ A = 1 /\ B = 2 /\ C = 0
            \/ A = 2 /\ B = 0 /\ C = 1
  <2>1. ASSUME NEW n \in 1 .. Len(t) - 3 PROVE t[n] = t[n + 3]
    <3>1. n \in 1 .. M /\ n + 1 \in 1 .. M /\ (n + 1) + 1 = n + 2 /\ (n + 1) + 2 = n + 3
      OBVIOUS
    <3>2. CASE A = 1 /\ B = 2 /\ C = 0
      <4>1. t[n + 3] = u[n + 1] /\ t[n] = u[n + 1]
        BY <1>8, <3>1, <3>2
      <4> QED BY <4>1
    <3>3. CASE A = 2 /\ B = 0 /\ C = 1
      <4>1. t[n + 3] = u[n + 2] /\ t[n] = u[n + 2]
        BY <1>8, <3>1, <3>3
      <4> QED BY <4>1
    <3> QED BY <1>15, <3>2, <3>3
  <2> QED BY <2>1 DEF Steady
<1> QED BY <1>9, <1>11, <1>12, <1>13, <1>14, <1>15

(* An unambiguous text is the only one that has all its permutations.      *)
LEMMA Fixed ==
    ASSUME NEW t \in Plaintext, NEW u \in Plaintext, t # <<>>, Among(t, u), Unambiguous(t)
    PROVE  t = u
<1>1. PICK k \in Nat : Len(t) \in {12 * k, 12 * k + 4, 12 * k + 8}
  BY TextFacts
<1>2. CASE Len(t) = 12 * k
  BY <1>2, FixedByGroups
<1>3. CASE Len(t) = 12 * k + 4
  <2>1. Len(t) % 12 = 4 /\ (k = 0 => Len(t) = 4)
    BY <1>3
  <2> QED BY <1>3, <2>1, FixedByOneOver DEF Unambiguous
<1>4. CASE Len(t) = 12 * k + 8
  <2>1. Len(t) % 12 = 8
    BY <1>4
  <2> QED BY <1>4, <2>1, FixedByTwoOver DEF Unambiguous
<1> QED BY <1>1, <1>2, <1>3, <1>4

-----------------------------------------------------------------------------
(* The search.  Only texts are tried.                                      *)
Searching ==
    /\ seed \in Plaintext /\ seeds \subseteq Plaintext /\ found \in Plaintext
    /\ tail \in 0 .. MaxTail + 1

LEMMA TextOf ==
    ASSUME NEW n \in Nat, n % 4 = 0, NEW t \in [1 .. n -> Pair]
    PROVE  t \in Plaintext /\ Len(t) = n
BY DEF Plaintext

LEMMA EmptyText == <<>> \in Plaintext
BY DEF Plaintext

LEMMA DecodedIs ==
    ASSUME NEW d \in Seq(Digit)
    PROVE  /\ DecodePrefix(d) \in Plaintext /\ Len(DecodePrefix(d)) = 12 * (Len(d) \div 4)
           /\ \A n \in 1 .. 12 * (Len(d) \div 4) :
                DecodePrefix(d)[n] = d[(n - 1) \div 3 + 1][((n - 1) % 3) + 1]
<1> DEFINE N == 12 * (Len(d) \div 4)
<1>1. Len(d) \in Nat /\ N \in Nat /\ N <= 3 * Len(d) /\ N % 4 = 0
  OBVIOUS
<1>2. ASSUME NEW n \in 1 .. N
      PROVE  d[(n - 1) \div 3 + 1][((n - 1) % 3) + 1] \in Pair
  <2>1. (n - 1) \div 3 + 1 \in 1 .. Len(d) /\ ((n - 1) % 3) + 1 \in 1 .. 3
    BY <1>1
  <2>2. \A m \in 1 .. Len(d) : d[m] \in Digit
    OBVIOUS
  <2>3. \A x \in Digit : \A k \in 1 .. 3 : x[k] \in Pair
    BY DEF Digit
  <2> QED BY <2>1, <2>2, <2>3
<1>3. DecodePrefix(d) = [n \in 1 .. N |-> d[(n - 1) \div 3 + 1][((n - 1) % 3) + 1]]
  BY DEF DecodePrefix
<1> HIDE DEF N
<1>4. DecodePrefix(d) \in [1 .. N -> Pair]
  BY <1>2, <1>3
<1>5. DecodePrefix(d) \in Plaintext /\ Len(DecodePrefix(d)) = N
  BY <1>1, <1>4, TextOf
<1> QED BY <1>3, <1>5 DEF N

LEMMA TailJoined ==
    ASSUME NEW a \in Plaintext, NEW n \in Nat, NEW b \in [1 .. 4 * n -> Pair]
    PROVE  /\ a \o b \in Plaintext /\ Len(a \o b) = Len(a) + 4 * n
           /\ \A k \in 1 .. Len(a) + 4 * n : (a \o b)[k] = IF k <= Len(a) THEN a[k] ELSE b[k - Len(a)]
<1>1. a \in Seq(Pair) /\ Len(a) \in Nat /\ Len(a) % 4 = 0
  BY DEF Plaintext
<1>2. b \in Seq(Pair) /\ Len(b) = 4 * n
  OBVIOUS
<1>3. a \o b \in Seq(Pair) /\ Len(a \o b) = Len(a) + 4 * n
  BY <1>1, <1>2
<1>4. (Len(a) + 4 * n) % 4 = 0
  BY <1>1
<1>5. \A k \in 1 .. Len(a) + 4 * n : (a \o b)[k] = IF k <= Len(a) THEN a[k] ELSE b[k - Len(a)]
  BY <1>1, <1>2
<1> QED BY <1>3, <1>4, <1>5 DEF Plaintext

LEMMA InitSearching == SearchInit => Searching /\ ~ searching
BY EmptyText DEF SearchInit, Searching, MaxTail

LEMMA RecoverSearching ==
    ASSUME NEW perms, Recover(perms)
    PROVE  Searching'
<1>1. seeds' \subseteq Plaintext
  BY DecodedIs DEF Recover
<1> QED BY <1>1, EmptyText DEF Recover, Searching, MaxTail

LEMMA StepSearching ==
    ASSUME Searching, SearchStep
    PROVE  Searching'
<1>1. CASE NextSeed
  BY <1>1 DEF NextSeed, Searching, MaxTail
<1>2. CASE TryTails
  <2>1. tail \in 0 .. 2
    BY <1>2 DEF TryTails, Searching, MaxTail
  <2>2. \A t \in Tails : seed \o t \in Plaintext
    BY <2>1, TailJoined DEF Tails, Searching
  <2>3. (tail' = tail \/ tail' = tail + 1) /\ UNCHANGED <<seeds, seed>>
    BY <1>2 DEF TryTails
  <2>4. tail' \in 0 .. MaxTail + 1
    BY <2>1, <2>3 DEF MaxTail
  <2>5. found' = found \/ \E t \in Tails : found' = seed \o t
    BY <1>2 DEF TryTails
  <2>6. found' \in Plaintext
    BY <2>2, <2>5 DEF Searching
  <2> QED BY <2>3, <2>4, <2>6 DEF Searching
<1>3. CASE NotRecovered
  BY <1>3 DEF NotRecovered, Searching
<1> QED BY <1>1, <1>2, <1>3 DEF SearchStep

(* Of the permutations of a text the first gives its first groups, and the *)
(* rest of it is one of the tails.                                         *)
First(t) == DecodePrefix(Permutation(t, 1))

LEMMA PermutationTyped ==
    ASSUME NEW t \in Plaintext, NEW i \in 1 .. 3
    PROVE  Permutation(t, i) \in Seq(Digit)
<1>1. PICK k \in Nat : Len(t) \in {12 * k, 12 * k + 4, 12 * k + 8}
  BY TextFacts
<1>2. /\ Digits(t, i) \in Int /\ Ahead(i) \in Nat
      /\ Digits(t, i) >= 0 => 3 * Digits(t, i) + Ahead(i) <= Len(t)
  <2>1. CASE Len(t) = 12 * k
    <3>1. Digits(t, 1) = 4 * k /\ Digits(t, 2) = 4 * k - 1 /\ Digits(t, 3) = 4 * k - 1
      BY <2>1, DigitsAre
    <3> QED BY <2>1, <3>1, AheadIs
  <2>2. CASE Len(t) = 12 * k + 4
    <3>1. Digits(t, 1) = 4 * k + 1 /\ Digits(t, 2) = 4 * k /\ Digits(t, 3) = 4 * k + 1
      BY <2>2, DigitsAre
    <3> QED BY <2>2, <3>1, AheadIs
  <2>3. CASE Len(t) = 12 * k + 8
    <3>1. Digits(t, i) = 4 * k + 2
      BY <2>3, DigitsAre
    <3> QED BY <2>3, <3>1, AheadIs
  <2> QED BY <1>1, <2>1, <2>2, <2>3
<1>3. ASSUME NEW n \in 1 .. Digits(t, i)
      PROVE  DigitAt(t, Ahead(i) + 3 * (n - 1)) \in Digit
  <2>1. \A k_ \in {1, 2, 3} : Ahead(i) + 3 * (n - 1) + k_ \in 1 .. Len(t)
    BY <1>2, TextFacts
  <2>2. \A k_ \in {1, 2, 3} : t[Ahead(i) + 3 * (n - 1) + k_] \in Pair
    BY <2>1, TextFacts
  <2> QED BY <2>2 DEF DigitAt, Digit
<1>4. Permutation(t, i) = [n \in 1 .. Digits(t, i) |-> DigitAt(t, Ahead(i) + 3 * (n - 1))]
  BY PermutationIs
<1> DEFINE N == IF Digits(t, i) >= 0 THEN Digits(t, i) ELSE 0
<1>5. N \in Nat /\ 1 .. Digits(t, i) = 1 .. N
  BY <1>2
<1>6. Permutation(t, i) \in [1 .. N -> Digit]
  BY <1>3, <1>4, <1>5
<1> HIDE DEF N
<1> QED BY <1>5, <1>6

LEMMA FirstIs ==
    ASSUME NEW t \in Plaintext, t # <<>>
    PROVE  /\ Permutation(t, 1) \in (Expanded(t) \ {<<>>}) \cap Seq(Digit)
           /\ \E r \in 0 .. MaxTail : \E v \in [1 .. 4 * r -> Pair] : t = First(t) \o v
<1>1. PICK k \in Nat, r \in 0 .. 2 : Len(t) = 12 * k + 4 * r
  <2>1. PICK k \in Nat : Len(t) \in {12 * k, 12 * k + 4, 12 * k + 8}
    BY TextFacts
  <2>2. Len(t) = 12 * k + 4 * 0 \/ Len(t) = 12 * k + 4 * 1 \/ Len(t) = 12 * k + 4 * 2
    BY <2>1
  <2> QED BY <2>2
<1>2. Digits(t, 1) = 4 * k + r
  <2>1. CASE r = 0
    BY <1>1, <2>1, DigitsAre
  <2>2. CASE r = 1
    <3>1. Len(t) = 12 * k + 4
      BY <1>1, <2>2
    <3> QED BY <2>2, <3>1, DigitsAre
  <2>3. CASE r = 2
    <3>1. Len(t) = 12 * k + 8 /\ 1 \in 1 .. 3
      BY <1>1, <2>3
    <3> QED BY <2>3, <3>1, DigitsAre
  <2> QED BY <2>1, <2>2, <2>3
<1> DEFINE d == Permutation(t, 1)
<1>3. d \in Seq(Digit) /\ DOMAIN d = 1 .. 4 * k + r
  BY <1>2, PermutationIs, PermutationTyped
<1>4. Len(d) = 4 * k + r
  BY <1>3
<1>5. d # <<>> /\ d \in Expanded(t)
  <2>1. 4 * k + r # 0
    BY <1>1, TextFacts
  <2> QED BY <1>4, <2>1 DEF Expanded
<1>6. Len(d) \div 4 = k
  BY <1>4
<1>7. First(t) \in Plaintext /\ Len(First(t)) = 12 * k
  BY <1>3, <1>6, DecodedIs DEF First
<1>8. ASSUME NEW n \in 1 .. 12 * k
      PROVE  First(t)[n] = t[n]
  <2> DEFINE m == (n - 1) \div 3 + 1
             h == ((n - 1) % 3) + 1
  <2>1. m \in 1 .. 4 * k + r /\ h \in {1, 2, 3} /\ n = 3 * (m - 1) + h
    OBVIOUS
  <2>2. First(t)[n] = d[m][h]
    BY <1>3, <1>6, DecodedIs DEF First
  <2> HIDE DEF m, h
  <2>3. d[m] = DigitAt(t, Ahead(1) + 3 * (m - 1))
    BY <1>2, <2>1, PermutationIs
  <2>4. Ahead(1) + 3 * (m - 1) = 3 * (m - 1)
    BY <2>1, AheadIs
  <2>5. d[m] = <<t[3 * (m - 1) + 1], t[3 * (m - 1) + 2], t[3 * (m - 1) + 3]>>
    BY <2>3, <2>4 DEF DigitAt
  <2> HIDE DEF d
  <2> QED BY <2>1, <2>2, <2>5
<1> DEFINE v == [n \in 1 .. 4 * r |-> t[12 * k + n]]
<1>9. v \in [1 .. 4 * r -> Pair]
  <2>1. \A n \in 1 .. 4 * r : 12 * k + n \in 1 .. Len(t)
    BY <1>1
  <2> QED BY <2>1, TextFacts
<1>10. t = First(t) \o v
  <2> DEFINE u == First(t) \o v
  <2>1. /\ u \in Plaintext /\ Len(u) = 12 * k + 4 * r
        /\ \A n \in 1 .. 12 * k + 4 * r : u[n] = IF n <= 12 * k THEN First(t)[n] ELSE v[n - 12 * k]
    <3> HIDE DEF v
    <3> QED BY <1>7, <1>9, TailJoined
  <2>2. \A n \in 1 .. Len(t) : t[n] = u[n]
    <3> SUFFICES ASSUME NEW n \in 1 .. 12 * k + 4 * r PROVE t[n] = u[n]
      BY <1>1
    <3>1. CASE n <= 12 * k
      BY <1>8, <2>1, <3>1
    <3>2. CASE n > 12 * k
      <4>1. n - 12 * k \in 1 .. 4 * r /\ 12 * k + (n - 12 * k) = n
        BY <3>2
      <4>2. v[n - 12 * k] = t[n]
        BY <4>1
      <4> HIDE DEF u, v
      <4> QED BY <2>1, <3>2, <4>2
    <3>3. n <= 12 * k \/ n > 12 * k
      OBVIOUS
    <3> QED BY <3>1, <3>2, <3>3
  <2>3. t = u
    <3> HIDE DEF u
    <3> QED BY <1>1, <2>1, <2>2, SameText
  <2> QED BY <2>3
<1>11. r \in 0 .. MaxTail
  BY DEF MaxTail
<1> HIDE DEF v, d
<1> QED BY <1>3, <1>5, <1>9, <1>10, <1>11 DEF d

(* While the permutations of a text are searched, its own seed comes, or   *)
(* is being tried with tails no longer than its own.                       *)
Reaching(t) ==
    IF searching
      THEN \/ First(t) \in seeds
           \/ \E r \in tail .. MaxTail : \E v \in [1 .. 4 * r -> Pair] : t = seed \o v
      ELSE found # <<>>

LEMMA RecoverReaching ==
    ASSUME NEW t \in Plaintext, t # <<>>, Recover(Expanded(t) \ {<<>>})
    PROVE  Reaching(t)'
BY FirstIs DEF Recover, Reaching, First

LEMMA StepReaching ==
    ASSUME NEW t \in Plaintext, t # <<>>, observed = Expanded(t) \ {<<>>},
           Searching, Reaching(t), SearchStep
    PROVE  Reaching(t)'
<1>1. CASE NextSeed
  <2>1. PICK x \in seeds : seed' = x /\ seeds' = seeds \ {x}
    BY <1>1 DEF NextSeed
  <2>2. First(t) \in seeds
    BY <1>1 DEF NextSeed, Reaching, Searching, MaxTail
  <2>3. CASE x = First(t)
    <3>1. searching' /\ tail' = 0 /\ seed' = First(t)
      BY <1>1, <2>1, <2>3 DEF NextSeed
    <3> QED BY <3>1, FirstIs DEF Reaching
  <2>4. CASE x # First(t)
    BY <1>1, <2>1, <2>2, <2>4 DEF NextSeed, Reaching
  <2> QED BY <2>3, <2>4
<1>2. CASE TryTails
  <2> DEFINE taken == {v \in Tails : Accepted(seed \o v)}
  <2>1. searching /\ UNCHANGED <<seeds, seed>> /\ tail \in 0 .. MaxTail
    BY <1>2 DEF TryTails, Searching, MaxTail
  <2>2. CASE taken = {} /\ tail' = tail + 1 /\ UNCHANGED <<searching, found>>
    <3>1. CASE First(t) \in seeds
      BY <2>1, <2>2, <3>1 DEF Reaching
    <3>2. CASE First(t) \notin seeds
      <4>0. PICK r \in tail .. MaxTail : \E v \in [1 .. 4 * r -> Pair] : t = seed \o v
        BY <2>1, <3>2 DEF Reaching
      <4>1. PICK v \in [1 .. 4 * r -> Pair] : t = seed \o v
        BY <4>0
      <4>2. Accepted(seed \o v)
        BY <4>1 DEF Accepted
      <4>3. r # tail
        BY <2>2, <4>1, <4>2 DEF Tails
      <4>4. r \in tail + 1 .. MaxTail
        BY <2>1, <4>3 DEF MaxTail
      <4> QED BY <2>1, <2>2, <4>1, <4>4 DEF Reaching
    <3> QED BY <3>1, <3>2
  <2>3. CASE \E v \in taken : found' = seed \o v /\ searching' = FALSE
    BY <2>3 DEF Accepted, Reaching
  <2> QED BY <1>2, <2>2, <2>3 DEF TryTails
<1>3. CASE NotRecovered
  <2>1. searching /\ seeds = {} /\ tail > MaxTail
    BY <1>3 DEF NotRecovered
  <2> QED BY <2>1 DEF Reaching, Searching, MaxTail
<1> QED BY <1>1, <1>2, <1>3 DEF SearchStep

-----------------------------------------------------------------------------
(* What is settled of a string: whose text it has and what was warned of.  *)
ForHex(str, k) == "HEXADECIMAL" \in str.flags /\ HexExpressible(str.programs[k])

OfProgram(str, k, t) ==
    IF ForHex(str, k)
      THEN t = [form |-> "hex", body |-> RenderHex(str.programs[k]), suffix |-> {}]
      ELSE /\ t.form = "regex" /\ t.suffix = RegexSuffix(str.flags)
           /\ Greed(t.body) \subseteq CodeGreed(str.programs[k])

(* Every run of digits in its programs is a permutation of the text.       *)
Proven(str, t) ==
    /\ t.form = "plaintext" /\ t.suffix = {} /\ str.programs # <<>>
    /\ t.body \in Plaintext /\ t.body # <<>> /\ RunsOf(str) \subseteq Expanded(t.body)

(* Its programs hold the permutations of a text and nothing else.          *)
Findable(str) == WasBase64(str) /\ str.programs # <<>> /\ "BASE64_WIDE" \notin str.flags

Told(str, n, ws) ==
    /\ IsBase64(str.flags) => <<n, "no plaintext">> \in ws /\ ~ Findable(str)
    /\ Len(str.programs) > 1 => <<n, "several">> \in ws

Settled(str, n, t, ws) ==
    IF "LITERAL" \in str.flags THEN t = NoText
    ELSE \/ t = NoText /\ <<n, "not linked">> \in ws /\ str.programs = <<>>
         \/ IsBase64(str.flags) /\ Proven(str, t)
         \/ Len(str.programs) >= 1 /\ OfProgram(str, 1, t) /\ Told(str, n, ws)

(* The inductive invariant.                                                *)
Taken ==  \* the texts so far are those of the string's own programs, in order
    phase \in Busy =>
        /\ ~ Has("LITERAL") /\ p <= Len(Programs) + 1
        /\ \A k \in DOMAIN rendered : OfProgram(strings[s], k, rendered[k])

Calls ==  \* what the renderer and the search were asked, and what was found
    /\ phase = "regex" => p \in DOMAIN Programs /\ ~ ForHex(strings[s], p) /\ code = Programs[p]
    /\ phase = "plaintext" =>
         /\ p \notin DOMAIN Programs /\ IsBase64(strings[s].flags)
         /\ observed = RunsOf(strings[s])
         /\ found # <<>> => RunsOf(strings[s]) \subseteq Expanded(found)
         /\ Findable(strings[s]) => Reaching(strings[s].plain)

Results ==
    \A n \in DOMAIN strings :
        IF n < s THEN Settled(strings[n], n, result[n], warnings) ELSE result[n] = NoText

Emitted ==
    phase = "done" =>
        /\ s \notin DOMAIN strings
        /\ output = [n \in Visible |->
                       [text |-> Body(n), modifiers |-> Modifiers(strings[n].flags)]]

Folding == RInv /\ Folded

Inv == Typed /\ Searching /\ Folding /\ Taken /\ Calls /\ Results /\ Emitted

LEMMA SettledMore ==
    ASSUME NEW str, NEW n, NEW t, NEW ws, Settled(str, n, t, ws), NEW more, ws \subseteq more
    PROVE  Settled(str, n, t, more)
BY DEF Settled, Told

LEMMA SearchIdle == ASSUME Searching, UNCHANGED bvars PROVE Searching'
BY DEF Searching, bvars

LEMMA OwnRuns ==
    ASSUME strings \in Sources, NEW n \in DOMAIN strings
    PROVE  /\ strings[n].plain \in Plaintext
           /\ Findable(strings[n]) =>
                RunsOf(strings[n]) = Expanded(strings[n].plain) \ {<<>>} /\ strings[n].plain # <<>>
           /\ WasBase64(strings[n]) /\ strings[n].programs # <<>> /\ ~ Findable(strings[n]) =>
                \E run \in RunsOf(strings[n]) : run \notin Seq(Digit)
<1>1. strings[n].plain \in Plaintext
  BY PatternTextAssumption
<1>2. WasBase64(strings[n]) /\ strings[n].programs # <<>> =>
         IF "BASE64_WIDE" \in strings[n].flags
           THEN \E run \in RunsOf(strings[n]) : run \notin Seq(Digit)
           ELSE RunsOf(strings[n]) = Expanded(strings[n].plain) \ {<<>>}
  BY EncodingAssumption
<1> QED BY <1>1, <1>2 DEF Findable, WasBase64

LEMMA InitKept == Init => Inv
<1> SUFFICES ASSUME Init PROVE Inv
  OBVIOUS
<1>1. Typed /\ phase = "strings" /\ s = 1 /\ Len(strings) \in Nat /\ DOMAIN strings = 1 .. Len(strings)
  BY InitTyped, StringFacts DEF Init
<1>2. \A n \in DOMAIN strings : result[n] = NoText
  BY DEF Init
<1>3. Searching
  BY InitSearching DEF Init
<1>4. Folding
  BY InitInv, InitFolds DEF Init, Folding
<1> QED BY <1>1, <1>2, <1>3, <1>4 DEF Inv, Taken, Calls, Results, Emitted, Busy

(* The search accepts only a text that all it was asked for are of.        *)
LEMMA SearchSound ==
    ASSUME NEW runs, observed = runs, found # <<>> => runs \subseteq Expanded(found), SearchStep
    PROVE  observed' = runs /\ (found' # <<>> => runs \subseteq Expanded(found'))
<1>1. CASE NextSeed \/ NotRecovered
  BY <1>1 DEF NextSeed, NotRecovered
<1>2. CASE TryTails
  <2>1. CASE UNCHANGED <<observed, found>>
    BY <2>1
  <2>2. ASSUME NEW v \in Tails, Accepted(seed \o v), found' = seed \o v, UNCHANGED observed
        PROVE  observed' = runs /\ runs \subseteq Expanded(found')
    BY <2>2 DEF Accepted
  <2> QED BY <1>2, <2>1, <2>2 DEF TryTails
<1> QED BY <1>1, <1>2 DEF SearchStep

(* The text of the string of the loop is settled, those before are as      *)
(* settled as they were.                                                   *)
LEMMA NextSettled ==
    ASSUME Inv, phase \in Busy, Typed', Folding', NEW t, NEW kinds, NextString(t, kinds),
           Settled(strings[s], s, t, warnings \cup {<<s, kind>> : kind \in kinds})
    PROVE  Inv'
<1>1. /\ s \in DOMAIN strings /\ s \in Nat /\ DOMAIN strings \subseteq Nat
      /\ DOMAIN result = DOMAIN strings
  BY StringFacts DEF Inv, Typed
<1>2. /\ result' = [result EXCEPT ![s] = t] /\ strings' = strings /\ s' = s + 1
      /\ warnings' = warnings \cup {<<s, kind>> : kind \in kinds} /\ phase' = "strings"
  BY DEF NextString
<1>3. ASSUME NEW n \in DOMAIN strings
      PROVE  IF n < s + 1 THEN Settled(strings[n], n, result'[n], warnings')
             ELSE result'[n] = NoText
  <2>1. CASE n = s
    <3>1. result'[n] = t
      BY <1>1, <1>2, <2>1
    <3> QED BY <1>1, <1>2, <2>1, <3>1
  <2>2. CASE n # s
    <3>1. result'[n] = result[n] /\ (n < s + 1 <=> n < s)
      BY <1>1, <1>2, <2>2
    <3>2. IF n < s THEN Settled(strings[n], n, result[n], warnings) ELSE result[n] = NoText
      BY DEF Inv, Results
    <3>3. warnings \subseteq warnings'
      BY <1>2
    <3> QED BY <3>1, <3>2, <3>3, SettledMore
  <2> QED BY <2>1, <2>2
<1>4. Results'
  BY <1>2, <1>3 DEF Results
<1>5. Searching'
  BY SearchIdle DEF Inv, NextString
<1> QED BY <1>2, <1>4, <1>5 DEF Inv, Taken, Calls, Emitted, Busy

Missed(str, kinds) == IsBase64(str.flags) => "no plaintext" \in kinds /\ ~ Findable(str)

LEMMA FirstSettled ==
    ASSUME Inv, phase \in {"programs", "plaintext"}, p \notin DOMAIN Programs, rendered # <<>>,
           Typed', Folding', NEW kinds, FirstShown(kinds),
           Missed(strings[s], kinds)
    PROVE  Inv'
<1>1. /\ OwnSeq(rendered) /\ Len(rendered) = p - 1 /\ p \in Nat \ {0} /\ phase \in Busy
      /\ s \in DOMAIN strings
  BY DEF Inv, Typed, TypeOK, Busy
<1>2. 1 \in DOMAIN rendered /\ Len(rendered) \in Nat /\ Len(rendered) >= 1
  <2>1. Len(rendered) \in Nat /\ DOMAIN rendered = 1 .. Len(rendered)
    BY <1>1, OwnFacts
  <2>2. Len(rendered) # 0
    BY <1>1 DEF OwnSeq
  <2> QED BY <2>1, <2>2
<1>3. ~ Has("LITERAL") /\ p <= Len(Programs) + 1 /\ OfProgram(strings[s], 1, rendered[1])
  BY <1>1, <1>2 DEF Inv, Taken
<1>4. Programs \in Seq(Codes)
  BY <1>1, StringFacts DEF Inv, Typed, Programs
<1>5. Len(Programs) = p - 1
  <2>1. Len(Programs) \in Nat /\ DOMAIN Programs = 1 .. Len(Programs)
    BY <1>4
  <2> QED BY <1>1, <1>3, <2>1
<1> DEFINE all == kinds \cup (IF Len(rendered) > 1 THEN {"several"} ELSE {})
                       \cup (IF exact THEN {} ELSE {"approximate"})
           ws  == warnings \cup {<<s, kind>> : kind \in all}
<1>6. Told(strings[s], s, ws)
  <2>1. Len(strings[s].programs) > 1 => "several" \in all
    BY <1>1, <1>5 DEF Programs
  <2> HIDE DEF all
  <2> QED BY <2>1 DEF Told, Missed, all
<1>7. NextString(rendered[1], all)
  BY DEF FirstShown
<1>8. Settled(strings[s], s, rendered[1], ws)
  <2> HIDE DEF ws
  <2> QED BY <1>1, <1>2, <1>3, <1>5, <1>6 DEF Settled, Has, Programs
<1> HIDE DEF all
<1> QED BY <1>1, <1>7, <1>8, NextSettled

(* One more text of a program of the string.                               *)
LEMMA ProgramKept ==
    ASSUME Inv, phase \in {"programs", "regex"}, p \in DOMAIN Programs, Typed', Folding',
           NEW t, OfProgram(strings[s], p, t),
           rendered' = Append(rendered, t), p' = p + 1, phase' = "programs",
           UNCHANGED <<strings, s, result, warnings, output, bvars>>
    PROVE  Inv'
<1>1. /\ OwnSeq(rendered) /\ Len(rendered) = p - 1 /\ p \in Nat \ {0} /\ phase \in Busy
      /\ s \in DOMAIN strings
  BY DEF Inv, Typed, TypeOK, Busy
<1>2. Programs \in Seq(Codes)
  BY <1>1, StringFacts DEF Inv, Typed, Programs
<1>3. p + 1 <= Len(Programs) + 1
  BY <1>1, <1>2
<1>4. ASSUME NEW k \in DOMAIN rendered' PROVE OfProgram(strings[s], k, rendered'[k])
  <2>1. /\ DOMAIN rendered' = 1 .. Len(rendered) + 1 /\ rendered'[Len(rendered) + 1] = t
        /\ \A n \in 1 .. Len(rendered) : rendered'[n] = rendered[n]
        /\ DOMAIN rendered = 1 .. Len(rendered)
    BY <1>1, AppendIs, OwnFacts
  <2>2. CASE k = p
    BY <1>1, <2>1, <2>2
  <2>3. CASE k \in DOMAIN rendered
    <3>1. rendered'[k] = rendered[k]
      BY <2>1, <2>3
    <3> QED BY <1>1, <2>3, <3>1 DEF Inv, Taken
  <2> QED BY <1>1, <2>1, <2>2, <2>3
<1>5. Taken'
  BY <1>1, <1>3, <1>4 DEF Inv, Taken, Programs, Has
<1>6. Results' /\ phase' = "programs"
  BY DEF Inv, Results
<1>7. Searching'
  BY SearchIdle DEF Inv
<1> QED BY <1>5, <1>6, <1>7 DEF Inv, Calls, Emitted

LEMMA NextKept == Inv /\ [Step \/ Done]_vars => Inv'
<1> SUFFICES ASSUME Inv, [Step \/ Done]_vars PROVE Inv'
  OBVIOUS
<1>1. Typed /\ Typed' /\ Folding'
  <2>1. [RenderNext]_rvars
    BY NextRenders DEF Inv
  <2> QED BY <2>1, NextTyped, NextInv, NextFolds DEF Inv, Folding
<1>0. UNCHANGED bvars => Searching'
  BY SearchIdle DEF Inv
<1>2. CASE SkipLiteral
  <2>1. /\ phase = "strings" /\ s' = s + 1 /\ s \in DOMAIN strings /\ Has("LITERAL")
        /\ UNCHANGED <<strings, phase, p, rendered, result, warnings, bvars>>
    BY <1>2 DEF SkipLiteral
  <2>2. DOMAIN strings \subseteq Nat
    BY <1>1, StringFacts DEF Typed
  <2>3. ASSUME NEW n \in DOMAIN strings
        PROVE  IF n < s + 1 THEN Settled(strings[n], n, result[n], warnings)
               ELSE result[n] = NoText
    <3>1. IF n < s THEN Settled(strings[n], n, result[n], warnings) ELSE result[n] = NoText
      BY DEF Inv, Results
    <3>2. CASE n = s
      <4>1. result[n] = NoText /\ n < s + 1 /\ "LITERAL" \in strings[n].flags
        BY <2>1, <2>2, <3>1, <3>2 DEF Has
      <4> QED BY <4>1 DEF Settled
    <3>3. CASE n # s
      BY <2>1, <2>2, <3>1, <3>3
    <3> QED BY <3>2, <3>3
  <2>4. Results'
    BY <2>1, <2>3 DEF Results
  <2> QED BY <1>0, <1>1, <2>1, <2>4 DEF Inv, Taken, Calls, Emitted, Busy
<1>3. CASE BeginString
  <2>1. /\ phase' = "programs" /\ p' = 1 /\ rendered' = <<>> /\ ~ Has("LITERAL")
        /\ UNCHANGED <<strings, s, result, warnings, bvars>>
    BY <1>3 DEF BeginString
  <2>2. strings[s].programs \in Seq(Codes)
    BY <1>1, <1>3, StringFacts DEF Typed, BeginString
  <2>3. Taken'
    BY <2>1, <2>2 DEF Taken, Has, Programs
  <2> QED BY <1>0, <1>1, <2>1, <2>3 DEF Inv, Calls, Results, Emitted
<1>4. CASE HexProgram
  <2> DEFINE t == [form |-> "hex", body |-> RenderHex(Programs[p]), suffix |-> {}]
  <2>1. OfProgram(strings[s], p, t)
    BY <1>4 DEF HexProgram, OfProgram, ForHex, Programs, Has
  <2>2. /\ rendered' = Append(rendered, t) /\ p' = p + 1 /\ phase' = "programs"
        /\ phase = "programs" /\ p \in DOMAIN Programs
    BY <1>4 DEF HexProgram
  <2>3. UNCHANGED <<strings, s, result, warnings, output, bvars>>
    BY <1>4 DEF HexProgram
  <2> HIDE DEF t
  <2> QED BY <1>1, <2>1, <2>2, <2>3, ProgramKept
<1>5. CASE RegexProgram
  <2>1. /\ phase = "programs" /\ phase' = "regex" /\ p \in DOMAIN Programs
        /\ ~ ForHex(strings[s], p) /\ code' = Programs[p]
    BY <1>5 DEF RegexProgram, ForHex, Programs, Has, Start
  <2>2. UNCHANGED <<strings, s, p, rendered, result, warnings, bvars>>
    BY <1>5 DEF RegexProgram, loopVars
  <2> QED BY <1>0, <1>1, <2>1, <2>2 DEF Inv, Taken, Calls, Results, Emitted, Busy, Programs, Has
<1>6. CASE RegexStep
  <2>1. phase = "regex" /\ UNCHANGED <<strings, phase, s, p, rendered, result, warnings, bvars>>
    BY <1>6 DEF RegexStep, tvars, loopVars
  <2>2. code' = code
    BY <1>6, StepSameCode DEF RegexStep
  <2> QED BY <1>0, <1>1, <2>1, <2>2 DEF Inv, Taken, Calls, Results, Emitted, Busy, Programs, Has
<1>7. CASE RegexRendered
  <2> DEFINE t == [form |-> "regex", body |-> text, suffix |-> RegexSuffix(strings[s].flags)]
  <2>1. phase = "regex" /\ p \in DOMAIN Programs /\ ~ ForHex(strings[s], p)
    BY <1>7 DEF RegexRendered, Inv, Calls
  <2>2. OfProgram(strings[s], p, t)
    <3>1. code = strings[s].programs[p]
      BY <2>1 DEF Inv, Calls, Programs
    <3>2. Greed(t.body) \subseteq CodeGreed(code)
      BY DEF Inv, Folding, Folded, Fits
    <3> QED BY <2>1, <3>1, <3>2 DEF OfProgram
  <2>3. rendered' = Append(rendered, t) /\ p' = p + 1 /\ phase' = "programs"
    BY <1>7 DEF RegexRendered
  <2>4. UNCHANGED <<strings, s, result, warnings, output, bvars>>
    BY <1>7 DEF RegexRendered
  <2> HIDE DEF t
  <2> QED BY <1>1, <2>1, <2>2, <2>3, <2>4, ProgramKept
<1>8. CASE SearchPlaintext
  <2>1. /\ phase = "programs" /\ phase' = "plaintext" /\ p \notin DOMAIN Programs
        /\ IsBase64(strings[s].flags) /\ found' = <<>>
    BY <1>8 DEF SearchPlaintext, Recover
  <2>2. observed' = RunsOf(strings[s])
    BY <1>8 DEF SearchPlaintext, Recover
  <2>3. UNCHANGED <<strings, s, p, rendered, result, warnings>>
    BY <1>8 DEF SearchPlaintext, loopVars
  <2>4. Recover(RunsOf(strings[s])) /\ s \in DOMAIN strings
    BY <1>1, <2>1, <1>8 DEF SearchPlaintext, Typed, Busy
  <2>5. Searching'
    BY <2>4, RecoverSearching
  <2>6. Findable(strings[s]) => Reaching(strings[s].plain)'
    <3> SUFFICES ASSUME Findable(strings[s]) PROVE Reaching(strings[s].plain)'
      OBVIOUS
    <3> DEFINE t == strings[s].plain
    <3>1. t \in Plaintext /\ t # <<>> /\ Recover(Expanded(t) \ {<<>>})
      BY <1>1, <2>4, OwnRuns DEF Typed
    <3>2. t' = t
      BY <2>3
    <3> HIDE DEF t
    <3>3. Reaching(t)'
      BY <3>1, <3>2, RecoverReaching
    <3> QED BY <3>3 DEF t
  <2> QED BY <1>1, <2>1, <2>2, <2>3, <2>5, <2>6 DEF Findable, Inv, Taken, Calls, Results, Emitted, Busy, Programs, Has
<1>9. CASE PlaintextStep
  <2>1. phase = "plaintext" /\ UNCHANGED <<strings, phase, s, p, rendered, result, warnings>>
    BY <1>9 DEF PlaintextStep, tvars, loopVars
  <2>2. /\ observed' = RunsOf(strings[s])
        /\ found' # <<>> => RunsOf(strings[s]) \subseteq Expanded(found')
    BY <1>9, <2>1, SearchSound DEF PlaintextStep, Inv, Calls
  <2>3. Searching' /\ SearchStep
    BY <1>9, StepSearching DEF PlaintextStep, Inv
  <2>4. Findable(strings[s]) => Reaching(strings[s].plain)'
    <3> SUFFICES ASSUME Findable(strings[s]) PROVE Reaching(strings[s].plain)'
      OBVIOUS
    <3> DEFINE t == strings[s].plain
    <3>1. s \in DOMAIN strings /\ observed = RunsOf(strings[s]) /\ Reaching(t)
      BY <1>1, <2>1 DEF Typed, Busy, Inv, Calls
    <3>2. t \in Plaintext /\ t # <<>> /\ observed = Expanded(t) \ {<<>>}
      BY <1>1, <3>1, OwnRuns DEF Typed
    <3>3. t' = t
      BY <2>1
    <3> HIDE DEF t
    <3>4. Reaching(t)'
      BY <2>3, <3>1, <3>2, <3>3, StepReaching DEF Inv
    <3> QED BY <3>4 DEF t
  <2> QED BY <1>1, <2>1, <2>2, <2>3, <2>4
          DEF Findable, Inv, Taken, Calls, Results, Emitted, Busy, Programs, Has
<1>10. CASE PlaintextFound
  <2> DEFINE t == [form |-> "plaintext", body |-> found, suffix |-> {}]
  <2>1. phase = "plaintext" /\ found # <<>>
    BY <1>10 DEF PlaintextFound
  <2>0. strings[s].programs # <<>>
    <3>1. OwnSeq(rendered) /\ rendered # <<>> /\ Len(rendered) = p - 1 /\ p <= Len(Programs) + 1
      BY <1>1, <2>1 DEF Typed, TypeOK, Inv, Taken, Busy
    <3>2. Len(rendered) # 0 /\ Len(rendered) \in Nat
      BY <3>1, OwnFacts DEF OwnSeq
    <3>3. Len(Programs) \in Nat /\ p \in Nat
      BY <1>1, <2>1, StringFacts DEF Typed, TypeOK, Busy, Programs
    <3>4. Len(Programs) # 0
      BY <3>1, <3>2, <3>3
    <3> QED BY <3>4 DEF Programs
  <2>2. Proven(strings[s], t) /\ IsBase64(strings[s].flags) /\ ~ Has("LITERAL")
    BY <2>0, <2>1 DEF Proven, Inv, Searching, Calls, Taken, Busy
  <2>3. NextString(t, {})
    BY <1>10 DEF PlaintextFound
  <2> HIDE DEF t
  <2>4. Settled(strings[s], s, t, warnings \cup {<<s, kind>> : kind \in {}})
    BY <2>2 DEF Settled, Has
  <2> QED BY <1>1, <2>1, <2>3, <2>4, NextSettled DEF Busy
<1>11. CASE PlaintextNotFound
  <2>1. phase = "plaintext" /\ FirstShown({"no plaintext"})
    BY <1>11 DEF PlaintextNotFound
  <2>2. p \notin DOMAIN Programs /\ rendered # <<>>
    BY <1>1, <2>1 DEF Inv, Calls, Typed
  <2>3. Missed(strings[s], {"no plaintext"})
    BY <1>11, <2>1 DEF Missed, PlaintextNotFound, Inv, Calls, Reaching
  <2> QED BY <1>1, <2>1, <2>2, <2>3, FirstSettled
<1>12. CASE FinishString
  <2>1. phase = "programs" /\ p \notin DOMAIN Programs
    BY <1>12 DEF FinishString
  <2>2. CASE rendered = <<>> /\ NextString(NoText, {"not linked"})
    <3>1. ~ Has("LITERAL")
      BY <2>1 DEF Inv, Taken, Busy
    <3>2. strings[s].programs = <<>>
      <4>1. Len(rendered) = p - 1 /\ p \in Nat \ {0} /\ Programs \in Seq(Codes) /\ p \notin DOMAIN Programs
        BY <1>1, <2>1, StringFacts DEF Typed, TypeOK, Busy, Programs
      <4>2. p = 1
        <5>1. Len(rendered) = 0
          BY <2>2
        <5> QED BY <4>1, <5>1
      <4> QED BY <4>1, <4>2 DEF Programs
    <3>3. Settled(strings[s], s, NoText, warnings \cup {<<s, kind>> : kind \in {"not linked"}})
      BY <3>1, <3>2 DEF Settled, Has
    <3> QED BY <1>1, <2>1, <2>2, <3>3, NextSettled DEF Busy
  <2>3. CASE rendered # <<>> /\ ~ IsBase64(strings[s].flags) /\ FirstShown({})
    <3>1. Missed(strings[s], {})
      BY <2>3 DEF Missed
    <3> QED BY <1>1, <2>1, <2>3, <3>1, FirstSettled
  <2> QED BY <1>12, <2>2, <2>3 DEF FinishString
<1>13. CASE EmitStrings
  <2>1. /\ phase' = "done" /\ s \notin DOMAIN strings
        /\ UNCHANGED <<strings, s, result, bvars>> /\ warnings \subseteq warnings'
    BY <1>13 DEF EmitStrings, loopVars
  <2>2. output' = [n \in Visible |->
                     [text |-> Body(n), modifiers |-> Modifiers(strings[n].flags)]]
    BY <1>13 DEF EmitStrings
  <2>3. Results'
    BY <2>1, SettledMore DEF Inv, Results
  <2>4. Visible' = Visible /\ \A n : Body(n)' = Body(n)
    BY <2>1 DEF Visible, Body
  <2>5. Emitted'
    BY <2>1, <2>2, <2>4 DEF Emitted
  <2> QED BY <1>0, <1>1, <2>1, <2>3, <2>5 DEF Inv, Taken, Calls, Busy
<1>14. CASE Done \/ UNCHANGED vars
  <2>1. UNCHANGED <<strings, phase, s, p, rendered, result, warnings, output, code, bvars>>
    BY <1>14 DEF Done, vars, tvars, loopVars, rvars
  <2>2. Calls'
    BY <2>1 DEF Inv, Calls, Programs, Findable, Reaching, bvars
  <2>3. Taken' /\ Results' /\ Emitted'
    BY <2>1 DEF Inv, Taken, Results, Emitted, Busy, Programs, Has, Visible, Body
  <2> QED BY <1>0, <1>1, <2>1, <2>2, <2>3 DEF Inv
<1> QED BY <1>2, <1>3, <1>4, <1>5, <1>6, <1>7, <1>8, <1>9, <1>10, <1>11, <1>12, <1>13, <1>14
        DEF Step

-----------------------------------------------------------------------------
(* What a line shows that no warning says is not whole.                    *)
WholeText(str, t) ==
    IF "LITERAL" \in str.flags
      THEN t.form = (IF "HEXADECIMAL" \in str.flags THEN "hex" ELSE "text") /\ t.suffix = {}
      ELSE IF IsBase64(str.flags) THEN Proven(str, t)
           ELSE Len(str.programs) = 1 /\ OfProgram(str, 1, t)

Unwarned(n) == \A kind \in Loss : <<n, kind>> \notin warnings

UnwarnedIsWhole ==
    phase = "done" =>
        \A n \in DOMAIN output : Unwarned(n) => WholeText(strings[n], output[n].text)

LEMMA NothingTold ==
    ASSUME NEW str, NEW n, NEW t, Settled(str, n, t, warnings), "LITERAL" \notin str.flags,
           Unwarned(n)
    PROVE  \/ IsBase64(str.flags) /\ Proven(str, t)
           \/ /\ Len(str.programs) >= 1 /\ OfProgram(str, 1, t)
              /\ ~ IsBase64(str.flags) /\ ~ (Len(str.programs) > 1)
<1>1. <<n, "not linked">> \notin warnings
  BY DEF Unwarned, Loss
<1>2. <<n, "no plaintext">> \notin warnings
  BY DEF Unwarned, Loss
<1>3. <<n, "several">> \notin warnings
  BY DEF Unwarned, Loss
<1> QED BY <1>1, <1>2, <1>3 DEF Settled, Told

LEMMA InvWhole == Inv => UnwarnedIsWhole
<1> SUFFICES ASSUME Inv, phase = "done", NEW n \in DOMAIN output, Unwarned(n)
             PROVE  WholeText(strings[n], output[n].text)
  BY DEF UnwarnedIsWhole
<1>1. n \in DOMAIN strings /\ output[n].text = Body(n)
  BY DEF Inv, Emitted, Visible
<1>2. n < s
  <2>1. s \in 1 .. Len(strings) + 1 /\ s \notin DOMAIN strings
    BY DEF Inv, Typed, TypeOK, Emitted
  <2> QED BY <1>1, <2>1, StringFacts DEF Inv, Typed
<1>3. Settled(strings[n], n, result[n], warnings)
  BY <1>1, <1>2 DEF Inv, Results
<1> DEFINE own == strings[n]
<1>4. CASE "LITERAL" \in own.flags
  <2>1. result[n] = NoText
    BY <1>3, <1>4 DEF Settled
  <2>2. /\ Body(n).form = (IF "HEXADECIMAL" \in own.flags THEN "hex" ELSE "text")
        /\ Body(n).suffix = {}
    BY <1>4, <2>1 DEF Body
  <2> QED BY <1>1, <1>4, <2>2 DEF WholeText
<1>5. CASE "LITERAL" \notin own.flags
  <2>1. \/ IsBase64(own.flags) /\ Proven(own, result[n])
        \/ /\ Len(own.programs) >= 1 /\ OfProgram(own, 1, result[n])
           /\ ~ IsBase64(own.flags) /\ ~ (Len(own.programs) > 1)
    BY <1>3, <1>5, NothingTold
  <2>2. result[n] # NoText
    BY <2>1 DEF Proven, OfProgram, NoText
  <2>3. output[n].text = result[n]
    <3>1. Body(n) = result[n]
      BY <1>5, <2>2 DEF Body
    <3> QED BY <1>1, <3>1
  <2>4. Len(own.programs) \in Nat
    BY <1>1, StringFacts DEF Inv, Typed
  <2>5. ~ IsBase64(own.flags) => Len(own.programs) = 1 /\ OfProgram(own, 1, result[n])
    <3>1. ASSUME NEW k \in Nat, k >= 1, ~ (k > 1) PROVE k = 1
      BY <3>1
    <3> QED BY <2>1, <2>4, <3>1, Zenon
  <2> QED BY <1>5, <2>1, <2>3, <2>5 DEF WholeText
<1> QED BY <1>4, <1>5

(* The words written, one by one.                                          *)
Beside(flags) == ~ IsHexLiteral(flags) /\ ~ IsBase64(flags)

LEMMA WordsWritten ==
    ASSUME NEW flags
    PROVE  /\ Modifiers(flags) \subseteq DOMAIN ModifierFlag
           /\ "private" \in Modifiers(flags) <=> "PRIVATE" \in flags
           /\ "base64" \in Modifiers(flags) <=> ~ IsHexLiteral(flags) /\ "BASE64" \in flags
           /\ "base64wide" \in Modifiers(flags)
                <=> ~ IsHexLiteral(flags) /\ "BASE64_WIDE" \in flags
           /\ "nocase" \in Modifiers(flags) <=> Beside(flags) /\ {"NO_CASE", "LITERAL"} \subseteq flags
           /\ "wide" \in Modifiers(flags) <=> Beside(flags) /\ "WIDE" \in flags
           /\ "ascii" \in Modifiers(flags) <=> Beside(flags) /\ {"ASCII", "WIDE"} \subseteq flags
           /\ "fullword" \in Modifiers(flags) <=> Beside(flags) /\ "FULL_WORD" \in flags
           /\ "xor" \in Modifiers(flags) <=> Beside(flags) /\ "XOR" \in flags
<1> DEFINE table == {<<{"PRIVATE"}, "private">>}
                      \cup (IF IsHexLiteral(flags) THEN {} ELSE OfBase64)
                      \cup (IF IsHexLiteral(flags) \/ IsBase64(flags) THEN {} ELSE NotWithBase64)
           W == Modifiers(flags)
<1>1. \A w : w \in W <=> \E row \in table : row[1] \subseteq flags /\ row[2] = w
  BY DEF Modifiers, Words
<1>2. \A row : row \in table <=>
        \/ row = <<{"PRIVATE"}, "private">>
        \/ /\ ~ IsHexLiteral(flags)
           /\ row = <<{"BASE64"}, "base64">> \/ row = <<{"BASE64_WIDE"}, "base64wide">>
        \/ /\ Beside(flags)
           /\ \/ row = <<{"NO_CASE", "LITERAL"}, "nocase">> \/ row = <<{"WIDE"}, "wide">>
              \/ row = <<{"ASCII", "WIDE"}, "ascii">> \/ row = <<{"FULL_WORD"}, "fullword">>
              \/ row = <<{"XOR"}, "xor">>
  BY DEF Beside, OfBase64, NotWithBase64
<1> HIDE DEF table
<1>3. \A w : w \in W <=>
        \/ w = "private" /\ "PRIVATE" \in flags
        \/ /\ ~ IsHexLiteral(flags)
           /\ \/ w = "base64" /\ "BASE64" \in flags
              \/ w = "base64wide" /\ "BASE64_WIDE" \in flags
        \/ /\ Beside(flags)
           /\ \/ w = "nocase" /\ {"NO_CASE", "LITERAL"} \subseteq flags
              \/ w = "wide" /\ "WIDE" \in flags
              \/ w = "ascii" /\ {"ASCII", "WIDE"} \subseteq flags
              \/ w = "fullword" /\ "FULL_WORD" \in flags
              \/ w = "xor" /\ "XOR" \in flags
  <2>1. ASSUME NEW row \in table, row[1] \subseteq flags PROVE row[2] \in W
    BY <1>1, <2>1
  <2>2. /\ <<{"PRIVATE"}, "private">> \in table
        /\ ~ IsHexLiteral(flags) =>
             <<{"BASE64"}, "base64">> \in table /\ <<{"BASE64_WIDE"}, "base64wide">> \in table
        /\ Beside(flags) =>
             /\ <<{"NO_CASE", "LITERAL"}, "nocase">> \in table /\ <<{"WIDE"}, "wide">> \in table
             /\ <<{"ASCII", "WIDE"}, "ascii">> \in table
             /\ <<{"FULL_WORD"}, "fullword">> \in table /\ <<{"XOR"}, "xor">> \in table
    BY <1>2
  <2>3. ASSUME NEW w \in W
        PROVE  \/ w = "private" /\ "PRIVATE" \in flags
               \/ /\ ~ IsHexLiteral(flags)
                  /\ \/ w = "base64" /\ "BASE64" \in flags
                     \/ w = "base64wide" /\ "BASE64_WIDE" \in flags
               \/ /\ Beside(flags)
                  /\ \/ w = "nocase" /\ {"NO_CASE", "LITERAL"} \subseteq flags
                     \/ w = "wide" /\ "WIDE" \in flags
                     \/ w = "ascii" /\ {"ASCII", "WIDE"} \subseteq flags
                     \/ w = "fullword" /\ "FULL_WORD" \in flags
                     \/ w = "xor" /\ "XOR" \in flags
    <3>1. PICK row \in table : row[1] \subseteq flags /\ row[2] = w
      BY <1>1
    <3> QED BY <1>2, <3>1
  <2> HIDE DEF W
  <2>4. "PRIVATE" \in flags => "private" \in W
    BY <2>1, <2>2
  <2>5. ~ IsHexLiteral(flags) =>
          /\ "BASE64" \in flags => "base64" \in W
          /\ "BASE64_WIDE" \in flags => "base64wide" \in W
    BY <2>1, <2>2
  <2>6. Beside(flags) =>
          /\ {"NO_CASE", "LITERAL"} \subseteq flags => "nocase" \in W
          /\ "WIDE" \in flags => "wide" \in W
          /\ {"ASCII", "WIDE"} \subseteq flags => "ascii" \in W
          /\ "FULL_WORD" \in flags => "fullword" \in W
          /\ "XOR" \in flags => "xor" \in W
    BY <2>1, <2>2
  <2> QED BY <2>3, <2>4, <2>5, <2>6
<1> HIDE DEF W
<1>4. \A w \in W : w \in DOMAIN ModifierFlag
  BY <1>3 DEF ModifierFlag
<1> QED BY <1>3, <1>4 DEF W

(* The flags, one by one, of the modifiers they were compiled from.        *)
LEMMA FlagsCompiled ==
    ASSUME NEW own, Compiled(own)
    PROVE  /\ "PRIVATE" \in own.flags <=> "private" \in own.modifiers
           /\ "BASE64" \in own.flags <=> "base64" \in own.modifiers
           /\ "BASE64_WIDE" \in own.flags <=> "base64wide" \in own.modifiers
           /\ ~ IsBase64(own.flags) =>
                /\ "NO_CASE" \in own.flags <=> "nocase" \in own.modifiers
                /\ "WIDE" \in own.flags <=> "wide" \in own.modifiers
                /\ "ASCII" \in own.flags <=> "ascii" \in Effect(own.modifiers)
                /\ "FULL_WORD" \in own.flags <=> "fullword" \in own.modifiers
                /\ "XOR" \in own.flags <=> "xor" \in own.modifiers
<1>1. ASSUME NEW mod \in DOMAIN ModifierFlag, ~ IsBase64(own.flags) \/ mod \in ForBase64
      PROVE  ModifierFlag[mod] \in own.flags <=> mod \in Effect(own.modifiers)
  BY <1>1 DEF Compiled
<1>2. \A mod : mod # "ascii" => (mod \in Effect(own.modifiers) <=> mod \in own.modifiers)
  BY DEF Effect
<1>3. /\ "PRIVATE" \in own.flags <=> "private" \in Effect(own.modifiers)
      /\ "BASE64" \in own.flags <=> "base64" \in Effect(own.modifiers)
      /\ "BASE64_WIDE" \in own.flags <=> "base64wide" \in Effect(own.modifiers)
  BY <1>1 DEF ModifierFlag, ForBase64
<1>4. ASSUME ~ IsBase64(own.flags)
      PROVE  /\ "NO_CASE" \in own.flags <=> "nocase" \in Effect(own.modifiers)
             /\ "WIDE" \in own.flags <=> "wide" \in Effect(own.modifiers)
             /\ "ASCII" \in own.flags <=> "ascii" \in Effect(own.modifiers)
             /\ "FULL_WORD" \in own.flags <=> "fullword" \in Effect(own.modifiers)
             /\ "XOR" \in own.flags <=> "xor" \in Effect(own.modifiers)
  BY <1>1, <1>4 DEF ModifierFlag
<1> QED BY <1>2, <1>3, <1>4

LEMMA SameEffect ==
    ASSUME NEW X, NEW M, \A w : w # "ascii" => (w \in X <=> w \in M),
           "wide" \in M => ("ascii" \in X <=> "ascii" \in M)
    PROVE  Effect(X) = Effect(M)
<1>1. CASE "wide" \in M
  <2>1. \A w : w \in X <=> w \in M
    BY <1>1
  <2> QED BY <1>1, <2>1 DEF Effect
<1>2. CASE "wide" \notin M
  <2>1. \A w : w \in Effect(X) <=> w \in X \/ w = "ascii"
    BY <1>2 DEF Effect
  <2>2. \A w : w \in Effect(M) <=> w \in M \/ w = "ascii"
    BY <1>2 DEF Effect
  <2>3. \A w : w \in Effect(X) <=> w \in Effect(M)
    BY <2>1, <2>2
  <2> QED BY <2>3
<1> QED BY <1>1, <1>2

(* A whole text has the modifiers its string was written with: the line is *)
(* legal, and compiles to the flags it was recovered from.                 *)
KeepsModifiers(own, t) ==
    /\ Legal(t.form, Modifiers(own.flags))
    /\ Effect(Modifiers(own.flags) \cup (IF "i" \in t.suffix THEN {"nocase"} ELSE {}))
         = Effect(own.modifiers)

LEMMA WholeKeepsModifiers ==
    ASSUME NEW own, Legitimate(own), Compiled(own), NEW t, WholeText(own, t)
    PROVE  KeepsModifiers(own, t)
<1> DEFINE F == own.flags
           M == own.modifiers
           W == Modifiers(F)
           X == W \cup (IF "i" \in t.suffix THEN {"nocase"} ELSE {})
           Words8 == {"nocase", "wide", "ascii", "fullword", "private", "xor", "base64", "base64wide"}
<1>1. DOMAIN ModifierFlag = Words8
  BY DEF ModifierFlag
<1>2. W \subseteq Words8 /\ M \subseteq Words8
  BY <1>1, WordsWritten DEF Legitimate
<1>3. /\ "HEXADECIMAL" \in F => M \subseteq {"private"}
      /\ "xor" \in M => "LITERAL" \in F /\ "nocase" \notin M
      /\ IsBase64(F) => M \subseteq ForBase64 /\ "LITERAL" \notin F /\ "HEXADECIMAL" \notin F
  BY DEF Legitimate
<1>4. CASE "LITERAL" \in F /\ "HEXADECIMAL" \in F
  <2>1. t.form = "hex" /\ t.suffix = {} /\ IsHexLiteral(F)
    BY <1>4 DEF WholeText, IsHexLiteral
  <2>2. X = W
    BY <2>1
  <2>3. W \subseteq {"private"} /\ M \subseteq {"private"}
    BY <1>2, <1>3, <1>4, <2>1, WordsWritten DEF Beside
  <2>4. "private" \in W <=> "private" \in M
    BY WordsWritten, FlagsCompiled
  <2>5. Legal(t.form, W)
    BY <2>1, <2>3 DEF Legal
  <2>6. Effect(X) = Effect(M)
    BY <2>2, <2>3, <2>4, SameEffect
  <2> QED BY <2>5, <2>6 DEF KeepsModifiers
<1>5. CASE "LITERAL" \in F /\ "HEXADECIMAL" \notin F
  <2>1. t.form = "text" /\ t.suffix = {} /\ Beside(F) /\ ~ IsHexLiteral(F) /\ ~ IsBase64(F)
    BY <1>3, <1>5 DEF WholeText, IsHexLiteral, Beside
  <2>2. X = W
    BY <2>1
  <2>3. /\ "private" \in W <=> "private" \in M
        /\ "base64" \in W <=> "base64" \in M
        /\ "base64wide" \in W <=> "base64wide" \in M
        /\ "nocase" \in W <=> "nocase" \in M
        /\ "wide" \in W <=> "wide" \in M
        /\ "fullword" \in W <=> "fullword" \in M
        /\ "xor" \in W <=> "xor" \in M
        /\ "ascii" \in W <=> "ascii" \in Effect(M) /\ "wide" \in M
    BY <1>5, <2>1, WordsWritten, FlagsCompiled
  <2>4. "base64" \notin W /\ "base64wide" \notin W
    BY <2>1, WordsWritten DEF IsBase64
  <2>5. Legal(t.form, W)
    BY <1>3, <2>1, <2>3, <2>4 DEF Legal
  <2>6. \A w : w # "ascii" => (w \in W <=> w \in M)
    BY <1>2, <2>3
  <2>7. "wide" \in M => ("ascii" \in W <=> "ascii" \in M)
    BY <2>3 DEF Effect
  <2>8. Effect(X) = Effect(M)
    BY <2>2, <2>6, <2>7, SameEffect
  <2> QED BY <2>5, <2>8 DEF KeepsModifiers
<1>6. CASE "LITERAL" \notin F /\ IsBase64(F)
  <2>1. t.form = "plaintext" /\ t.suffix = {} /\ ~ Beside(F) /\ ~ IsHexLiteral(F)
    BY <1>6 DEF WholeText, Proven, IsHexLiteral, Beside
  <2>2. X = W
    BY <2>1
  <2>3. W \subseteq ForBase64 /\ M \subseteq ForBase64
    BY <1>2, <1>3, <1>6, <2>1, WordsWritten DEF ForBase64
  <2>4. /\ "private" \in W <=> "private" \in M
        /\ "base64" \in W <=> "base64" \in M
        /\ "base64wide" \in W <=> "base64wide" \in M
    BY <2>1, WordsWritten, FlagsCompiled
  <2>5. Legal(t.form, W)
    BY <2>1, <2>3 DEF Legal, ForBase64
  <2>6. \A w : w \in W <=> w \in M
    BY <2>3, <2>4 DEF ForBase64
  <2>7. Effect(X) = Effect(M)
    BY <2>2, <2>6, SameEffect
  <2> QED BY <2>5, <2>7 DEF KeepsModifiers
<1>7. CASE "LITERAL" \notin F /\ ~ IsBase64(F)
  <2>1. OfProgram(own, 1, t) /\ Beside(F) /\ ~ IsHexLiteral(F)
    BY <1>7 DEF WholeText, IsHexLiteral, Beside
  <2>2. /\ "private" \in W <=> "private" \in M
        /\ "wide" \in W <=> "wide" \in M
        /\ "fullword" \in W <=> "fullword" \in M
        /\ "ascii" \in W <=> "ascii" \in Effect(M) /\ "wide" \in M
        /\ "nocase" \notin W
    BY <1>7, <2>1, WordsWritten, FlagsCompiled
  <2>3. /\ "base64" \notin W /\ "base64wide" \notin W /\ "base64" \notin M /\ "base64wide" \notin M
    BY <1>7, WordsWritten, FlagsCompiled DEF IsBase64
  <2>4. "xor" \notin W /\ "xor" \notin M
    BY <1>3, <1>7, WordsWritten, FlagsCompiled
  <2>5. "wide" \in M => ("ascii" \in W <=> "ascii" \in M)
    BY <2>2 DEF Effect
  <2>6. CASE ForHex(own, 1)
    <3>1. "HEXADECIMAL" \in F /\ t.form = "hex" /\ t.suffix = {}
      BY <2>1, <2>6 DEF OfProgram, ForHex
    <3>2. M \subseteq {"private"} /\ X = W
      BY <1>3, <3>1
    <3>3. W \subseteq {"private"}
      BY <1>2, <2>2, <2>3, <2>4, <3>2
    <3>4. Legal(t.form, W)
      BY <3>1, <3>3 DEF Legal
    <3>5. Effect(X) = Effect(M)
      BY <2>2, <3>2, <3>3, SameEffect
    <3> QED BY <3>4, <3>5 DEF KeepsModifiers
  <2>7. CASE ~ ForHex(own, 1)
    <3>1. t.form = "regex" /\ t.suffix = RegexSuffix(F)
      BY <2>1, <2>7 DEF OfProgram
    <3>2. "i" \in t.suffix <=> "nocase" \in M
      BY <1>7, <3>1, FlagsCompiled DEF RegexSuffix
    <3>3. Legal(t.form, W)
      BY <2>3, <2>4, <3>1 DEF Legal
    <3>4. \A w : w # "ascii" => (w \in X <=> w \in M)
      BY <1>2, <2>2, <2>3, <2>4, <3>2
    <3>5. "ascii" \in X <=> "ascii" \in W
      OBVIOUS
    <3>6. Effect(X) = Effect(M)
      BY <2>5, <3>4, <3>5, SameEffect
    <3> QED BY <3>3, <3>6 DEF KeepsModifiers
  <2> QED BY <2>6, <2>7
<1> QED BY <1>4, <1>5, <1>6, <1>7

LEMMA InvModifiers == Inv => ModifiersKept
<1> SUFFICES ASSUME Inv, NEW n \in Certain
             PROVE  KeepsModifiers(strings[n], output[n].text)
                    /\ output[n].modifiers = Modifiers(strings[n].flags)
  BY DEF ModifiersKept, KeepsModifiers
<1>1. phase = "done" /\ n \in DOMAIN output /\ Unwarned(n)
  BY DEF Certain, Unwarned
<1>2. WholeText(strings[n], output[n].text)
  BY <1>1, InvWhole DEF UnwarnedIsWhole
<1>3. n \in DOMAIN strings /\ output[n].modifiers = Modifiers(strings[n].flags)
  BY <1>1 DEF Inv, Emitted, Visible
<1>4. Legitimate(strings[n]) /\ Compiled(strings[n])
  BY <1>3, ModifierAssumption DEF Inv, Typed
<1> QED BY <1>2, <1>3, <1>4, WholeKeepsModifiers

(* No text has a permutation with anything but digits in it.               *)
LEMMA ProvenFindable ==
    ASSUME strings \in Sources, NEW n \in DOMAIN strings, WasBase64(strings[n]), NEW t,
           Proven(strings[n], t)
    PROVE  Findable(strings[n])
<1> SUFFICES ASSUME ~ Findable(strings[n]) PROVE FALSE
  OBVIOUS
<1>1. PICK run \in RunsOf(strings[n]) : run \notin Seq(Digit)
  BY OwnRuns DEF Proven
<1>2. run \in Expanded(t.body) /\ t.body \in Plaintext
  BY DEF Proven
<1> QED BY <1>1, <1>2, PermutationTyped DEF Expanded

LEMMA NoLiteralIsBase64 ==
    ASSUME strings \in Sources, NEW n \in DOMAIN strings, WasBase64(strings[n])
    PROVE  "LITERAL" \notin strings[n].flags
BY ModifierAssumption DEF WasBase64, Legitimate

LEMMA InvProven == Inv => PlaintextProven
<1> SUFFICES ASSUME Inv, NEW n \in Certain, WasBase64(strings[n])
             PROVE  /\ output[n].text.form = "plaintext"
                    /\ Unambiguous(strings[n].plain) => output[n].text.body = strings[n].plain
  BY DEF PlaintextProven
<1> DEFINE t == output[n].text
<1>1. phase = "done" /\ n \in DOMAIN output /\ Unwarned(n)
  BY DEF Certain, Unwarned
<1>2. n \in DOMAIN strings /\ strings \in Sources
  BY <1>1 DEF Inv, Emitted, Visible, Typed
<1>3. Proven(strings[n], t)
  BY <1>1, <1>2, InvWhole, NoLiteralIsBase64 DEF UnwarnedIsWhole, WholeText, WasBase64
<1> HIDE DEF t
<1>4. Findable(strings[n])
  BY <1>2, <1>3, ProvenFindable
<1>5. /\ strings[n].plain \in Plaintext /\ strings[n].plain # <<>>
      /\ RunsOf(strings[n]) = Expanded(strings[n].plain) \ {<<>>}
  BY <1>2, <1>4, OwnRuns
<1>6. Among(strings[n].plain, t.body) /\ t.body \in Plaintext
  BY <1>3, <1>5 DEF Proven, Among
<1>7. Unambiguous(strings[n].plain) => t.body = strings[n].plain
  BY <1>5, <1>6, Fixed
<1>8. t.form = "plaintext"
  BY <1>3 DEF Proven
<1> QED BY <1>7, <1>8 DEF t

LEMMA CodeGreedTyped == ASSUME NEW c PROVE CodeGreed(c) \subseteq BOOLEAN
<1>1. {c[o].op = "SPLIT_B" : o \in SplitsBack(c)} \subseteq BOOLEAN
  OBVIOUS
<1>2. ASSUME NEW S PROVE {c[o].op = "SPLIT_A" : o \in S} \subseteq BOOLEAN
  OBVIOUS
<1> DEFINE greedy(o) == c[o].op \in {"REPEAT_START_GREEDY", "REPEAT_ANY_GREEDY"}
<1>3. {greedy(o) : o \in RepeatsOf(c)} \subseteq BOOLEAN
  <2>1. ASSUME NEW o PROVE greedy(o) \in BOOLEAN
    OBVIOUS
  <2> HIDE DEF greedy
  <2> QED BY <2>1
<1> QED BY <1>1, <1>2, <1>3 DEF CodeGreed

LEMMA InvNoMix == Inv => NoMixInvented
<1> SUFFICES ASSUME Inv, NEW n \in Certain, output[n].text.form = "regex",
                    MixedText(output[n].text.body)
             PROVE  strings[n].mixed
  BY DEF NoMixInvented
<1> DEFINE t == output[n].text
           c == strings[n].programs[1]
<1>1. phase = "done" /\ n \in DOMAIN output /\ Unwarned(n) /\ strings[n].expr # Unknown
  BY DEF Certain, Unwarned
<1>2. n \in DOMAIN strings /\ strings \in Sources
  BY <1>1 DEF Inv, Emitted, Visible, Typed
<1>3. WholeText(strings[n], t)
  BY <1>1, InvWhole DEF UnwarnedIsWhole
<1>4. Len(strings[n].programs) = 1 /\ OfProgram(strings[n], 1, t)
  BY <1>3 DEF WholeText, Proven
<1>5. Greed(t.body) \subseteq CodeGreed(c)
  BY <1>4 DEF OfProgram
<1>6. CodeGreed(c) \subseteq BOOLEAN
  BY CodeGreedTyped
<1>7. CodeGreed(c) = BOOLEAN
  BY <1>5, <1>6 DEF MixedText
<1>8. 1 \in DOMAIN strings[n].programs
  BY <1>2, <1>4, StringFacts
<1>9. strings[n].mixed \in BOOLEAN
  BY <1>2, PatternTextAssumption
<1> QED BY <1>1, <1>2, <1>7, <1>8, <1>9, MixAssumption

LEMMA InvRecovered == Inv => PlaintextRecovered
<1> SUFFICES ASSUME Inv, NEW n \in DOMAIN strings, phase = "done",
                    WasBase64(strings[n]), strings[n].programs # <<>>
             PROVE  result[n].form = "plaintext" <=> "BASE64_WIDE" \notin strings[n].flags
  BY DEF PlaintextRecovered
<1>1. strings \in Sources /\ n < s
  <2>1. s \in 1 .. Len(strings) + 1 /\ s \notin DOMAIN strings
    BY DEF Inv, Typed, TypeOK, Emitted
  <2> QED BY <2>1, StringFacts DEF Inv, Typed
<1>2. Settled(strings[n], n, result[n], warnings) /\ "LITERAL" \notin strings[n].flags
  BY <1>1, NoLiteralIsBase64 DEF Inv, Results
<1>3. CASE Proven(strings[n], result[n])
  <2>1. Findable(strings[n])
    BY <1>1, <1>3, ProvenFindable
  <2> QED BY <1>3, <2>1 DEF Proven, Findable
<1>4. CASE OfProgram(strings[n], 1, result[n]) /\ Told(strings[n], n, warnings)
  <2>1. result[n].form \in {"hex", "regex"}
    BY <1>4 DEF OfProgram
  <2>2. ~ Findable(strings[n])
    BY <1>4 DEF Told, WasBase64
  <2> QED BY <2>1, <2>2 DEF Findable
<1> QED BY <1>2, <1>3, <1>4 DEF Settled

(* A line that no warning calls incomplete shows: of a literal its         *)
(* characters; of a base64 pattern a text that every run of digits in its  *)
(* programs is a permutation of; of any other string the text of its only  *)
(* program, never of another string's or of one among several.             *)
THEOREM UnwarnedIsWholeHolds == Spec => []UnwarnedIsWhole
BY InitKept, NextKept, InvWhole, PTL DEF Spec

(* The modifiers on such a line are legal beside its text, and they mean   *)
(* what the author's meant, for every combination that YARA accepts.       *)
THEOREM ModifiersKeptHolds == Spec => []ModifiersKept
BY InitKept, NextKept, InvModifiers, PTL DEF Spec

(* No base64 pattern is shown as another text than it was compiled from,   *)
(* of whatever length: its three permutations fix it, unless two of them   *)
(* are one or those of another text, taken in another order.               *)
THEOREM PlaintextProvenHolds == Spec => []PlaintextProven
BY InitKept, NextKept, InvProven, PTL DEF Spec

(* In whatever order the permutations are tried, the search ends with a    *)
(* text for every base64 pattern that has a program, and for no base64wide *)
(* pattern.                                                                *)
THEOREM PlaintextRecoveredHolds == Spec => []PlaintextRecovered
BY InitKept, NextKept, InvRecovered, PTL DEF Spec

(* Folding its programs and merging the pieces of equal text never give an *)
(* unmixed expression quantifiers of both greedinesses, which YARA would   *)
(* refuse: whatever the program, each quantifier of its text is greedy or  *)
(* not as one of its own splits and repeats says.                          *)
THEOREM NoMixInventedHolds == Spec => []NoMixInvented
BY InitKept, NextKept, InvNoMix, PTL DEF Spec
=============================================================================
