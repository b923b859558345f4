----------------------------- MODULE RegexRender -----------------------------
(***************************************************************************)
(* How yaradec writes a pattern's program as source text (repattern.py,    *)
(* "Rendering"): render_hex, and _RegexRenderer, which folds the bytecode  *)
(* of a regular expression back into concatenation, alternation and        *)
(* quantifiers.                                                            *)
(*                                                                         *)
(* A program is a function from the offsets of its instructions to them;   *)
(* its greatest offset is that of MATCH.  _seq calls itself, so the        *)
(* renderer's state is a stack of frames, one for each call that has not   *)
(* returned; an action is one turn of the loop in _seq, a call or a        *)
(* return.  A text is a sequence of tokens (a character, a class, a        *)
(* parenthesis, a quantifier), the spelling of each left out.              *)
(***************************************************************************)
EXTENDS Integers, Sequences, SequencesExt

CONSTANTS
    Char,         \* the characters
    Inf,          \* _INF, the bound that stands for "no bound"
    MaxTurns,     \* the guard of the loop in _seq
    MaxDepth,     \* the calls Python's recursion limit leaves to _seq
    Codes         \* the programs it is asked to render

Split       == {"SPLIT_A", "SPLIT_B"}
RepeatStart == {"REPEAT_START_GREEDY", "REPEAT_START_UNGREEDY"}
RepeatEnd   == {"REPEAT_END_GREEDY", "REPEAT_END_UNGREEDY"}
RepeatAny   == {"REPEAT_ANY_GREEDY", "REPEAT_ANY_UNGREEDY"}
Shorthand   == {"WORD_CHAR", "NON_WORD_CHAR", "SPACE", "NON_SPACE", "DIGIT", "NON_DIGIT",
                "WORD_BOUNDARY", "NON_WORD_BOUNDARY", "MATCH_AT_START", "MATCH_AT_END"}

(* An instruction, as decode_instr returns it.  What is read of a          *)
(* (masked) literal or of a class bitmap is a set of characters.           *)
Instr == [op : STRING, end : Nat, target : Int, lo : Nat, hi : Nat,
          set : SUBSET STRING, negated : BOOLEAN]

ASSUME RenderAssumption ==
    /\ Inf \in Nat /\ MaxTurns \in Nat /\ MaxDepth \in Nat \ {0}
    /\ \A c \in Codes :
         /\ DOMAIN c \subseteq Nat
         /\ \A o \in DOMAIN c : c[o] \in Instr /\ c[o].end > o

VARIABLES
    code,      \* the program being rendered
    frames,    \* the calls of _seq in progress, the innermost last
    text,      \* the text returned for it
    full       \* FALSE once something was not folded (not `unrecovered`)

rvars == <<code, frames, text, full>>

-----------------------------------------------------------------------------
(* Tokens, and the atoms of _atom.                                         *)
Token(k, set) == [k |-> k, set |-> set, lo |-> 1, hi |-> 1, greedy |-> TRUE]

Quantifier(lo, hi, greedy) ==
    [k |-> "quantifier", set |-> {}, lo |-> lo, hi |-> IF hi >= Inf THEN Inf ELSE hi,
     greedy |-> greedy]

(* _class_to_str: `negated` is not read; the shorter form is chosen by     *)
(* the number of members.                                                  *)
ClassText(set) ==
    CASE set = Char -> Token(".", {})
      [] set = {}   -> Token("negated class", Char)
      [] 2 * Cardinality(set) > Cardinality(Char) -> Token("negated class", Char \ set)
      [] OTHER      -> Token("class", set)

Foldable == {"LITERAL", "NOT_LITERAL", "ANY", "CLASS", "MASKED_LITERAL"} \cup Shorthand

Atom(ins) ==
    CASE ins.op = "LITERAL"     -> Token("literal", ins.set)
      [] ins.op = "NOT_LITERAL" -> Token("negated class", ins.set)
      [] ins.op = "ANY"         -> Token(".", {})
      [] ins.op \in {"CLASS", "MASKED_LITERAL"} -> ClassText(ins.set)
      [] ins.op \in Shorthand   -> Token(ins.op, {})
      [] OTHER                  -> Token("(?#)", {})

(* render_hex: no text when an opcode has no form in a hex string.         *)
HexUnit(ins) ==
    CASE ins.op \in {"LITERAL", "MASKED_LITERAL"} -> <<Token("byte", ins.set)>>
      [] ins.op = "ANY"         -> <<Token("??", {})>>
      [] ins.op \in RepeatAny   -> <<[Quantifier(ins.lo, ins.hi, TRUE) EXCEPT !.k = "jump"]>>
      [] OTHER                  -> <<>>

Order(c) ==
    LET offsets == {o \in DOMAIN c : c[o].op # "MATCH"}
    IN [n \in 1 .. Cardinality(offsets) |->
          CHOOSE o \in offsets : Cardinality({p \in offsets : p < o}) = n - 1]

RenderHex(c) == FlattenSeq([n \in DOMAIN Order(c) |-> HexUnit(c[Order(c)[n]])])

HexExpressible(c) ==
    \A o \in DOMAIN c : c[o].op \in {"MATCH", "LITERAL", "MASKED_LITERAL", "ANY"} \cup RepeatAny

-----------------------------------------------------------------------------
(* _Piece: a sub-expression and its bounds.                                *)
Piece(base, lo, hi, greedy, atomic) ==
    [base |-> base, lo |-> lo, hi |-> hi, greedy |-> greedy, atomic |-> atomic]

Once(p) == p.lo = 1 /\ p.hi = 1

MergeOnceToo(p, q) == p.base = q.base /\ p.base # <<>> /\ p.greedy = q.greedy

Mergeable(p, q) ==
    /\ p.base = q.base /\ p.base # <<>>
    /\ p.greedy = q.greedy
    /\ ~ (Once(p) /\ Once(q))

(* _merge_pieces                                                           *)
Merged(p, q) ==
    Piece(p.base, p.lo + q.lo, IF Inf \in {p.hi, q.hi} THEN Inf ELSE p.hi + q.hi,
          p.greedy, p.atomic)

Attach(done, p) ==
    IF done # <<>> /\ Mergeable(Last(done), p)
      THEN Append(Front(done), Merged(Last(done), p))
      ELSE Append(done, p)

(* (Each partial result is bound, so that TLC evaluates it once also where *)
(* it looks for enabled actions.)                                          *)
Only(set) == CHOOSE x \in set : TRUE

MergePieces(pieces) ==
    LET merged[n \in 0 .. Len(pieces)] ==
          IF n = 0 THEN <<>> ELSE Only({Attach(done, pieces[n]) : done \in {merged[n - 1]}})
    IN merged[Len(pieces)]

(* _needs_group: a base that begins and ends with a parenthesis is taken   *)
(* for a group.  (An escaped one at the end, too: no character of a model  *)
(* is a parenthesis.)                                                      *)
NeedsGroup(base) ==
    ~ \/ Len(base) = 1
      \/ base[1].k \in {"(", "(?#)"} /\ Last(base).k \in {")", "(?#)"}

(* _format_pieces                                                          *)
Bracketed(p) ==
    IF NeedsGroup(p.base) /\ ~ p.atomic
      THEN <<Token("(", {})>> \o p.base \o <<Token(")", {})>>
      ELSE p.base

PieceText(p) ==
    IF p.base = <<>> \/ Once(p)
      THEN p.base
      ELSE Append(Bracketed(p), Quantifier(p.lo, p.hi, p.greedy))

FormatPieces(pieces) == FlattenSeq([n \in DOMAIN pieces |-> PieceText(pieces[n])])

Text(pieces) == Only({FormatPieces(merged) : merged \in {MergePieces(pieces)}})

-----------------------------------------------------------------------------
(* A call says what its caller does with the text that is returned: make a *)
(* piece with these bounds of it, or one branch of an alternation, whose   *)
(* right branch begins at mid; next is where the caller goes on.           *)
Call(kind, lo, hi, greedy, mid, next, left) ==
    [kind |-> kind, lo |-> lo, hi |-> hi, greedy |-> greedy, mid |-> mid, next |-> next,
     left |-> left]

Repeated(lo, hi, greedy, next) == Call("piece", lo, hi, greedy, 0, next, <<>>)

Frame(start, end, call) ==
    [start |-> start, off |-> start, end |-> end, turns |-> 0,
     pieces |-> <<>>, starts |-> <<>>, call |-> call]

Top == frames[Len(frames)]

(* The loop goes on; and the loop is at an instruction.                    *)
Looping == frames # <<>> /\ Top.off < Top.end
AtInstr == Looping /\ Top.turns < MaxTurns /\ Top.off \in DOMAIN code
Ins     == code[Top.off]

(* The end of a turn: the innermost frame gets a piece and goes on.        *)
Resume(frame, next) == [frame EXCEPT !.off = next, !.turns = @ + 1]

WithPiece(frame, p, next) ==
    Resume([frame EXCEPT !.pieces = Append(@, p), !.starts = Append(@, frame.off)], next)

ReplaceTop(frame) == frames' = [frames EXCEPT ![Len(frames)] = frame]

(* A call of _seq; render_regex catches the RecursionError.                *)
Enter(start, end, call) ==
    IF Len(frames) < MaxDepth
      THEN /\ frames' = Append(frames, Frame(start, end, call))
           /\ UNCHANGED <<code, text, full>>
      ELSE /\ frames' = <<>> /\ text' = <<>> /\ full' = FALSE
           /\ UNCHANGED code

RenderInit ==
    /\ code = <<>> /\ frames = <<>> /\ text = <<>> /\ full = TRUE

Whole(c) ==   \* render: from the first instruction to the last, the MATCH
    {ends \in (DOMAIN c) \X (DOMAIN c) : \A o \in DOMAIN c : ends[1] <= o /\ o <= ends[2]}

Start(c) ==
    /\ frames = <<>>
    /\ code' = c
    /\ \E ends \in Whole(c) :
         frames' = <<Frame(ends[1], ends[2], Repeated(1, 1, TRUE, 0))>>
    /\ text' = <<>> /\ full' = TRUE

(* The guard of the loop, or an offset at which no instruction begins.     *)
Abandon ==
    /\ Looping /\ (Top.turns >= MaxTurns \/ Top.off \notin DOMAIN code)
    /\ ReplaceTop([Top EXCEPT !.off = Top.end])
    /\ full' = FALSE
    /\ UNCHANGED <<code, text>>

-----------------------------------------------------------------------------
(* e+  ->  L: e ; SPLIT_B L.  The split takes the pieces since L with it.  *)
ClosesPlus ==
    /\ Ins.op \in Split /\ Ins.end <= Top.end
    /\ \E n \in DOMAIN Top.starts : Top.starts[n] = Ins.target

ClosePlusLast ==   \* folds only the piece before the split
    /\ AtInstr /\ ClosesPlus
    /\ LET k    == Len(Top.starts)
           plus == Piece(Text(<<Last(Top.pieces)>>), 1, Inf, Ins.op = "SPLIT_B", FALSE)
       IN ReplaceTop(Resume([Top EXCEPT
                              !.pieces = Append(SubSeq(@, 1, k - 1), plus),
                              !.starts = Append(SubSeq(@, 1, k - 1), Ins.target)], Ins.end))
    /\ UNCHANGED <<code, text, full>>

ClosePlusStays ==  \* the split is met again
    /\ AtInstr /\ ClosesPlus
    /\ ReplaceTop(Resume(Top, Top.off))
    /\ UNCHANGED <<code, text, full>>

ClosePlus ==
    /\ AtInstr /\ ClosesPlus
    /\ LET k    == Min({n \in DOMAIN Top.starts : Top.starts[n] = Ins.target})
           body == Text(SubSeq(Top.pieces, k, Len(Top.pieces)))
           plus == Piece(body, 1, Inf, Ins.op = "SPLIT_B", FALSE)
       IN ReplaceTop(Resume([Top EXCEPT
                              !.pieces = Append(SubSeq(@, 1, k - 1), plus),
                              !.starts = Append(SubSeq(@, 1, k - 1), Ins.target)], Ins.end))
    /\ UNCHANGED <<code, text, full>>

(* e{n,m}  ->  REPEAT_START ; e ; REPEAT_END (_find_repeat_end: the first  *)
(* end that balances).                                                     *)
Between(ops, a, b) == Cardinality({o \in DOMAIN code : a <= o /\ o < b /\ code[o].op \in ops})

RepeatEnds ==
    {o \in DOMAIN code : /\ Ins.end <= o /\ o < Top.end /\ code[o].op \in RepeatEnd
                         /\ Between(RepeatStart, Ins.end, o) = Between(RepeatEnd, Ins.end, o)}

Closed == Ins.op \in RepeatStart /\ RepeatEnds # {}

EnterRepeat ==
    /\ AtInstr /\ Closed
    /\ \E close \in RepeatEnds :
         /\ \A o \in RepeatEnds : close <= o
         /\ Enter(Ins.end, close,
                  Repeated(Ins.lo, Ins.hi, Ins.op = "REPEAT_START_GREEDY", code[close].end))

(* What a forward split means is told by the instruction before its target *)
(* (_prev_offset).                                                         *)
Forward(ops) == Ins.op \in ops /\ Ins.target > Top.off

Before(offset) == {o \in DOMAIN code : /\ o < offset
                                       /\ \A q \in DOMAIN code : q < offset => q <= o}

LoopsBack == {o \in Before(Ins.target) : code[o].op = "JUMP" /\ code[o].target = Top.off}
JumpsOver == {o \in Before(Ins.target) : code[o].op = "JUMP" /\ code[o].target > Ins.target}

(* e*  ->  L1: SPLIT_A L2 ; e ; JUMP L1 ; L2:                              *)
EnterStar ==
    /\ AtInstr /\ ~ ClosesPlus /\ Forward(Split)
    /\ \E o \in LoopsBack :
         Enter(Ins.end, o, Repeated(0, Inf, Ins.op = "SPLIT_A", Ins.target))

(* l|r  ->  SPLIT_A L1 ; l ; JUMP L2 ; L1: r ; L2:                         *)
EnterAlternation ==
    /\ AtInstr /\ ~ ClosesPlus /\ Forward(Split)
    /\ \E o \in JumpsOver :
         Enter(Ins.end, o, Call("left", 1, 1, TRUE, Ins.target, code[o].target, <<>>))

(* e?  ->  SPLIT_A L1 ; e ; L1:                                            *)
EnterOptional ==
    /\ AtInstr /\ ~ ClosesPlus /\ Forward(Split) /\ LoopsBack = {} /\ JumpsOver = {}
    /\ Enter(Ins.end, Ins.target, Repeated(0, 1, Ins.op = "SPLIT_A", Ins.target))

RepeatAnyUnit ==
    /\ AtInstr /\ Ins.op \in RepeatAny
    /\ ReplaceTop(WithPiece(Top,
                    Piece(<<Token(".", {})>>, Ins.lo, Ins.hi, Ins.op = "REPEAT_ANY_GREEDY", FALSE),
                    Ins.end))
    /\ UNCHANGED <<code, text, full>>

(* A forward jump of no structure is skipped and leaves no piece.          *)
JumpAhead ==
    /\ AtInstr /\ Forward({"JUMP"})
    /\ ReplaceTop(Resume(Top, Ins.target))
    /\ UNCHANGED <<code, text, full>>

AtomUnit ==
    /\ AtInstr
    /\ ~ ClosesPlus /\ ~ Closed /\ ~ Forward(Split \cup {"JUMP"}) /\ Ins.op \notin RepeatAny
    /\ ReplaceTop(WithPiece(Top, Piece(<<Atom(Ins)>>, 1, 1, TRUE, FALSE), Ins.end))
    /\ full' = (full /\ Ins.op \in Foldable)
    /\ UNCHANGED <<code, text>>

-----------------------------------------------------------------------------
(* _seq returns to its caller.                                             *)
Returning == Len(frames) > 1 /\ Top.off >= Top.end
Caller    == frames[Len(frames) - 1]
BackWith(p) ==
    frames' = Append(SubSeq(frames, 1, Len(frames) - 2), WithPiece(Caller, p, Top.call.next))

ReturnPiece ==
    /\ Returning /\ Top.call.kind = "piece"
    /\ BackWith(Piece(Text(Top.pieces), Top.call.lo, Top.call.hi, Top.call.greedy, FALSE))
    /\ UNCHANGED <<code, text, full>>

ReturnLeftAgain ==  \* the right branch is taken for a left one
    /\ Returning /\ Top.call.kind = "left"
    /\ ReplaceTop(Frame(Top.call.mid, Top.call.next, [Top.call EXCEPT !.left = Text(Top.pieces)]))
    /\ UNCHANGED <<code, text, full>>

ReturnLeft ==
    /\ Returning /\ Top.call.kind = "left"
    /\ ReplaceTop(Frame(Top.call.mid, Top.call.next,
                        [Top.call EXCEPT !.kind = "right", !.left = Text(Top.pieces)]))
    /\ UNCHANGED <<code, text, full>>

ReturnRight ==
    /\ Returning /\ Top.call.kind = "right"
    /\ BackWith(Piece(<<Token("(", {})>> \o Top.call.left \o <<Token("|", {})>>
                        \o Text(Top.pieces) \o <<Token(")", {})>>, 1, 1, TRUE, TRUE))
    /\ UNCHANGED <<code, text, full>>

Rendered ==
    /\ Len(frames) = 1 /\ Top.off >= Top.end
    /\ text' = Text(Top.pieces)
    /\ frames' = <<>>
    /\ UNCHANGED <<code, full>>

RenderStep ==
    \/ Abandon
    \/ ClosePlus \/ EnterRepeat \/ EnterStar \/ EnterAlternation \/ EnterOptional
    \/ RepeatAnyUnit \/ JumpAhead \/ AtomUnit
    \/ ReturnPiece \/ ReturnLeft \/ ReturnRight
    \/ Rendered

RenderNext == (code' \in Codes /\ Start(code')) \/ RenderStep

RenderSpec == RenderInit /\ [][RenderNext]_rvars /\ WF_rvars(RenderStep)

-----------------------------------------------------------------------------
(* Each turn of a loop moves its offset on, also when the turn was a call: *)
(* so the loop in _seq needs no guard to end, and a frame has never taken  *)
(* more turns than it has passed bytes (repattern.py, the guard of _seq).  *)
TurnsAdvance ==
    \A n \in DOMAIN frames : frames[n].turns <= frames[n].off - frames[n].start

(* The guard never cuts a program short: a program of at most MaxTurns     *)
(* bytes is rendered to its end, so `unrecovered` is not reported for its  *)
(* length.                                                                 *)
AllShort == \A c \in Codes : \A o \in DOMAIN c : o < MaxTurns

GuardNeverCuts ==
    AllShort /\ Looping /\ Top.off \in DOMAIN code => Top.turns < MaxTurns
=============================================================================
