------------------------------ MODULE Condition ------------------------------
(***************************************************************************)
(* How yaradec turns the bytecode of a rule's condition back into text:    *)
(* ConditionRecovery in yaradec/code.py, run by decompile (decompile.py).  *)
(*                                                                         *)
(* The recovery walks the instructions once, from first to last, without   *)
(* following a jump, and keeps a stack of expressions in the place of the  *)
(* virtual machine's stack of values.  A loop is recognised by its shape   *)
(* and handed to two nested recoveries, of the iterable and of the body,   *)
(* each on a slice of the instructions and with a stack of its own: here   *)
(* they are the frames of a call stack.                                    *)
(*                                                                         *)
(* A text is a sequence of tokens.  A u64 operand is a number below        *)
(* Dword * Dword: as an arena reference its low half is the buffer and its *)
(* high half the offset.  Notes and warnings are kinds, not sentences.     *)
(***************************************************************************)
EXTENDS Integers, Sequences, FiniteSets, SequencesExt

CONSTANTS
    Dword,          \* the values of half a u64 operand (2^32 in the code)
    SizeofString,   \* SIZEOF_STRING
    StringName,     \* string_names: index -> identifier, <<"$", "a">> or <<"$">>
    RuleName,       \* rule_names: index -> identifier
    SizedString,    \* the sized strings of the pool: offset -> token
    CString,        \* the C strings of the pool: offset -> [name, len]
    Regexp,         \* the regexps of the RE section: offset -> [text, full]
    Slot,           \* the memory slots of loops
    Rules           \* the rules a run starts from

(* A rule is its code, the identifiers of its strings (rule_strings) and,  *)
(* for the checks only, the condition it was compiled from.                *)
Instr == [op : STRING, arg : Nat]
Text  == Seq(STRING)

ASSUME ConditionAssumption ==
    /\ Dword \in Nat \ {0} /\ SizeofString \in Nat \ {0}
    /\ \A r \in Rules : /\ DOMAIN r = {"code", "strings", "source"}
                        /\ r.code \in Seq(Instr)
                        /\ r.strings \in Seq(Text)
                        /\ \A n \in 1 .. Len(r.code) :
                             r.code[n].op = "POP_M" => r.code[n].arg \in Slot

VARIABLES
    rule,       \* the rule being recovered
    frames,     \* the recoveries under way, the innermost last
    notes,      \* the notes they have made
    verdict,    \* "running", then "condition" or "placeholder"
    condition,  \* Rule.condition: the text that is emitted
    warnings    \* what decompile and emit report of this rule

vars == <<rule, frames, notes, verdict, condition, warnings>>

-----------------------------------------------------------------------------
(* Expressions.  Higher binds tighter.                                     *)
Prec == [or |-> 1, and |-> 2, cmp |-> 3, add |-> 4, mul |-> 5, unary |-> 6, atom |-> 7]

NoRaw     == -1     \* no u64 operand is kept
UndefMark == -2     \* the sentinel that PUSH_U leaves on the stack

Expr(text, prec) == [text |-> text, prec |-> Prec[prec], raw |-> NoRaw]
Atom(text)       == Expr(text, "atom")
Sentinel         == [text |-> <<"undefined">>, prec |-> Prec.atom, raw |-> UndefMark]

Paren(e, min) == IF e.prec < min THEN <<"(">> \o e.text \o <<")">> ELSE e.text

CmpOp == [INT_EQ |-> "==", INT_NEQ |-> "!=", INT_LT |-> "<", INT_GT |-> ">",
          INT_LE |-> "<=", INT_GE |-> ">=", DBL_EQ |-> "==", DBL_NEQ |-> "!=",
          DBL_LT |-> "<", DBL_GT |-> ">", DBL_LE |-> "<=", DBL_GE |-> ">=",
          STR_EQ |-> "==", STR_NEQ |-> "!=", STR_LT |-> "<", STR_GT |-> ">",
          STR_LE |-> "<=", STR_GE |-> ">=", MATCHES |-> "matches",
          CONTAINS |-> "contains", ICONTAINS |-> "icontains",
          STARTSWITH |-> "startswith", ISTARTSWITH |-> "istartswith",
          ENDSWITH |-> "endswith", IENDSWITH |-> "iendswith", IEQUALS |-> "iequals"]
AddOp == [INT_ADD |-> "+", INT_SUB |-> "-", DBL_ADD |-> "+", DBL_SUB |-> "-",
          BITWISE_AND |-> "&", BITWISE_OR |-> "|", BITWISE_XOR |-> "^",
          SHL |-> "<<", SHR |-> ">>"]
MulOp == [INT_MUL |-> "*", INT_DIV |-> "\\", DBL_MUL |-> "*", DBL_DIV |-> "\\", MOD |-> "%"]

BinOp == DOMAIN CmpOp \cup DOMAIN AddOp \cup DOMAIN MulOp \cup {"AND", "OR"}

Class(op) == CASE op \in DOMAIN CmpOp -> "cmp"
               [] op \in DOMAIN AddOp -> "add"
               [] op \in DOMAIN MulOp -> "mul"
               [] op = "AND" -> "and"
               [] op = "OR" -> "or"

Symbol(op) == CASE op \in DOMAIN CmpOp -> CmpOp[op]
                [] op \in DOMAIN AddOp -> AddOp[op]
                [] op \in DOMAIN MulOp -> MulOp[op]
                [] op \in {"AND", "OR"} -> Class(op)

DblOp == {"DBL_EQ", "DBL_NEQ", "DBL_LT", "DBL_GT", "DBL_LE", "DBL_GE",
          "DBL_ADD", "DBL_SUB", "DBL_MUL", "DBL_DIV"}

PrefixOp == [NOT |-> <<"not">>, BITWISE_NOT |-> <<"~">>, INT_MINUS |-> <<"-">>,
             DBL_MINUS |-> <<"-">>, DEFINED |-> <<"defined">>]

(* The bits of a kept operand read as a double.                            *)
AsDouble(e) ==
    IF e.raw < 0 THEN e ELSE [e EXCEPT !.text = <<ToString(e.raw) \o "d">>, !.raw = NoRaw]

(* Mutated: no parentheses round a right operand of the same level.        *)
BinaryLoose(op, lhs, rhs) ==
    LET l == IF op \in DblOp THEN AsDouble(lhs) ELSE lhs
        r == IF op \in DblOp THEN AsDouble(rhs) ELSE rhs
        p == Prec[Class(op)]
    IN Expr(Paren(l, p) \o <<Symbol(op)>> \o Paren(r, p), Class(op))

Binary(op, lhs, rhs) ==
    LET l == IF op \in DblOp THEN AsDouble(lhs) ELSE lhs
        r == IF op \in DblOp THEN AsDouble(rhs) ELSE rhs
        p == Prec[Class(op)]
    IN Expr(Paren(l, p) \o <<Symbol(op)>> \o Paren(r, p + 1), Class(op))

-----------------------------------------------------------------------------
(* Operands.                                                               *)
Undef == Dword * Dword - 1

BufferOf(value) == value % Dword
OffsetOf(value) == value \div Dword

STRINGS_TABLE   == 3
SZ_POOL         == 5
RE_CODE_SECTION == 7

IntLiteral(v) == IF v = Undef THEN <<"undefined">> ELSE <<ToString(v)>>

IsStringRef(v) ==
    /\ BufferOf(v) = STRINGS_TABLE
    /\ OffsetOf(v) % SizeofString = 0
    /\ OffsetOf(v) \div SizeofString \in DOMAIN StringName

IsCString(v) == BufferOf(v) = SZ_POOL /\ OffsetOf(v) \in DOMAIN CString

Name(v) == IF IsCString(v) THEN <<CString[OffsetOf(v)].name>> ELSE <<"?">>

RegexLiteral(o) == IF o \in DOMAIN Regexp THEN <<Regexp[o].text>> ELSE <<"/<unrecovered>/">>

RegexNotes(v) ==
    IF v # Undef /\ ~ IsStringRef(v) /\ BufferOf(v) = RE_CODE_SECTION
      THEN IF OffsetOf(v) \notin DOMAIN Regexp THEN {"regexp not decoded"}
           ELSE IF Regexp[OffsetOf(v)].full THEN {} ELSE {"regexp partial"}
      ELSE {}

(* _push_operand: what a PUSH pushes is told from its value alone.         *)
PushedOperand(v) ==
    LET literal == [text |-> IntLiteral(v), prec |-> Prec.atom, raw |-> v]
    IN CASE v = Undef -> literal
         [] v # Undef /\ IsStringRef(v) -> Atom(StringName[OffsetOf(v) \div SizeofString])
         [] v # Undef /\ BufferOf(v) = RE_CODE_SECTION -> Atom(RegexLiteral(OffsetOf(v)))
         [] v # Undef /\ BufferOf(v) = SZ_POOL /\ OffsetOf(v) \in DOMAIN SizedString
              -> Atom(<<SizedString[OffsetOf(v)]>>)
         [] OTHER -> literal

-----------------------------------------------------------------------------
(* _find_loops: a loop is an ITER_START with, before it, the nearest       *)
(* CLEAR_M, CLEAR_M, POP_M and, after it, ITER_NEXT, POP_M, the first      *)
(* INCR_M, PUSH_M, PUSH_M, ITER_CONDITION, and the first ITER_END after    *)
(* that.  (An ITER_START this near the end of the code that the code reads *)
(* beyond it does not occur in a compiled rule.)                           *)
IterStart == {"ITER_START_ARRAY", "ITER_START_DICT", "ITER_START_INT_RANGE",
              "ITER_START_INT_ENUM", "ITER_START_STRING_SET", "ITER_START_TEXT_STRING_SET"}
SetLoop   == {"ITER_START_STRING_SET", "ITER_START_TEXT_STRING_SET"}
IntLoop   == {"ITER_START_INT_RANGE", "ITER_START_INT_ENUM"}

PoppingJump == {"JFALSE_P", "JTRUE_P", "JUNDEF_P", "JNUNDEF_P", "JZ_P", "JL_P", "JLE_P"}

Occurs(c, ops, j) == \A n \in 1 .. Len(ops) : j + n - 1 <= Len(c) /\ c[j + n - 1].op = ops[n]

HeadersBefore(c, s) == {j \in 1 .. s - 3 : Occurs(c, <<"CLEAR_M", "CLEAR_M", "POP_M">>, j)}

(* Mutated: the jump after POP_M is left in the body.                      *)
BodyFirstJump(c, s) == s + 3

BodyFirst(c, s) == IF c[s + 3].op \in PoppingJump THEN s + 4 ELSE s + 3

(* Mutated: the last epilogue counts.                                      *)
BodyEndsLast(c, s) ==
    LET all == {j \in BodyFirst(c, s) .. Len(c) :
                  Occurs(c, <<"INCR_M", "PUSH_M", "PUSH_M", "ITER_CONDITION">>, j)}
    IN {j \in all : \A k \in all : k <= j}

BodyEnds(c, s) ==
    {j \in BodyFirst(c, s) .. Len(c) :
        Occurs(c, <<"INCR_M", "PUSH_M", "PUSH_M", "ITER_CONDITION">>, j)}

LoopEnds(c, s) == {j \in Min(BodyEnds(c, s)) .. Len(c) : c[j].op = "ITER_END"}

IsLoop(c, s) ==
    /\ c[s].op \in IterStart
    /\ HeadersBefore(c, s) # {}
    /\ Occurs(c, <<"ITER_NEXT", "POP_M">>, s + 1) /\ s + 3 <= Len(c)
    /\ BodyEnds(c, s) # {}
    /\ LoopEnds(c, s) # {}

Header(c, s) == Max(HeadersBefore(c, s))

Shape(c, s) ==
    [kind     |-> c[s].op,
     slot     |-> c[s + 2].arg,
     iterable |-> SubSeq(c, Header(c, s) + 3, s - 1),
     body     |-> SubSeq(c, BodyFirst(c, s), Min(BodyEnds(c, s)) - 1),
     end      |-> Min(LoopEnds(c, s))]

(* The loops by their first instruction; of two that share it the later.   *)
FindLoops(c) ==
    LET starts == {s \in 1 .. Len(c) : IsLoop(c, s)}
    IN [h \in {Header(c, s) : s \in starts} |->
          Shape(c, Max({s \in starts : Header(c, s) = h}))]

-----------------------------------------------------------------------------
(* One recovery: its code, the loops in it and its place, its stack, and   *)
(* what ended it.                                                          *)
Unbound == <<>>

Frame(role, code, multi, bindings) ==
    [role |-> role, code |-> code, loops |-> FindLoops(code), pos |-> 1, stack |-> <<>>, complete |-> TRUE,
     failed |-> FALSE, multi |-> multi, bindings |-> bindings,
     quantifier |-> <<>>, iterable |-> <<>>]

Top      == frames[Len(frames)]
Caller   == frames[Len(frames) - 1]
Ins      == Top.code[Top.pos]
AtLoop   == Top.pos \in DOMAIN Top.loops
CallerLoop == Caller.loops[Caller.pos]
Finished(f) == f.failed \/ f.pos > Len(f.code)

Running == verdict = "running"
At(ops) == Running /\ ~ Finished(Top) /\ Ins.op \in ops /\ ~ AtLoop

(* The n-th value popped from the top frame's stack, as pop() gives it:    *)
(* from an empty stack a marker, from the sentinel the word.               *)
Arg(n) ==
    LET st == Top.stack IN
    IF n > Len(st) THEN Atom(<<"<underflow>">>)
    ELSE LET e == st[Len(st) - n + 1]
         IN IF e.raw = UndefMark THEN Atom(<<"undefined">>) ELSE e

(* Mutated: a pop of an empty stack is not remembered.                     *)
PoppedQuietly(n) == [Top EXCEPT !.stack = SubSeq(@, 1, Len(@) - n)]

(* The top frame after n pops.                                             *)
Popped(n) ==
    [Top EXCEPT !.stack = SubSeq(@, 1, Len(@) - n),
                !.complete = @ /\ n <= Len(Top.stack)]

Goes(f)    == [f EXCEPT !.pos = @ + 1]
Pushing(f, e) == [f EXCEPT !.stack = Append(@, e)]

Continue(f) ==
    /\ frames' = [frames EXCEPT ![Len(frames)] = f]
    /\ UNCHANGED <<rule, verdict, condition, warnings>>

Reduce(n, e) == Continue(Goes(Pushing(Popped(n), e))) /\ UNCHANGED notes

(* run returns None in the middle of the code.                             *)
Fail(f, note) ==
    /\ Continue([f EXCEPT !.failed = TRUE])
    /\ notes' = notes \cup {note}

-----------------------------------------------------------------------------
Init ==
    /\ rule \in Rules
    /\ frames = <<Frame("rule", rule.code, FALSE, [s \in Slot |-> Unbound])>>
    /\ notes = {}
    /\ verdict = "running" /\ condition = <<>> /\ warnings = {}

(* Jumps that leave the stack alone, and opcodes that change no text.      *)
NeutralOp == {"JFALSE", "JTRUE", "JNUNDEF", "JUNDEF", "JZ", "NOP", "INIT_RULE", "MATCH_RULE",
              "HALT", "IMPORT", "OBJ_VALUE", "INT_TO_DBL", "STR_TO_BOOL", "SWAPUNDEF"}

Skip == At(NeutralOp) /\ Continue(Goes(Top)) /\ UNCHANGED notes

JumpPopping == At(PoppingJump) /\ Continue(Goes(Popped(1))) /\ UNCHANGED notes

Push ==
    /\ At({"PUSH"})
    /\ Continue(Goes(Pushing(Top, PushedOperand(Ins.arg))))
    /\ notes' = notes \cup RegexNotes(Ins.arg)

PushShort == At({"PUSH_8", "PUSH_16", "PUSH_32"}) /\ Reduce(0, Atom(IntLiteral(Ins.arg)))

PushUndefined == At({"PUSH_U"}) /\ Reduce(0, Sentinel)

RuleText(n) == IF n \in DOMAIN RuleName THEN <<RuleName[n]>> ELSE <<"rule_" \o ToString(n)>>

PushRule == At({"PUSH_RULE"}) /\ Reduce(0, Atom(RuleText(Ins.arg)))

PushWord ==
    \/ At({"FILESIZE"}) /\ Reduce(0, Atom(<<"filesize">>))
    \/ At({"ENTRYPOINT"}) /\ Reduce(0, Atom(<<"entrypoint">>))

Binding(slot) == IF slot \in Slot THEN Top.bindings[slot] ELSE Unbound

PushSlot ==
    /\ At({"PUSH_M"}) /\ Binding(Ins.arg) # Unbound
    /\ Reduce(0, Atom(Binding(Ins.arg)))

PushUnbound ==
    /\ At({"PUSH_M"}) /\ Binding(Ins.arg) = Unbound
    /\ Fail([Top EXCEPT !.complete = FALSE], "unbound slot")

-----------------------------------------------------------------------------
(* Strings.  A count, an offset or a length writes its own sigil for the   *)
(* "$" of the identifier.                                                  *)
Bare(s) == IF s # <<>> /\ s[1] = "$" THEN Tail(s) ELSE s

Interval(lo, hi) == <<"(">> \o lo.text \o <<"..">> \o hi.text \o <<")">>

Indexed(base, index) ==
    IF index.text = <<"1">> THEN base ELSE base \o <<"[">> \o index.text \o <<"]">>

StringOp ==
    \/ At({"FOUND"}) /\ Reduce(1, Atom(Arg(1).text))
    \/ At({"COUNT"}) /\ Reduce(1, Atom(<<"#">> \o Bare(Arg(1).text)))
    \/ At({"LENGTH"}) /\ Reduce(2, Atom(Indexed(<<"!">> \o Bare(Arg(1).text), Arg(2))))
    \/ At({"OFFSET"}) /\ Reduce(2, Atom(Indexed(<<"@">> \o Bare(Arg(1).text), Arg(2))))
    \/ At({"FOUND_AT"})
         /\ Reduce(2, Expr(Arg(1).text \o <<"at">> \o Paren(Arg(2), Prec.cmp), "cmp"))
    \/ At({"FOUND_IN"})
         /\ Reduce(3, Expr(Arg(1).text \o <<"in">> \o Interval(Arg(3), Arg(2)), "cmp"))
    \/ At({"COUNT_IN"})
         /\ Reduce(3, Expr(<<"#">> \o Bare(Arg(1).text) \o <<"in">> \o Interval(Arg(3), Arg(2)),
                           "cmp"))

-----------------------------------------------------------------------------
(* The `of' family.  The set is what was pushed since the last sentinel;   *)
(* under it is the quantifier.                                             *)
Count(seq, x) == Cardinality({n \in 1 .. Len(seq) : seq[n] = x})

SameBag(s, t) ==
    /\ Len(s) = Len(t)
    /\ \A n \in 1 .. Len(s) : Count(s, s[n]) = Count(t, s[n])

Joined(texts) ==
    LET upTo[n \in 0 .. Len(texts)] ==
            IF n = 0 THEN <<>>
            ELSE IF n = 1 THEN texts[1]
            ELSE upTo[n - 1] \o <<",">> \o texts[n]
    IN upTo[Len(texts)]

Quantified(text) == IF text = <<"undefined">> THEN <<"all">> ELSE text

IsAnonymous(text) == text = <<"$">>

IsThem(members) == rule.strings # <<>> /\ SameBag(members, rule.strings)

SetText(members) ==
    IF IsThem(members) THEN <<"them">> ELSE <<"(">> \o Joined(members) \o <<")">>

OfOp == {"OF", "OF_PERCENT", "OF_FOUND_IN", "OF_FOUND_AT"}

OfExtra(op) == CASE op = "OF_FOUND_AT" -> 1 [] op = "OF_FOUND_IN" -> 2 [] OTHER -> 0

(* The places, from the top, of the sentinels below the extra operands.    *)
Sentinels ==
    {n \in OfExtra(Ins.op) + 1 .. Len(Top.stack) :
        Top.stack[Len(Top.stack) - n + 1].raw = UndefMark}

SetMembers ==
    LET n == Min(Sentinels) - OfExtra(Ins.op) - 1
    IN [m \in 1 .. n |-> Arg(Min(Sentinels) - m).text]

OfText(quantifier, members) ==
    Quantified(quantifier)
      \o (IF Ins.op = "OF_PERCENT" THEN <<"%">> ELSE <<>>)
      \o <<"of">> \o SetText(members)
      \o (CASE Ins.op = "OF_FOUND_AT" -> <<"at">> \o Paren(Arg(1), Prec.cmp)
            [] Ins.op = "OF_FOUND_IN" -> <<"in">> \o Interval(Arg(2), Arg(1))
            [] OTHER -> <<>>)

SetWritable(members) ==
    IsThem(members) \/ \A n \in 1 .. Len(members) : ~ IsAnonymous(members[n])

Of ==
    /\ At(OfOp) /\ Sentinels # {} /\ SetWritable(SetMembers)
    /\ Reduce(Min(Sentinels) + 1,
              Expr(OfText(Arg(Min(Sentinels) + 1).text, SetMembers), "cmp"))

OfNoSet ==
    /\ At(OfOp) /\ Sentinels = {}
    /\ Fail([Popped(Len(Top.stack)) EXCEPT !.complete = FALSE], "set not delimited")

OfAnonymous ==
    /\ At(OfOp) /\ Sentinels # {} /\ ~ SetWritable(SetMembers)
    /\ Fail([Popped(Min(Sentinels) + 1) EXCEPT !.complete = FALSE], "anonymous strings")

-----------------------------------------------------------------------------
Prefixed ==
    /\ At(DOMAIN PrefixOp)
    /\ Reduce(1, Expr(PrefixOp[Ins.op] \o Paren(Arg(1), Prec.unary), "unary"))

BinaryOp == At(BinOp) /\ Reduce(2, Binary(Ins.op, Arg(2), Arg(1)))

(* Objects of modules, calls and integer reads.                            *)
ObjectOp ==
    \/ At({"OBJ_LOAD"}) /\ Reduce(0, Atom(Name(Ins.arg)))
    \/ At({"OBJ_FIELD"}) /\ Reduce(1, Atom(Arg(1).text \o <<".">> \o Name(Ins.arg)))
    \/ At({"INDEX_ARRAY", "LOOKUP_DICT"})
         /\ Reduce(2, Atom(Arg(2).text \o <<"[">> \o Arg(1).text \o <<"]">>))

Call ==
    /\ At({"CALL"}) /\ IsCString(Ins.arg)
    /\ LET argc == CString[OffsetOf(Ins.arg)].len
           args == [n \in 1 .. argc |-> Arg(argc - n + 1).text]
       IN Reduce(argc + 1, Atom(Arg(argc + 1).text \o <<"(">> \o Joined(args) \o <<")">>))

CallUnreadable ==
    /\ At({"CALL"}) /\ ~ IsCString(Ins.arg)
    /\ Fail([Top EXCEPT !.complete = FALSE], "call signature")

ReadInt == {"INT8", "INT16", "INT32", "UINT8", "UINT16", "UINT32",
            "INT8BE", "INT16BE", "INT32BE", "UINT8BE", "UINT16BE", "UINT32BE"}

ReadInteger ==
    At(ReadInt) /\ Reduce(1, Atom(<<Ins.op, "(">> \o Arg(1).text \o <<")">>))

Handled == NeutralOp \cup PoppingJump \cup OfOp \cup DOMAIN PrefixOp \cup BinOp \cup ReadInt
             \cup {"PUSH", "PUSH_8", "PUSH_16", "PUSH_32", "PUSH_U", "PUSH_RULE", "PUSH_M",
                   "FILESIZE", "ENTRYPOINT", "FOUND", "COUNT", "LENGTH", "OFFSET", "FOUND_AT",
                   "FOUND_IN", "COUNT_IN", "OBJ_LOAD", "OBJ_FIELD", "INDEX_ARRAY",
                   "LOOKUP_DICT", "CALL"}

Unhandled ==
    /\ Running /\ ~ Finished(Top) /\ ~ AtLoop /\ Ins.op \notin Handled
    /\ Fail([Top EXCEPT !.complete = FALSE], "unhandled opcode")

-----------------------------------------------------------------------------
(* Loops.  _recover_loop runs a recovery on the iterable, then one on the  *)
(* body, and pushes what the two give, with the quantifier, as one value.  *)
Left(f) ==
    LET upTo[n \in 0 .. Len(f.stack)] ==
            IF n = 0 THEN <<>>
            ELSE IF f.stack[n].raw = UndefMark THEN upTo[n - 1]
            ELSE Append(upTo[n - 1], f.stack[n])
    IN upTo[Len(f.stack)]

(* What run returns: a text only of a complete walk that leaves one value. *)
Recovered(f) == ~ f.failed /\ f.complete /\ Len(Left(f)) = 1
Result(f)    == Left(f)[1].text

CountNotes(f) ==
    IF ~ f.failed /\ f.complete /\ Len(Left(f)) # 1 THEN {"one value expected"} ELSE {}

(* What run_multi returns of a walk that came to its end, complete or not. *)
Values(f) == [n \in 1 .. Len(Left(f)) |-> Left(f)[n].text]

EnterLoop ==
    /\ Running /\ ~ Finished(Top) /\ AtLoop
    /\ LET loop == Top.loops[Top.pos]
           asked == [Popped(1) EXCEPT !.quantifier = Quantified(Arg(1).text)]
           multi == loop.kind \in SetLoop \cup {"ITER_START_INT_RANGE"}
       IN frames' = Append([frames EXCEPT ![Len(frames)] = asked],
                           Frame("iterable", loop.iterable, multi, Top.bindings))
    /\ UNCHANGED <<rule, notes, verdict, condition, warnings>>

IterableDone == Running /\ Finished(Top) /\ Top.role = "iterable"
OverStrings  == CallerLoop.kind \in SetLoop

(* The last value of a string set is the number of the others.             *)
IsNumber(text) == Len(text) = 1 /\ \E n \in 0 .. Dword * Dword : text = <<ToString(n)>>

Counted(values) ==
    /\ Len(values) >= 2
    /\ values[Len(values)] = <<ToString(Len(values) - 1)>>

Members(values) == IF Counted(values) THEN Front(values) ELSE values

MemberNotes(values) ==
    IF Len(values) >= 2 /\ IsNumber(values[Len(values)]) /\ ~ Counted(values)
      THEN {"set cardinality"} ELSE {}

(* The variable of a loop has lost its name: the first of a pool that no   *)
(* enclosing loop has taken.                                               *)
VarNames    == <<"i", "j", "k", "n", "m">>
ObjVarNames == <<"item", "elem", "entry", "value">>

LoopVar(loop, bindings) ==
    LET pool == IF loop.kind \in IntLoop THEN VarNames ELSE ObjVarNames
        free == {n \in 1 .. Len(pool) : <<pool[n]>> \notin {bindings[s] : s \in Slot}}
    IN IF loop.kind \in SetLoop THEN <<"$">>
       ELSE IF free = {} THEN <<"v" \o ToString(loop.slot)>> ELSE <<pool[Min(free)]>>

(* The iterable is known: its recovery ends and that of the body begins.   *)
OpenBody(iterable) ==
    /\ LET bound == [Caller.bindings EXCEPT ![CallerLoop.slot] =
                        LoopVar(CallerLoop, Caller.bindings)]
       IN frames' = Append([Front(frames) EXCEPT ![Len(frames) - 1].iterable = iterable],
                           Frame("body", CallerLoop.body, FALSE, bound))
    /\ UNCHANGED <<rule, verdict, condition, warnings>>

(* The caller's run returns None too.                                      *)
FailCaller(why) ==
    /\ frames' = [Front(frames) EXCEPT ![Len(frames) - 1].failed = TRUE]
    /\ notes' = notes \cup why
    /\ UNCHANGED <<rule, verdict, condition, warnings>>

SetIterated ==
    /\ IterableDone /\ OverStrings /\ ~ Top.failed
    /\ LET members == Members(Values(Top)) IN
         /\ SetWritable(members)
         /\ OpenBody(SetText(members))
    /\ notes' = notes \cup MemberNotes(Values(Top))

SetAnonymous ==
    /\ IterableDone /\ OverStrings /\ ~ Top.failed
    /\ ~ SetWritable(Members(Values(Top)))
    /\ FailCaller(MemberNotes(Values(Top)) \cup {"loop anonymous strings"})

RangeIterated ==
    /\ IterableDone /\ CallerLoop.kind = "ITER_START_INT_RANGE"
    /\ ~ Top.failed /\ Len(Left(Top)) = 2
    /\ OpenBody(Interval(Left(Top)[1], Left(Top)[2])) /\ UNCHANGED notes

ValueIterated ==
    /\ IterableDone /\ ~ Top.multi /\ Recovered(Top)
    /\ OpenBody(Result(Top)) /\ UNCHANGED notes

IterableLost ==
    /\ IterableDone
    /\ \/ Top.failed
       \/ CallerLoop.kind = "ITER_START_INT_RANGE" /\ Len(Left(Top)) # 2
       \/ ~ Top.multi /\ ~ Recovered(Top)
    /\ FailCaller({"iterable lost"} \cup IF Top.multi THEN {} ELSE CountNotes(Top))

BodyDone == Running /\ Finished(Top) /\ Top.role = "body"

LoopText ==
    <<"for">> \o Caller.quantifier
      \o (IF OverStrings THEN <<>> ELSE Top.bindings[CallerLoop.slot])
      \o <<IF OverStrings THEN "of" ELSE "in">> \o Caller.iterable
      \o <<":", "(">> \o Result(Top) \o <<")">>

(* Mutated: skip_until one too far; the header again; shared bindings.     *)
BodyRecoveredPast ==
    /\ BodyDone /\ Recovered(Top)
    /\ frames' = Append(Front(Front(frames)),
                        [Pushing(Caller, Expr(LoopText, "cmp")) EXCEPT !.pos = CallerLoop.end + 2])
    /\ UNCHANGED <<rule, notes, verdict, condition, warnings>>

BodyRecoveredAgain ==
    /\ BodyDone /\ Recovered(Top)
    /\ frames' = Append(Front(Front(frames)), Caller)
    /\ UNCHANGED <<rule, notes, verdict, condition, warnings>>

BodyRecoveredLeak ==
    /\ BodyDone /\ Recovered(Top)
    /\ frames' = Append(Front(Front(frames)),
                        [Pushing(Caller, Expr(LoopText, "cmp"))
                           EXCEPT !.pos = CallerLoop.end + 1, !.bindings = Top.bindings])
    /\ UNCHANGED <<rule, notes, verdict, condition, warnings>>

BodyRecovered ==
    /\ BodyDone /\ Recovered(Top)
    /\ frames' = Append(Front(Front(frames)),
                        [Pushing(Caller, Expr(LoopText, "cmp")) EXCEPT !.pos = CallerLoop.end + 1])
    /\ UNCHANGED <<rule, notes, verdict, condition, warnings>>

BodyLost ==
    /\ BodyDone /\ ~ Recovered(Top)
    /\ FailCaller({"body lost"} \cup CountNotes(Top))

-----------------------------------------------------------------------------
(* decompile and render_rule: a rule gets its condition and the notes are  *)
(* forgotten, or a placeholder and the notes are reported.                 *)
RuleDone == Running /\ Finished(Top) /\ Top.role = "rule"

EmitCondition ==
    /\ RuleDone /\ Recovered(Top)
    /\ verdict' = "condition" /\ condition' = Result(Top)
    /\ UNCHANGED <<rule, frames, notes, warnings>>

Placeholder ==
    IF rule.strings = <<>> THEN <<"false">> ELSE <<"false", "and", "any", "of", "them">>

EmitPlaceholder ==
    /\ RuleDone /\ ~ Recovered(Top)
    /\ verdict' = "placeholder" /\ condition' = Placeholder
    /\ notes' = notes \cup CountNotes(Top)
    /\ warnings' = notes' \cup {"condition not reconstructed"}
    /\ UNCHANGED <<rule, frames>>

-----------------------------------------------------------------------------
Walk ==
    \/ Skip \/ JumpPopping \/ Push \/ PushShort \/ PushUndefined \/ PushRule \/ PushWord
    \/ PushSlot \/ PushUnbound \/ StringOp \/ Of \/ OfNoSet \/ OfAnonymous \/ Prefixed
    \/ BinaryOp \/ ObjectOp \/ Call \/ CallUnreadable \/ ReadInteger \/ Unhandled

Loop ==
    \/ EnterLoop \/ SetIterated \/ SetAnonymous \/ RangeIterated
    \/ ValueIterated \/ IterableLost \/ BodyRecovered \/ BodyLost

Emit == EmitCondition \/ EmitPlaceholder

(* The recovery of a rule is over; the pipeline goes on to the next.       *)
Over == ~ Running /\ UNCHANGED vars

Next == Walk \/ Loop \/ Emit \/ Over

Spec == Init /\ [][Next]_vars /\ WF_vars(Walk \/ Loop \/ Emit)

-----------------------------------------------------------------------------
(* Properties.                                                             *)
Note == {"regexp not decoded", "regexp partial", "unbound slot", "set not delimited",
         "anonymous strings", "call signature", "unhandled opcode", "one value expected",
         "set cardinality", "loop anonymous strings", "iterable lost", "body lost"}

(* The words that the recovery writes of itself; and all words but what    *)
(* pop() gives for an empty stack.  That is no name and no number, and no  *)
(* literal either: those of strings and of regexps have their delimiters.  *)
FixedWords ==
    {CmpOp[op] : op \in DOMAIN CmpOp} \cup {AddOp[op] : op \in DOMAIN AddOp}
      \cup {MulOp[op] : op \in DOMAIN MulOp} \cup ReadInt
      \cup {VarNames[n] : n \in 1 .. 5} \cup {ObjVarNames[n] : n \in 1 .. 4}
      \cup {"and", "or", "not", "~", "-", "defined", "undefined", "filesize", "entrypoint",
            "(", ")", "[", "]", "..", ".", ",", ":", "%", "#", "!", "@", "$", "?", "at", "in",
            "of", "all", "any", "them", "for", "false", "/<unrecovered>/"}

Word == STRING \ {"<underflow>"}

ASSUME SpellingAssumption ==
    /\ FixedWords \subseteq Word /\ "<underflow>" \in STRING
    /\ \A n \in DOMAIN StringName : StringName[n] \in Seq(Word)
    /\ \A n \in DOMAIN RuleName : RuleName[n] \in Word
    /\ \A o \in DOMAIN SizedString : SizedString[o] \in Word
    /\ \A o \in DOMAIN CString : CString[o].name \in Word /\ CString[o].len \in Nat
    /\ \A o \in DOMAIN Regexp : Regexp[o].text \in Word
    /\ \A r \in Rules : \A n \in 1 .. Len(r.code) :
         {ToString(r.code[n].arg), ToString(r.code[n].arg) \o "d",
          "rule_" \o ToString(r.code[n].arg)} \subseteq Word
    /\ \A s \in Slot : "v" \o ToString(s) \in Word

FrameOK(f) ==
    /\ f.role \in {"rule", "iterable", "body"} /\ f.multi \in BOOLEAN
    /\ f.code \in Seq(Instr) /\ f.pos \in 1 .. Len(f.code) + 1
    /\ f.stack \in Seq([text : Text, prec : 1 .. 7, raw : Int])
    /\ f.complete \in BOOLEAN /\ f.failed \in BOOLEAN
    /\ f.bindings \in [Slot -> Text] /\ f.quantifier \in Text /\ f.iterable \in Text

(* The state's shape.  A recovery never stands beyond the end of its code  *)
(* by more than one: the walk of ConditionRecovery.run, with its           *)
(* skip_until, resumes within the code or ends.                            *)
TypeOK ==
    /\ rule.code \in Seq(Instr) /\ rule.strings \in Seq(Text)
    /\ Len(frames) >= 1 /\ \A n \in 1 .. Len(frames) : FrameOK(frames[n])
    /\ notes \subseteq Note
    /\ verdict \in {"running", "condition", "placeholder"} /\ condition \in Text
    /\ warnings \subseteq Note \cup {"condition not reconstructed"}

(* No code, compiled or not, makes the recovery of a loop's iterable or    *)
(* body meet a loop: the slices that _find_loops cuts never hold a whole   *)
(* one, so the nesting that _sub_run guards against cannot happen, and a   *)
(* loop within a loop is always lost.                                      *)
LoopsNeverNest == Len(frames) <= 2

(* Without a loop, what pop() gives for an empty stack never gets into an  *)
(* emitted condition: `complete' remembers it to the end of run.           *)
HasLoop(c) == \E s \in 1 .. Len(c) : c[s].op \in IterStart

UnderflowNeverEmitted ==
    verdict = "condition" /\ ~ HasLoop(rule.code)
      => \A n \in 1 .. Len(condition) : condition[n] # "<underflow>"

(* The promise of the README with the loops: "never a silently empty or    *)
(* wrong condition".                                                       *)
MarkerNeverEmitted ==
    verdict = "condition" => \A n \in 1 .. Len(condition) : condition[n] # "<underflow>"

(* What the recovery noted as lost is reported: decompile keeps the notes  *)
(* of a rule only when it has no condition.                                *)
LossReported == ~ Running /\ notes # {} => warnings # {}

(* Every rule is recovered or given up: the linear walk, the slices of its *)
(* loops and the resumption after them come to an end.                     *)
RecoveryEnds == <>(~ Running)

(* The rule is given its condition.                                        *)
ConditionRecovered == (rule.source # <<>>) ~> (verdict = "condition")
=============================================================================
