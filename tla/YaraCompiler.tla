---------------------------- MODULE YaraCompiler -----------------------------
(***************************************************************************)
(* What YARA compiles a condition to (external: libyara/grammar.y, as the  *)
(* shapes that yaradec/code.py expects describe it).  A piece is a source  *)
(* expression: its bytecode and its canonical text (see YaraGrammar).      *)
(* Larger pieces are built of smaller ones, as the grammar's actions emit  *)
(* the code of an expression after that of its parts.                      *)
(***************************************************************************)
EXTENDS YaraGrammar

CONSTANTS Dword, SizeofString

Ins(op, arg)   == <<[op |-> op, arg |-> arg]>>
Op(op)         == Ins(op, 0)
Ref(buffer, offset) == buffer + Dword * offset
Piece(code, text)   == [code |-> code, text |-> text]

-----------------------------------------------------------------------------
(* Operands.                                                               *)
FileSize     == Piece(Op("FILESIZE"), <<"filesize">>)
EntryPoint   == Piece(Op("ENTRYPOINT"), <<"entrypoint">>)
Small(n)     == Piece(Ins("PUSH_8", n), <<ToString(n)>>)
Large(n)     == Piece(Ins("PUSH", n), <<ToString(n)>>)
Double(n)    == Piece(Ins("PUSH", n), <<ToString(n) \o "d">>)
Words(o, token)  == Piece(Ins("PUSH", Ref(5, o)), <<token>>)
Regex(o, token)  == Piece(Ins("PUSH", Ref(7, o)), <<token>>)
RuleNamed(n, name) == Piece(Ins("PUSH_RULE", n), <<name>>)
ModuleNamed(o, name) == Piece(Ins("OBJ_LOAD", Ref(5, o)), <<name>>)
Field(x, o, name) == Piece(x.code \o Ins("OBJ_FIELD", Ref(5, o)), x.text \o <<".", name>>)
Item(x, op, i) == Piece(x.code \o i.code \o Op(op), x.text \o <<"[">> \o i.text \o <<"]">>)
Value(x)     == Piece(x.code \o Op("OBJ_VALUE"), x.text)
Applied(f, x, o) == Piece(f.code \o x.code \o Ins("CALL", Ref(5, o)), f.text \o List(<<x.text>>))
ReadAs(op, x) == Piece(x.code \o Op(op), <<op>> \o List(<<x.text>>))

(* Operators.                                                              *)
Minus(x)   == Piece(x.code \o Op("INT_MINUS"), Prefix("-", x.text))
BitNot(x)  == Piece(x.code \o Op("BITWISE_NOT"), Prefix("~", x.text))
Not(x)     == Piece(x.code \o Op("NOT"), Prefix("not", x.text))
Defined(x) == Piece(x.code \o Op("DEFINED"), Prefix("defined", x.text))
Both(op, sym, x, y) == Piece(x.code \o y.code \o Op(op), Infix(sym, x.text, y.text))
And(x, y)  == Piece(x.code \o Op("JFALSE") \o y.code \o Op("AND"), Infix("and", x.text, y.text))
Or(x, y)   == Piece(x.code \o Op("JTRUE") \o y.code \o Op("OR"), Infix("or", x.text, y.text))
ToDouble(x) == Piece(x.code \o Op("INT_TO_DBL"), x.text)

-----------------------------------------------------------------------------
(* Strings: one of the rule, or the one that a loop over strings is at.    *)
StringNamed(n, id) == Piece(Ins("PUSH", Ref(3, n * SizeofString)), <<id>>)
Anonymous(n)       == Piece(Ins("PUSH", Ref(3, n * SizeofString)), <<>>)
TheString(slot)    == Piece(Ins("PUSH_M", slot), <<>>)

Sigil(c, s)   == <<c>> \o s.text
Found(s)      == Piece(s.code \o Op("FOUND"), Sigil("$", s))
FoundAt(s, x) == Piece(x.code \o s.code \o Op("FOUND_AT"), Node(Sigil("$", s) \o <<"at">> \o x.text))
FoundIn(s, lo, hi) ==
    Piece(lo.code \o hi.code \o s.code \o Op("FOUND_IN"),
          Node(Sigil("$", s) \o <<"in">> \o Between(lo.text, hi.text)))
CountOf(s)    == Piece(s.code \o Op("COUNT"), Sigil("#", s))
CountIn(s, lo, hi) ==
    Piece(lo.code \o hi.code \o s.code \o Op("COUNT_IN"),
          Node(Sigil("#", s) \o <<"in">> \o Between(lo.text, hi.text)))
OffsetOfMatch(s, x) == Piece(x.code \o s.code \o Op("OFFSET"), Sigil("@", s) \o <<"[">> \o x.text \o <<"]">>)
LengthOfMatch(s, x) == Piece(x.code \o s.code \o Op("LENGTH"), Sigil("!", s) \o <<"[">> \o x.text \o <<"]">>)

-----------------------------------------------------------------------------
(* Quantified sets.  members is a sequence of strings or rules; `all' is   *)
(* an undefined value, as is the mark before the members.                  *)
All == Piece(Op("PUSH_U"), <<"all">>)

Flat(pieces) ==
    LET code[n \in 0 .. Len(pieces)] == IF n = 0 THEN <<>> ELSE code[n - 1] \o pieces[n].code
    IN code[Len(pieces)]

StringSet(members) ==
    Piece(Op("PUSH_U") \o Flat(members), List([n \in DOMAIN members |-> Sigil("$", members[n])]))
RuleSet(members) ==
    Piece(Op("PUSH_U") \o Flat(members), List([n \in DOMAIN members |-> members[n].text]))

AnyOf(q, set)     == Piece(q.code \o set.code \o Op("OF"), OfNode(q.text, set.text, <<>>))
PercentOf(q, set) == Piece(q.code \o set.code \o Op("OF_PERCENT"), OfNode(q.text \o <<"%">>, set.text, <<>>))
AnyOfAt(q, set, x) ==
    Piece(q.code \o set.code \o x.code \o Op("OF_FOUND_AT"), OfNode(q.text, set.text, <<"at">> \o x.text))
AnyOfIn(q, set, lo, hi) ==
    Piece(q.code \o set.code \o lo.code \o hi.code \o Op("OF_FOUND_IN"),
          OfNode(q.text, set.text, <<"in">> \o Between(lo.text, hi.text)))

-----------------------------------------------------------------------------
(* Loops.  A loop has five memory slots from frame on; its variable is in  *)
(* the fourth.  What it iterates is its operands and the opcode that       *)
(* starts it.                                                              *)
VariableSlot(frame) == frame + 3
Variable(frame, depth) == Piece(Ins("PUSH_M", VariableSlot(frame)), LoopVariable(depth))

OverRange(lo, hi) ==
    [code |-> lo.code \o hi.code \o Op("ITER_START_INT_RANGE"), text |-> Between(lo.text, hi.text), over |-> "in"]
OverInts(x, y) ==
    [code |-> x.code \o y.code \o Ins("PUSH_8", 2) \o Op("ITER_START_INT_ENUM"),
     text |-> List(<<x.text, y.text>>), over |-> "in"]
OverArray(x) == [code |-> x.code \o Op("ITER_START_ARRAY"), text |-> x.text, over |-> "in"]
OverStrings(set, size) ==
    [code |-> set.code \o Ins("PUSH_8", size) \o Op("ITER_START_STRING_SET"),
     text |-> set.text, over |-> "of"]

ForLoop(frame, q, iterable, body) ==
    Piece(q.code \o Ins("CLEAR_M", frame) \o Ins("CLEAR_M", frame + 1) \o Ins("POP_M", frame + 2)
            \o iterable.code \o Op("ITER_NEXT") \o Ins("POP_M", VariableSlot(frame)) \o Op("JTRUE_P")
            \o body.code
            \o Ins("INCR_M", frame + 1) \o Ins("PUSH_M", frame) \o Ins("PUSH_M", frame + 2)
            \o Op("ITER_CONDITION") \o Ins("ADD_M", frame) \o Op("JTRUE_P") \o Op("POP")
            \o Ins("PUSH_M", frame + 1) \o Ins("PUSH_M", frame) \o Ins("PUSH_M", frame + 2) \o Op("ITER_END"),
          ForNode(q.text, iterable.over, iterable.text, body.text))

-----------------------------------------------------------------------------
Compiled(x, strings) == [code |-> x.code, strings |-> strings, source |-> x.text]
=============================================================================
