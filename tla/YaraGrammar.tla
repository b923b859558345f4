----------------------------- MODULE YaraGrammar -----------------------------
(***************************************************************************)
(* How YARA reads a condition (external: libyara/grammar.y, as far as the  *)
(* conditions that yaradec writes use it).  Canonical(text, strings) reads *)
(* a sequence of tokens and writes back the expression it stands for with  *)
(* every operator in parentheses, every loop variable named by the depth   *)
(* of its loop and every set of strings in full, so that two texts mean    *)
(* the same to YARA when their canonical forms are equal.                  *)
(*                                                                         *)
(* The declarations of grammar.y, loosest first:                           *)
(*    or | and | not defined | == != contains matches ... | < <= > >=      *)
(*       | bitwise or | ^ | & | << >> | + - | * \ % | ~ unary -            *)
(***************************************************************************)
EXTENDS Naturals, Sequences, TLC

Level == [or |-> 1, and |-> 2] @@
         [sym \in {"==", "!=", "contains", "icontains", "startswith", "istartswith", "endswith",
                   "iendswith", "iequals", "matches"} |-> 4] @@
         [sym \in {"<", "<=", ">", ">="} |-> 5] @@
         ("|" :> 6) @@ ("^" :> 7) @@ ("&" :> 8) @@ [sym \in {"<<", ">>"} |-> 9] @@
         [sym \in {"+", "-"} |-> 10] @@ [sym \in {"*", "\\", "%"} |-> 11]

LevelNot == 4       \* the operand of not and defined, and of a set expression
LevelPrimary == 6   \* a primary_expression: no comparison outside parentheses
LevelUnary == 12

-----------------------------------------------------------------------------
(* Canonical forms.  The compiler builds its sources of the same.          *)
Node(tokens)     == <<"(">> \o tokens \o <<")">>
Infix(sym, l, r) == Node(l \o <<sym>> \o r)
Prefix(sym, x)   == Node(<<sym>> \o x)
Between(lo, hi)  == <<"(">> \o lo \o <<"..">> \o hi \o <<")">>
OfNode(q, set, place) == Node(q \o <<"of">> \o set \o place)
ForNode(q, over, iterable, body) ==
    Node(<<"for">> \o q \o <<over>> \o iterable \o <<":">> \o body)
LoopVariable(depth) == <<"variable" \o ToString(depth)>>

List(texts) ==
    LET items[n \in 0 .. Len(texts)] ==
          IF n = 0 THEN <<>> ELSE IF n = 1 THEN texts[1] ELSE items[n - 1] \o <<",">> \o texts[n]
    IN <<"(">> \o items[Len(texts)] \o <<")">>

-----------------------------------------------------------------------------
(* The reader.  in is what it reads: the tokens t, the rule's strings and  *)
(* the names vars of the loop variables in scope, outermost first.  A      *)
(* reading is its canonical text and the place at which it went on.        *)
Reading(text, at) == [text |-> text, at |-> at]
Tok(in, i) == IF i <= Len(in.t) THEN in.t[i] ELSE "end of text"
Failed(in) == Reading(<<"syntax error">>, Len(in.t) + 1)

Identifiers(in) == {in.strings[n][2] : n \in {m \in 1 .. Len(in.strings) : Len(in.strings[m]) = 2}}

Named(in, name) ==
    LET depths == {d \in 1 .. Len(in.vars) : in.vars[d] = name}
    IN IF depths = {} THEN <<name>>
       ELSE LoopVariable(CHOOSE d \in depths : \A e \in depths : e <= d)

RECURSIVE ReadFrom(_, _, _), Climb(_, _, _), ReadList(_, _), Postfixed(_, _)

ReadInterval(in, i) ==      \* "(" lo ".." hi ")"
    LET lo == ReadFrom(in, i + 1, LevelPrimary)
        hi == ReadFrom(in, lo.at + 1, LevelPrimary)
    IN IF Tok(in, lo.at) = ".." /\ Tok(in, hi.at) = ")"
         THEN Reading(Between(lo.text, hi.text), hi.at + 1)
         ELSE Failed(in)

ReadList(in, i) ==          \* items up to the ")", after the "(" or a ","
    IF Tok(in, i) = ")" THEN [texts |-> <<>>, at |-> i + 1]
    ELSE LET item == ReadFrom(in, i, 1)
             rest == ReadList(in, item.at + 1)
         IN IF Tok(in, item.at) = "," THEN [texts |-> <<item.text>> \o rest.texts, at |-> rest.at]
            ELSE [texts |-> <<item.text>>,
                  at |-> IF Tok(in, item.at) = ")" THEN item.at + 1 ELSE Len(in.t) + 2]

ReadSet(in, i) ==
    IF Tok(in, i) = "them" THEN Reading(List(in.strings), i + 1)
    ELSE LET list == ReadList(in, i + 1)
         IN IF Tok(in, i) = "(" THEN Reading(List(list.texts), list.at) ELSE Failed(in)

ReadIdentifier(in, i) ==    \* a sigil and, if one follows, the string's name
    IF Tok(in, i + 1) \in Identifiers(in)
      THEN Reading(<<in.t[i], in.t[i + 1]>>, i + 2) ELSE Reading(<<in.t[i]>>, i + 1)

ReadString(in, i) ==
    LET string == ReadIdentifier(in, i)
        place  == ReadFrom(in, string.at + 1, LevelPrimary)
        range  == ReadInterval(in, string.at + 1)
    IN CASE in.t[i] = "$" /\ Tok(in, string.at) = "at"
              -> Reading(Node(string.text \o <<"at">> \o place.text), place.at)
         [] in.t[i] \in {"$", "#"} /\ Tok(in, string.at) = "in"
              -> Reading(Node(string.text \o <<"in">> \o range.text), range.at)
         [] in.t[i] \in {"@", "!"} /\ Tok(in, string.at) # "["
              -> Reading(string.text \o <<"[", "1", "]">>, string.at)
         [] in.t[i] \in {"@", "!"} /\ Tok(in, string.at) = "["
              -> Reading(string.text \o <<"[">> \o place.text \o <<"]">>, place.at + 1)
         [] OTHER -> string

ReadFor(in, i) ==
    LET q     == ReadFrom(in, i + 1, LevelPrimary)
        over  == IF Tok(in, q.at) = "of" THEN "of" ELSE "in"
        from  == IF over = "of" THEN q.at + 1 ELSE q.at + 2
        sub   == ReadList(in, from + 1)
        iter  == IF over = "of" THEN ReadSet(in, from)
                 ELSE IF Tok(in, from) # "(" THEN ReadFrom(in, from, LevelUnary)
                 ELSE IF Tok(in, ReadFrom(in, from + 1, LevelPrimary).at) = ".."
                   THEN ReadInterval(in, from)
                 ELSE Reading(List(sub.texts), sub.at)
        name  == IF over = "of" THEN "$" ELSE Tok(in, q.at)
        body  == ReadFrom([in EXCEPT !.vars = Append(@, name)], iter.at + 2, 1)
    IN IF Tok(in, iter.at) = ":" /\ Tok(in, body.at) = ")"
         THEN Reading(ForNode(q.text, over, iter.text, body.text), body.at + 1)
         ELSE Failed(in)

Postfixed(in, left) ==
    LET index == ReadFrom(in, left.at + 1, LevelPrimary)
        args  == ReadList(in, left.at + 1)
    IN CASE Tok(in, left.at) = "."
              -> Postfixed(in, Reading(left.text \o <<".", Tok(in, left.at + 1)>>, left.at + 2))
         [] Tok(in, left.at) = "["
              -> Postfixed(in, Reading(left.text \o <<"[">> \o index.text \o <<"]">>, index.at + 1))
         [] Tok(in, left.at) = "("
              -> Postfixed(in, Reading(left.text \o List(args.texts), args.at))
         [] OTHER -> left

ReadPrefixed(in, i, level) ==
    LET x == ReadFrom(in, i + 1, level) IN Reading(Prefix(in.t[i], x.text), x.at)

ReadPrimary(in, i) ==
    LET inner == ReadFrom(in, i + 1, 1)
    IN CASE Tok(in, i) \in {"not", "defined"} -> ReadPrefixed(in, i, LevelNot)
         [] Tok(in, i) \in {"~", "-"} -> ReadPrefixed(in, i, LevelUnary)
         [] Tok(in, i) \in {"$", "#", "@", "!"} -> ReadString(in, i)
         [] Tok(in, i) = "for" -> ReadFor(in, i)
         [] Tok(in, i) = "(" -> IF Tok(in, inner.at) = ")" THEN Reading(inner.text, inner.at + 1)
                                ELSE Failed(in)
         [] Tok(in, i) \in DOMAIN Level \cup {")", "end of text", "of", "in", "at", ":"} -> Failed(in)
         [] OTHER -> Postfixed(in, Reading(Named(in, in.t[i]), i + 1))

(* q of set, with its place.                                               *)
ReadOf(in, q, i) ==
    LET set   == ReadSet(in, i)
        place == ReadFrom(in, set.at + 1, LevelPrimary)
        range == ReadInterval(in, set.at + 1)
    IN CASE Tok(in, set.at) = "at"
              -> Reading(OfNode(q, set.text, <<"at">> \o place.text), place.at)
         [] Tok(in, set.at) = "in"
              -> Reading(OfNode(q, set.text, <<"in">> \o range.text), range.at)
         [] OTHER -> Reading(OfNode(q, set.text, <<>>), set.at)

Climb(in, left, min) ==
    LET op    == Tok(in, left.at)
        right == ReadFrom(in, left.at + 1, Level[op] + 1)
    IN CASE op = "of" /\ min <= LevelNot -> Climb(in, ReadOf(in, left.text, left.at + 1), min)
         [] op = "%" /\ Tok(in, left.at + 1) = "of"
              -> IF min <= LevelNot
                   THEN Climb(in, ReadOf(in, left.text \o <<"%">>, left.at + 2), min)
                   ELSE Failed(in)
         [] op \in DOMAIN Level /\ ~ (op = "%" /\ Tok(in, left.at + 1) = "of")
              -> IF Level[op] >= min
                   THEN Climb(in, Reading(Infix(op, left.text, right.text), right.at), min)
                   ELSE left
         [] OTHER -> left

ReadFrom(in, i, min) ==
    IF i > Len(in.t) THEN Failed(in) ELSE Climb(in, ReadPrimary(in, i), min)

Canonical(text, strings) ==
    LET whole == ReadFrom([t |-> text, strings |-> strings, vars |-> <<>>], 1, 1)
    IN IF whole.at = Len(text) + 1 THEN whole.text ELSE <<"syntax error">>
=============================================================================
