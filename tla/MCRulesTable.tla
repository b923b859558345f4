---------------------------- MODULE MCRulesTable ----------------------------
(***************************************************************************)
(* Files of one or two rules as YARA saves them (yr_arena_save_stream):    *)
(* whole, cut at every place, and with any one cell replaced.              *)
(***************************************************************************)
EXTENDS RulesTable

MCWord == 0 .. 65535
Ones   == 65535
Null   == <<Ones, Ones>>

SZ_POOL == 5

(* The pool: names at 0, 2 and 12, a list of two names at 2 and of one at  *)
(* 5, an empty one at 8, the bytes of a literal at 9.                      *)
Pool == <<5, 0, 6, 5, 0, 8, 9, 0, 0, 1, 0, 2, 8, 0>>

Lists == {<<>>, <<1>>, <<2, 3, 1>>, <<1, 1, 1, 1>>}
Kinds == {<<>>, <<"literal">>, <<"regexp", "fixed">>, <<"literal", "tail">>}

(* A rule's shape: the types of its metas and the kinds of its strings.    *)
Shapes == [metas : Lists, strings : Kinds]

-----------------------------------------------------------------------------
(* What a shape is compiled to, as the program is to load it, and as cells.*)
TagsOf(s)   == CASE s.metas = <<>> -> <<>> [] s.metas = <<1>> -> <<<<8, 9>>>> [] OTHER -> <<<<6, 5>>, <<8, 9>>>>
TagCells(s) == CASE s.metas = <<>> -> Null [] s.metas = <<1>> -> <<SZ_POOL, 5>> [] OTHER -> <<SZ_POOL, 2>>

MetaOf(type, i) ==
    [identifier |-> <<5>>, type |-> type,
     value |-> CASE type = 1 -> <<i>> [] type = 2 -> <<8>> [] type = 3 -> <<1>>]

MetaCells(type, i, last) ==
    <<SZ_POOL, 0>> \o (IF type = 2 THEN <<SZ_POOL, 12>> ELSE Null)
      \o <<i, type, IF last THEN 1 ELSE 0>>

StringOf(kind, i, r) ==
    [index |-> i, identifier |-> <<6, 5>>, rule_index |-> r,
     data       |-> CASE kind = "fixed" -> <<1>> [] kind = "regexp" -> <<>> [] OTHER -> <<1, 0, 2>>,
     re_code    |-> IF kind = "regexp" THEN {Ref(7, 0)} ELSE {},
     fixed      |-> IF kind = "fixed" THEN {2} ELSE {},
     chained_to |-> IF kind = "tail" THEN {i - 1} ELSE {},
     gap        |-> IF kind = "tail" THEN <<1, -1>> ELSE <<0, 0>>]

StringCells(kind, i, r) ==
    (CASE kind = "fixed"  -> <<LITERAL + FIXED_OFFSET, i, 2, r, 1, SZ_POOL, 9>>
       [] kind = "regexp" -> <<0, i, 0, r, 4, 7, 0>>
       [] OTHER           -> <<LITERAL, i, 0, r, 3, SZ_POOL, 9>>)
      \o (IF kind = "tail" THEN <<STRINGS_TABLE, SIZEOF_STRING * (i - 1), 1, Ones>> ELSE Null \o <<0, 0>>)
      \o <<SZ_POOL, 2>>

(* The number of metas, and of strings, of the rules before the r-th.      *)
MetasBefore(ss, r)   == FoldLeft(LAMBDA n, s : n + Len(s.metas), 0, SubSeq(ss, 1, r - 1))
StringsBefore(ss, r) == FoldLeft(LAMBDA n, s : n + Len(s.strings), 0, SubSeq(ss, 1, r - 1))

StringsAre(ss, r) ==
    [n \in DOMAIN ss[r].strings |-> StringOf(ss[r].strings[n], StringsBefore(ss, r) + n - 1, r - 1)]

RuleOf(ss, r) ==
    [identifier |-> <<5>>, flags |-> r, tags |-> TagsOf(ss[r]),
     metas |-> [n \in DOMAIN ss[r].metas |-> MetaOf(ss[r].metas[n], n)],
     namespace |-> {<<5>>}, strings |-> StringsAre(ss, r)]

RuleCells(ss, r) ==
    <<r, SZ_POOL, 0>> \o TagCells(ss[r])
      \o (IF ss[r].metas = <<>> THEN Null ELSE <<2, SIZEOF_META * MetasBefore(ss, r)>>)
      \o <<NAMESPACES_TABLE, 0>>

Flat(ss, Cells(_)) == FlattenSeq([r \in DOMAIN ss |-> Cells(r)])

Tables(ss) ==
    LET metas(r)   == FlattenSeq([n \in DOMAIN ss[r].metas |-> MetaCells(ss[r].metas[n], n, n = Len(ss[r].metas))])
        strs(r)    == FlattenSeq([n \in DOMAIN ss[r].strings |->
                        StringCells(ss[r].strings[n], StringsBefore(ss, r) + n - 1, r - 1)])
        each(r)    == RuleCells(ss, r)
    IN <<<<SZ_POOL, 0>>, Flat(ss, each), Flat(ss, metas), Flat(ss, strs), <<>>, Pool,
         <<>>, <<>>, <<>>, <<>>, <<>>, <<Len(ss), StringsBefore(ss, Len(ss) + 1), 1>>>>

FirstBuffer == HeaderSize + EntrySize * 12

Starts(bufs) ==
    [i \in DOMAIN bufs |-> FirstBuffer + FoldLeft(LAMBDA n, b : n + Len(b), 0, SubSeq(bufs, 1, i - 1))]

(* The pointers that were relocated: here the names of the rules.          *)
Relocated(ss) == [r \in DOMAIN ss |-> <<RULES_TABLE, SIZEOF_RULE * (r - 1) + 1>>]

Saved(ss) ==
    LET bufs   == Tables(ss)
        starts == Starts(bufs)
        head   == <<ARENA_MAGIC, 21, 12>>
                    \o FlattenSeq([i \in DOMAIN bufs |-> <<starts[i], Len(bufs[i])>>])
    IN [data  |-> head \o FlattenSeq(bufs) \o FlattenSeq(Relocated(ss)) \o <<Ones>>,
        saved |-> [buffers     |-> bufs,
                   namespaces  |-> <<<<5>>>>,
                   strings     |-> FlattenSeq([r \in DOMAIN ss |-> StringsAre(ss, r)]),
                   rules       |-> [r \in DOMAIN ss |-> RuleOf(ss, r)],
                   relocations |-> ToSet(Relocated(ss)),
                   end         |-> Len(head) + Len(FlattenSeq(bufs))]]

File(f, kind, data, strict) == [data |-> data, kind |-> kind, strict |-> strict, saved |-> f.saved]

WholeFiles == {LET f == Saved(ss) IN File(f, "whole", f.data, TRUE) : ss \in UNION {[1 .. k -> Shapes] : k \in 0 .. 2}}

(* Two rules with a bit of everything.                                     *)
Sample == Saved(<<[metas |-> <<1>>, strings |-> <<"regexp", "fixed">>],
                  [metas |-> <<2, 3>>, strings |-> <<"literal", "tail">>]>>)

CutFiles ==
    {File(Sample, "cut", SubSeq(Sample.data, 1, n), strict) : n \in 0 .. Len(Sample.data) - 1, strict \in BOOLEAN}

CorruptFiles ==
    {File(Sample, "corrupt", [Sample.data EXCEPT ![n] = v], strict) :
        n \in 1 .. Len(Sample.data), v \in {0, 40, Ones}, strict \in BOOLEAN}

MCFiles == WholeFiles \cup CutFiles \cup CorruptFiles
=============================================================================
