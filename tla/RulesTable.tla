----------------------------- MODULE RulesTable -----------------------------
(***************************************************************************)
(* The tables of a compiled file: RulesParser in yaradec/parser.py, on the *)
(* buffers that module Arena reads.  A structure of the format is a run of *)
(* cells; what is read of a rule and never used (its counters, its list of *)
(* strings) is left out of it, and so is the number of a namespace.        *)
(***************************************************************************)
EXTENDS Arena

CONSTANT MaxMetas   \* the longest list of metas that is not taken for corrupt

ASSUME MaxMetasAssumption == MaxMetas \in Nat

VARIABLES
    summary,     \* the sizes of the tables
    namespaces,  \* the names of the namespaces
    strings,     \* the strings read
    rules        \* the rules read

tableVars == <<summary, namespaces, strings, rules>>
vars == <<arenaVars, tableVars>>

-----------------------------------------------------------------------------
NAMESPACES_TABLE == 0
RULES_TABLE      == 1
STRINGS_TABLE    == 3
SUMMARY_SECTION  == 11

SIZEOF_NAMESPACE == 2
SIZEOF_META      == 7
SIZEOF_STRING    == 13
SIZEOF_RULE      == 9
SIZEOF_SUMMARY   == 3

NULL_RULE    == 4
LITERAL      == 1024
FIXED_OFFSET == 32768
LAST_IN_RULE == 1
MetaType     == [integer |-> 1, string |-> 2, boolean |-> 3]

HasBit(flags, bit) == (flags \div bit) % 2 = 1
Signed(word)       == IF word = AllOnes THEN -1 ELSE word

(* The n-th cell, and the reference there, of the structure at an offset   *)
(* of a buffer.                                                            *)
Field(b, off, n) == Buffer(b)[off + n + 1]
RefAt(b, off, n) == Ref(Field(b, off, n), Field(b, off, n + 1))
Room(b, off, size) == off + size <= Len(Buffer(b))

(* A name, or the one the code invents for an empty or NULL one: no name   *)
(* of a file begins with a negative character.                             *)
Invented(i)       == <<-1, i>>
NameOr(ref, name) == IF CString(ref) = <<>> THEN name ELSE CString(ref)

Stays == UNCHANGED <<file, table, buffers, pos, relocations>>

-----------------------------------------------------------------------------
HasSummary == HasBuffer(SUMMARY_SECTION) /\ Len(Buffer(SUMMARY_SECTION)) >= SIZEOF_SUMMARY

ReadSummary ==
    /\ phase = "summary" /\ HasSummary
    /\ summary' = [rules      |-> Field(SUMMARY_SECTION, 0, 0),
                   strings    |-> Field(SUMMARY_SECTION, 0, 1),
                   namespaces |-> Field(SUMMARY_SECTION, 0, 2)]
    /\ phase' = "namespaces"
    /\ Stays /\ UNCHANGED <<namespaces, strings, rules>>

NamespaceOff == SIZEOF_NAMESPACE * Len(namespaces)
NamespaceRef == RefAt(NAMESPACES_TABLE, NamespaceOff, 0)

NamespaceReadable ==
    /\ HasBuffer(NAMESPACES_TABLE) /\ Room(NAMESPACES_TABLE, NamespaceOff, SIZEOF_NAMESPACE)
    /\ HasCString(NamespaceRef)

ReadNamespace ==
    /\ phase = "namespaces" /\ Len(namespaces) < summary.namespaces /\ NamespaceReadable
    /\ namespaces' = Append(namespaces, NameOr(NamespaceRef, Invented(0)))
    /\ Stays /\ UNCHANGED <<phase, summary, strings, rules>>

EndNamespaces ==
    /\ phase = "namespaces" /\ Len(namespaces) = summary.namespaces /\ HasBuffer(NAMESPACES_TABLE)
    /\ phase' = "strings"
    /\ Stays /\ UNCHANGED tableVars

-----------------------------------------------------------------------------
StringOff     == SIZEOF_STRING * Len(strings)
InString(n)   == Field(STRINGS_TABLE, StringOff, n)
PatternRef    == RefAt(STRINGS_TABLE, StringOff, 5)
ChainRef      == RefAt(STRINGS_TABLE, StringOff, 7)
StringNameRef == RefAt(STRINGS_TABLE, StringOff, 11)

StringReadable ==
    /\ HasBuffer(STRINGS_TABLE) /\ Room(STRINGS_TABLE, StringOff, SIZEOF_STRING)
    /\ HasCString(StringNameRef)

(* The bytes of a literal: none at all if they run out of their buffer.    *)
LiteralData ==
    IF HasBit(InString(0), LITERAL) /\ Signed(InString(4)) >= 0 /\ Readable(PatternRef, InString(4))
      THEN Read(PatternRef, InString(4)) ELSE <<>>

(* Any other pattern is a program of the RE section.                       *)
Program == IF ~ IsNull(PatternRef) /\ ~ HasBit(InString(0), LITERAL) THEN {PatternRef} ELSE {}

ChainedTo ==
    IF ~ IsNull(ChainRef) /\ ChainRef.buffer = STRINGS_TABLE THEN {ChainRef.offset \div SIZEOF_STRING} ELSE {}

ReadString ==
    /\ phase = "strings" /\ Len(strings) < summary.strings /\ StringReadable
    /\ strings' = Append(strings,
         [index      |-> InString(1),
          identifier |-> NameOr(StringNameRef, Invented(Len(strings))),
          rule_index |-> InString(3),
          data       |-> LiteralData,
          re_code    |-> Program,
          fixed      |-> IF HasBit(InString(0), FIXED_OFFSET) THEN {InString(2)} ELSE {},
          chained_to |-> ChainedTo,
          gap        |-> <<Signed(InString(9)), Signed(InString(10))>>])
    /\ Stays /\ UNCHANGED <<phase, summary, namespaces, rules>>

EndStrings ==
    /\ phase = "strings" /\ Len(strings) = summary.strings /\ HasBuffer(STRINGS_TABLE)
    /\ phase' = "rules"
    /\ Stays /\ UNCHANGED tableVars

-----------------------------------------------------------------------------
(* parse_metas: from an offset to the first that is marked the last, to an *)
(* unknown type, or to the end of the buffer.                              *)
MetaOff(ref, i)     == ref.offset + SIZEOF_META * i
InMeta(ref, i, n)   == Field(ref.buffer, MetaOff(ref, i), n)
MetaRoom(ref, i)    == Room(ref.buffer, MetaOff(ref, i), SIZEOF_META)
MetaNameRef(ref, i) == RefAt(ref.buffer, MetaOff(ref, i), 0)
MetaTextRef(ref, i) == RefAt(ref.buffer, MetaOff(ref, i), 2)
Known(ref, i)       == \E t \in DOMAIN MetaType : InMeta(ref, i, 5) = MetaType[t]
LastMeta(ref, i)    == HasBit(InMeta(ref, i, 6), LAST_IN_RULE)

Places(ref) == 0 .. Len(Buffer(ref.buffer)) \div SIZEOF_META

(* Mutated: the mark is not looked at.                                     *)
NumMetasUnmarked(ref) == Min({i \in Places(ref) : ~ MetaRoom(ref, i) \/ ~ Known(ref, i)})

NumMetas(ref) ==
    Min({i \in Places(ref) : ~ MetaRoom(ref, i) \/ ~ Known(ref, i)}
          \cup {i + 1 : i \in {j \in Places(ref) : MetaRoom(ref, j) /\ LastMeta(ref, j)}})

MetaValue(ref, i) ==
    CASE InMeta(ref, i, 5) = MetaType.string -> CString(MetaTextRef(ref, i))
      [] InMeta(ref, i, 5) = MetaType.boolean -> <<IF InMeta(ref, i, 4) = 0 THEN 0 ELSE 1>>
      [] OTHER -> <<Signed(InMeta(ref, i, 4))>>

Metas(ref) ==
    IF IsNull(ref) THEN <<>>
    ELSE [i \in 1 .. NumMetas(ref) |->
            [identifier |-> CString(MetaNameRef(ref, i - 1)),
             type       |-> InMeta(ref, i - 1, 5),
             value      |-> MetaValue(ref, i - 1)]]

(* A list that goes on after MaxMetas + 1 entries is refused.  The name of *)
(* the entry of unknown type that ends a list is read too.                 *)
MetasReadable(ref) ==
    IsNull(ref) \/
      /\ HasBuffer(ref.buffer)
      /\ NumMetas(ref) <= MaxMetas + 1
      /\ NumMetas(ref) = MaxMetas + 1 => LastMeta(ref, MaxMetas)
      /\ \A i \in 0 .. NumMetas(ref) - 1 :
           /\ HasCString(MetaNameRef(ref, i))
           /\ InMeta(ref, i, 5) = MetaType.string => HasCString(MetaTextRef(ref, i))
      /\ LET n == NumMetas(ref)
         IN MetaRoom(ref, n) /\ (n > 0 => ~ LastMeta(ref, n - 1)) => HasCString(MetaNameRef(ref, n))

-----------------------------------------------------------------------------
RuleOff     == SIZEOF_RULE * Len(rules)

(* Mutated: the bits that are no flags are kept.                           *)
RuleFlagsUnmasked == Field(RULES_TABLE, RuleOff, 0)

RuleFlags   == Field(RULES_TABLE, RuleOff, 0) % 16
RuleNameRef == RefAt(RULES_TABLE, RuleOff, 1)
TagsRef     == RefAt(RULES_TABLE, RuleOff, 3)
MetasRef    == RefAt(RULES_TABLE, RuleOff, 5)
NsRef       == RefAt(RULES_TABLE, RuleOff, 7)

MoreRules == Len(rules) < summary.rules
RuleRoom  == HasBuffer(RULES_TABLE) /\ Room(RULES_TABLE, RuleOff, SIZEOF_RULE)
NullRule  == RuleRoom /\ HasBit(RuleFlags, NULL_RULE)

RuleReadable ==
    /\ RuleRoom
    /\ HasCString(RuleNameRef) /\ HasCStringList(TagsRef) /\ MetasReadable(MetasRef)

NamespaceOf ==
    LET n == NsRef.offset \div SIZEOF_NAMESPACE
    IN IF ~ IsNull(NsRef) /\ n < Len(namespaces) THEN {namespaces[n + 1]} ELSE {}

(* The strings of a rule by their index, equal ones in the table's order.  *)
StringsIn(i) == {p \in DOMAIN strings : strings[p].rule_index = i}

ByIndex(S) ==
    {pq \in S \X S :
        \/ strings[pq[1]].index < strings[pq[2]].index
        \/ strings[pq[1]].index = strings[pq[2]].index /\ pq[1] < pq[2]}

StringsOf(i) ==
    LET places == Sorted(StringsIn(i), ByIndex(StringsIn(i)))
    IN [n \in DOMAIN places |-> strings[places[n]]]

ReadRule ==
    /\ phase = "rules" /\ MoreRules /\ RuleReadable /\ ~ NullRule
    /\ rules' = Append(rules,
         [identifier |-> NameOr(RuleNameRef, Invented(Len(rules))),
          flags      |-> RuleFlags,
          tags       |-> CStringList(TagsRef),
          metas      |-> Metas(MetasRef),
          namespace  |-> NamespaceOf,
          strings    |-> StringsOf(Len(rules))])
    /\ Stays /\ UNCHANGED <<phase, summary, namespaces, strings>>

EndRules ==
    /\ phase = "rules" /\ HasBuffer(RULES_TABLE)
    /\ MoreRules => NullRule
    /\ phase' = "loaded"
    /\ Stays /\ UNCHANGED tableVars

RaiseTableError ==
    /\ \/ phase = "summary" /\ ~ HasSummary
       \/ phase = "namespaces" /\ ~ HasBuffer(NAMESPACES_TABLE)
       \/ phase = "namespaces" /\ Len(namespaces) < summary.namespaces /\ ~ NamespaceReadable
       \/ phase = "strings" /\ ~ HasBuffer(STRINGS_TABLE)
       \/ phase = "strings" /\ Len(strings) < summary.strings /\ ~ StringReadable
       \/ phase = "rules" /\ ~ HasBuffer(RULES_TABLE)
       \/ phase = "rules" /\ MoreRules /\ ~ NullRule /\ ~ RuleReadable
    /\ phase' = "raised"
    /\ Stays /\ UNCHANGED tableVars

-----------------------------------------------------------------------------
Init == ArenaInit /\ summary = <<>> /\ namespaces = <<>> /\ strings = <<>> /\ rules = <<>>

ParseTables ==
    \/ ReadSummary \/ ReadNamespace \/ EndNamespaces \/ ReadString \/ EndStrings
    \/ ReadRule \/ EndRules \/ RaiseTableError

Load == (Parse /\ UNCHANGED tableVars) \/ ParseTables

(* The file is loaded or refused: the pipeline goes on, or main ends.      *)
Done == phase \in {"loaded", "raised"}
Over == Done /\ UNCHANGED vars

Next == Load \/ Over

Spec == Init /\ [][Next]_vars /\ WF_vars(Load)
-----------------------------------------------------------------------------
(* What YARA compiles the tables to: s is what was saved, its buffers and  *)
(* what they stand for.  c is a structure of s, its cells numbered from 0. *)
SavedString ==
    [index : Word, identifier : Seq(Word), rule_index : Word, data : Seq(Word),
     re_code : SUBSET [buffer : Word, offset : Word], fixed : SUBSET Word, chained_to : SUBSET Nat, gap : Seq(Int)]

SavedMeta == [identifier : Seq(Word), type : Word, value : Seq(Int)]

SavedRule ==
    [identifier : Seq(Word), flags : 0 .. 15, tags : Seq(Seq(Word)), metas : Seq(SavedMeta),
     namespace : SUBSET Seq(Word), strings : Seq(SavedString)]

HasCells(s, b, size)   == b < Len(s.buffers) /\ size <= Len(s.buffers[b + 1])
Struct(s, b, off, size) == [n \in 0 .. size - 1 |-> s.buffers[b + 1][off + n + 1]]
RefOf(c, n)            == Ref(c[n], c[n + 1])

(* A text stands at a reference; a name is a text that is not empty.       *)
DataAt(s, ref, t) ==
    /\ HasCells(s, ref.buffer, ref.offset + Len(t))
    /\ \A k \in 1 .. Len(t) : s.buffers[ref.buffer + 1][ref.offset + k] = t[k]

TextAt(s, ref, t) == DataAt(s, ref, Append(t, 0)) /\ \A k \in 1 .. Len(t) : t[k] # 0
NameAt(s, ref, t) == TextAt(s, ref, t) /\ t # <<>>

StringAt(s, c, x) ==
    /\ c[1] = x.index /\ c[3] = x.rule_index /\ NameAt(s, RefOf(c, 11), x.identifier)
    /\ IF HasBit(c[0], LITERAL)
         THEN DataAt(s, RefOf(c, 5), x.data) /\ c[4] = Len(x.data) /\ c[4] # AllOnes /\ x.re_code = {}
         ELSE x.data = <<>> /\ x.re_code = IF IsNull(RefOf(c, 5)) THEN {} ELSE {RefOf(c, 5)}
    /\ x.fixed = IF HasBit(c[0], FIXED_OFFSET) THEN {c[2]} ELSE {}
    /\ \/ IsNull(RefOf(c, 7)) /\ x.chained_to = {}
       \/ \E k \in 0 .. Len(s.strings) - 1 :
            RefOf(c, 7) = Ref(STRINGS_TABLE, SIZEOF_STRING * k) /\ x.chained_to = {k}
    /\ x.gap = <<Signed(c[9]), Signed(c[10])>>

(* The tags follow each other, and then comes an empty one.                *)
TagsAt(s, ref, tags) ==
    IF tags = <<>> THEN IsNull(ref)
    ELSE \E at \in [1 .. Len(tags) + 1 -> 0 .. Len(s.buffers[ref.buffer + 1])] :
            /\ at[1] = ref.offset /\ TextAt(s, Ref(ref.buffer, at[Len(tags) + 1]), <<>>)
            /\ \A k \in DOMAIN tags : NameAt(s, Ref(ref.buffer, at[k]), tags[k]) /\ at[k + 1] = at[k] + Len(tags[k]) + 1

MetaAt(s, c, m) ==
    /\ TextAt(s, RefOf(c, 0), m.identifier) /\ c[5] = m.type
    /\ \/ m.type = MetaType.string /\ TextAt(s, RefOf(c, 2), m.value)
       \/ m.type = MetaType.boolean /\ m.value = <<IF c[4] = 0 THEN 0 ELSE 1>>
       \/ m.type = MetaType.integer /\ m.value = <<Signed(c[4])>>

(* The metas follow each other, and the last is marked.                    *)
MetasAt(s, ref, metas) ==
    IF metas = <<>> THEN IsNull(ref)
    ELSE /\ HasCells(s, ref.buffer, ref.offset + SIZEOF_META * Len(metas))
         /\ \A k \in DOMAIN metas :
              LET c == Struct(s, ref.buffer, ref.offset + SIZEOF_META * (k - 1), SIZEOF_META)
              IN MetaAt(s, c, metas[k]) /\ (HasBit(c[6], LAST_IN_RULE) <=> k = Len(metas))

(* The strings of a rule follow each other in the table.                   *)
RuleStrings(s, i, own) ==
    \E first \in 0 .. Len(s.strings) :
        /\ first + Len(own) <= Len(s.strings)
        /\ \A n \in DOMAIN own : own[n] = s.strings[first + n]
        /\ \A p \in DOMAIN s.strings : s.strings[p].rule_index = i <=> p \in first + 1 .. first + Len(own)

RuleAt(s, c, x) ==
    /\ c[0] % 16 = x.flags /\ ~ HasBit(x.flags, NULL_RULE) /\ NameAt(s, RefOf(c, 1), x.identifier)
    /\ TagsAt(s, RefOf(c, 3), x.tags) /\ MetasAt(s, RefOf(c, 5), x.metas)
    /\ \E k \in DOMAIN s.namespaces :
         RefOf(c, 7) = Ref(NAMESPACES_TABLE, SIZEOF_NAMESPACE * (k - 1)) /\ x.namespace = {s.namespaces[k]}

Compiled(s) ==
    /\ s.namespaces \in Seq(Seq(Word)) /\ s.strings \in Seq(SavedString) /\ s.rules \in Seq(SavedRule)
    /\ HasCells(s, NAMESPACES_TABLE, SIZEOF_NAMESPACE * Len(s.namespaces))
    /\ HasCells(s, STRINGS_TABLE, SIZEOF_STRING * Len(s.strings))
    /\ HasCells(s, RULES_TABLE, SIZEOF_RULE * Len(s.rules))
    /\ HasCells(s, SUMMARY_SECTION, SIZEOF_SUMMARY)
    /\ LET c == Struct(s, SUMMARY_SECTION, 0, SIZEOF_SUMMARY)
       IN c[0] = Len(s.rules) /\ c[1] = Len(s.strings) /\ c[2] = Len(s.namespaces)
    /\ \A i \in DOMAIN s.namespaces :
         NameAt(s, RefOf(Struct(s, NAMESPACES_TABLE, SIZEOF_NAMESPACE * (i - 1), SIZEOF_NAMESPACE), 0), s.namespaces[i])
    /\ \A i \in DOMAIN s.strings :
         StringAt(s, Struct(s, STRINGS_TABLE, SIZEOF_STRING * (i - 1), SIZEOF_STRING), s.strings[i])
    /\ \A i, j \in DOMAIN s.strings : i < j => s.strings[i].index < s.strings[j].index
    /\ \A i \in DOMAIN s.rules :
         /\ RuleAt(s, Struct(s, RULES_TABLE, SIZEOF_RULE * (i - 1), SIZEOF_RULE), s.rules[i])
         /\ RuleStrings(s, i - 1, s.rules[i].strings)

ASSUME CompilerAssumption == \A f \in Files : f.kind # "corrupt" => Compiled(f.saved)

-----------------------------------------------------------------------------
(* Properties.  The file was saved whole, then cut short or not, or had a  *)
(* cell replaced ("corrupt"); file.saved is what was saved: the buffers,   *)
(* the tables, the relocations and the place where the buffers end.        *)
Name == Seq(Word \cup {-1})

TypeOK ==
    /\ phase \in {"header", "table", "buffers", "relocations", "summary", "namespaces",
                  "strings", "rules", "loaded", "raised"}
    /\ relocations \subseteq Word \X Word
    /\ \A i \in DOMAIN buffers : buffers[i] \in Seq(Word)
    /\ namespaces \in Seq(Name)
    /\ \A n \in DOMAIN strings : strings[n].identifier \in Name /\ strings[n].data \in Seq(Word)
    /\ \A n \in DOMAIN rules : rules[n].identifier \in Name /\ rules[n].flags \in 0 .. 15

(* A buffer that is read has the size that the table of the file gives it: *)
(* the slices of Python would silently give less.                          *)
BuffersWhole ==
    phase \notin {"header", "table", "buffers", "raised"}
      => \A i \in DOMAIN table : Len(buffers[i]) = table[i].size

(* A file that is loaded, cut or not, strictly or not, gives the tables    *)
(* that were saved: no rule loses or gains a string, a meta or a tag.      *)
LoadedAsSaved ==
    phase = "loaded" /\ file.kind # "corrupt" =>
        /\ namespaces = file.saved.namespaces
        /\ strings = file.saved.strings /\ rules = file.saved.rules

(* No relocation is made up of parts of others, or of what follows; a      *)
(* whole file gives them all.                                              *)
RelocationsSaved ==
    file.kind # "corrupt" =>
        /\ relocations \subseteq file.saved.relocations
        /\ phase = "loaded" /\ file.kind = "whole" => relocations = file.saved.relocations

(* A whole file is never refused, nor, with --lenient, one that is only    *)
(* cut in its relocations; but a list of too many metas is.                *)
TooManyMetas == \E n \in DOMAIN file.saved.rules : Len(file.saved.rules[n].metas) > MaxMetas + 1

CompleteFileLoads ==
    /\ file.kind # "corrupt" /\ ~ TooManyMetas
    /\ file.kind = "whole" \/ (~ file.strict /\ Complete(file))
    => phase # "raised"

(* Whatever the file holds, it is loaded or refused.                       *)
LoadEnds == <>Done
=============================================================================
