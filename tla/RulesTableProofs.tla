-------------------------- MODULE RulesTableProofs --------------------------
(***************************************************************************)
(* Proofs about the loading of a file, for every file: damaged in any way, *)
(* read strictly or not; and, for every file as the compiler wrote it, cut *)
(* short since or not, that its tables are read as they were saved.        *)
(***************************************************************************)
EXTENDS RulesTable, CommonLemmas, FiniteSetTheorems, TLAPS

(* The entries of the table are numbers, the header was checked before the *)
(* table is read, and once the buffers are cut they stay as they are.      *)
Early == {"header", "table", "buffers", "raised"}

Cut ==
    /\ file \in Files
    /\ phase = "table" => GoodHeader
    /\ \A i \in DOMAIN table : table[i].offset \in Nat /\ table[i].size \in Nat
    /\ BuffersWhole

-----------------------------------------------------------------------------
LEMMA DataFacts ==
    ASSUME Cut
    PROVE  /\ Data \in Seq(Word) /\ Data \in Seq(Nat) /\ Len(Data) \in Nat
           /\ \A p \in Nat : p < Len(Data) => At(p) \in Word /\ At(p) \in Nat
<1>1. Data \in Seq(Word) /\ Word \subseteq Nat
  BY ArenaAssumption DEF Cut, Data
<1>2. Data \in Seq(Nat)
  <2>1. Len(Data) \in Nat /\ Data \in [1 .. Len(Data) -> Word]
    BY <1>1
  <2>2. Data \in [1 .. Len(Data) -> Nat]
    BY <1>1, <2>1
  <2> QED BY <2>1, <2>2
<1>3. Len(Data) \in Nat /\ \A p \in 1 .. Len(Data) : Data[p] \in Word /\ Data[p] \in Nat
  BY <1>1, <1>2
<1> QED BY <1>1, <1>2, <1>3 DEF At

(* A slice that lies in the file has the size of its entry; that of an     *)
(* empty entry is empty wherever it begins.                                *)
LEMMA SliceWhole ==
    ASSUME Cut, NEW e, e.offset \in Nat, e.size \in Nat, InFile(e)
    PROVE  Len(Slice(e)) = e.size
<1>1. Data \in Seq(Nat) /\ Len(Data) \in Nat
  BY DataFacts
<1>2. CASE e.offset + e.size <= Len(Data)
  <2>1. Slice(e) = SubSeq(Data, e.offset + 1, e.offset + e.size)
    BY <1>2 DEF Slice
  <2> QED BY <1>1, <1>2, <2>1
<1>3. CASE ~ (e.offset + e.size <= Len(Data))
  <2>1. e.size = 0 /\ e.offset > Len(Data)
    BY <1>1, <1>3 DEF InFile
  <2>2. Slice(e) = SubSeq(Data, e.offset + 1, Len(Data))
    BY <1>3 DEF Slice
  <2> QED BY <1>1, <2>1, <2>2
<1> QED BY <1>2, <1>3

-----------------------------------------------------------------------------
LEMMA InitCut == Init => Cut
BY DEF Init, ArenaInit, Cut, BuffersWhole

LEMMA TableCut ==
    ASSUME Cut, ReadTable
    PROVE  Cut'
<1>1. NumBuffers \in Nat
  BY DataFacts DEF ReadTable, Cut, GoodHeader, HeaderSize, NumBuffers
<1>2. ASSUME NEW i \in 1 .. NumBuffers
      PROVE  Entry(i).offset \in Nat /\ Entry(i).size \in Nat
  <2> DEFINE p == HeaderSize + EntrySize * (i - 1)
  <2>1. p \in Nat /\ p + 1 \in Nat /\ p + 1 < HeaderSize + EntrySize * NumBuffers
    BY <1>1 DEF HeaderSize, EntrySize
  <2>2. p < Len(Data) /\ p + 1 < Len(Data)
    BY <1>1, <2>1, DataFacts DEF ReadTable, TablePresent, HeaderSize, EntrySize
  <2>3. At(p) \in Nat /\ At(p + 1) \in Nat
    BY <2>1, <2>2, DataFacts
  <2> QED BY <2>3 DEF Entry
<1>3. table' = [i \in 1 .. NumBuffers |-> Entry(i)] /\ phase' = "buffers" /\ file' = file
  BY DEF ReadTable
<1> QED BY <1>2, <1>3 DEF Cut, BuffersWhole

LEMMA BuffersCut ==
    ASSUME Cut, CutBuffers
    PROVE  Cut'
<1>1. \A i \in DOMAIN table : Len(Slice(table[i])) = table[i].size
  BY SliceWhole DEF Cut, CutBuffers
<1>2. /\ buffers' = [i \in DOMAIN table |-> Slice(table[i])]
      /\ table' = table /\ file' = file /\ phase' = "relocations"
  BY DEF CutBuffers
<1> QED BY <1>1, <1>2 DEF Cut, BuffersWhole

(* Any other step leaves the table and the buffers alone, and leads into   *)
(* the phases behind the cut from one of them only.                        *)
LEMMA LaterCut ==
    ASSUME Cut, file' = file, table' = table, buffers' = buffers,
           phase' = "table" => GoodHeader, phase \notin Early \/ phase' \in Early
    PROVE  Cut'
BY DEF Cut, BuffersWhole, Early, GoodHeader, Data, At

LEMMA NextCut == Cut /\ [Next]_vars => Cut'
<1> SUFFICES ASSUME Cut, [Next]_vars PROVE Cut'
  OBVIOUS
<1>1. CASE ReadHeader
  BY <1>1, LaterCut DEF ReadHeader, Early
<1>2. CASE ReadTable
  BY <1>2, TableCut
<1>3. CASE CutBuffers
  BY <1>3, BuffersCut
<1>4. CASE ReadRelocation \/ EndRelocations
  BY <1>4, LaterCut DEF ReadRelocation, EndRelocations, Early
<1>5. CASE RaiseArenaError \/ RaiseTableError
  BY <1>5, LaterCut DEF RaiseArenaError, RaiseTableError, Stays, Early
<1>6. CASE ReadSummary \/ ReadNamespace \/ EndNamespaces
  BY <1>6, LaterCut DEF ReadSummary, ReadNamespace, EndNamespaces, Stays, Early
<1>7. CASE ReadString \/ EndStrings
  BY <1>7, LaterCut DEF ReadString, EndStrings, Stays, Early
<1>8. CASE ReadRule \/ EndRules
  BY <1>8, LaterCut DEF ReadRule, EndRules, Stays, Early
<1>9. CASE Over \/ UNCHANGED vars
  BY <1>9 DEF Over, vars, arenaVars, Cut, BuffersWhole, GoodHeader, Data, At
<1> QED BY <1>1, <1>2, <1>3, <1>4, <1>5, <1>6, <1>7, <1>8, <1>9
        DEF Next, Load, Parse, ParseTables

(* Whatever the file, and whether it is read strictly or not: a buffer     *)
(* that anything is read from has the size that the file's table gives it, *)
(* although Python's slices give less where there is less (arena.py, the   *)
(* check before the slice).                                                *)
THEOREM BuffersWholeHolds == Spec => []BuffersWhole
<1>1. Cut => BuffersWhole
  BY DEF Cut
<1> QED BY <1>1, InitCut, NextCut, PTL DEF Spec

-----------------------------------------------------------------------------
(* Types.  What is read of a buffer lies in it: every reader looks first.  *)
Typed ==
    /\ TypeOK
    /\ OwnSeq(table) /\ OwnSeq(buffers) /\ OwnSeq(strings) /\ OwnSeq(rules)
    /\ pos \in Nat
    /\ phase \in {"namespaces", "strings", "rules"} =>
         summary.namespaces \in Word /\ summary.strings \in Word /\ summary.rules \in Word

LEMMA WordFacts == \A w \in Word : w \in Nat /\ \A n \in Nat : n < w => n \in Word
BY ArenaAssumption

(* The buffers end somewhere: there are finitely many.                     *)
LEMMA Bounded ==
    ASSUME NEW n \in Nat, NEW f, \A i \in 1 .. n : f[i] \in Nat
    PROVE  \E N \in Nat : \A i \in 1 .. n : f[i] <= N
<1> DEFINE Bounds(m) == \E N \in Nat : \A i \in 1 .. m : f[i] <= N
           S == {m \in Nat : m <= n /\ ~ Bounds(m)}
<1>1. 0 \notin S /\ S \subseteq Nat
  <2>1. 0 \in Nat /\ \A i \in 1 .. 0 : f[i] <= 0
    OBVIOUS
  <2> QED BY <2>1
<1>2. ASSUME NEW m \in Nat, m + 1 <= n, Bounds(m)
      PROVE  Bounds(m + 1)
  <2>1. PICK N \in Nat : \A i \in 1 .. m : f[i] <= N
    BY <1>2
  <2>2. f[m + 1] \in Nat
    BY <1>2
  <2>3. PICK M \in Nat : N <= M /\ f[m + 1] <= M
    BY <2>2
  <2>4. ASSUME NEW i \in 1 .. m + 1 PROVE f[i] <= M
    <3>1. CASE i = m + 1
      BY <2>3, <3>1
    <3>2. CASE i \in 1 .. m
      <4>1. f[i] <= N /\ f[i] \in Nat
        BY <1>2, <2>1, <3>2
      <4> QED BY <2>3, <4>1
    <3> QED BY <3>1, <3>2
  <2> QED BY <2>4
<1>3. ASSUME NEW m \in Nat, m + 1 \in S PROVE m \in S
  <2>1. m + 1 <= n /\ m <= n /\ ~ Bounds(m + 1)
    BY <1>3
  <2>2. ~ Bounds(m)
    <3> HIDE DEF Bounds
    <3> QED BY <1>2, <2>1
  <2> QED BY <2>1, <2>2
<1>4. S = {}
  <2> HIDE DEF S
  <2> QED BY <1>1, <1>3, LeastCounterexample
<1>5. Bounds(n)
  BY <1>4
<1> QED BY <1>5

LEMMA EndTyped ==
    ASSUME Cut, OwnSeq(table)
    PROVE  BuffersEnd \in Nat
<1>1. CASE table = <<>>
  BY <1>1 DEF BuffersEnd, HeaderSize
<1>2. CASE table # <<>>
  <2> DEFINE f == [i \in 1 .. Len(table) |-> table[i].offset + table[i].size]
             S == {table[i].offset + table[i].size : i \in DOMAIN table}
  <2>1. Len(table) \in Nat /\ DOMAIN table = 1 .. Len(table)
    BY OwnFacts
  <2>2. \A i \in 1 .. Len(table) : f[i] \in Nat
    BY <2>1 DEF Cut
  <2>3. PICK N \in Nat : \A i \in 1 .. Len(table) : f[i] <= N
    <3> HIDE DEF f
    <3> QED BY <2>1, <2>2, Bounded
  <2>4. S \subseteq 0 .. N
    <3>1. ASSUME NEW i \in DOMAIN table PROVE table[i].offset + table[i].size \in 0 .. N
      <4>1. i \in 1 .. Len(table) /\ f[i] = table[i].offset + table[i].size
        BY <2>1
      <4> HIDE DEF f
      <4> QED BY <2>2, <2>3, <4>1
    <3> QED BY <3>1
  <2>5. S # {}
    <3>1. Len(table) # 0
      BY <1>2 DEF OwnSeq
    <3>2. 1 \in DOMAIN table
      BY <2>1, <3>1
    <3> QED BY <3>2
  <2>6. Max(S) \in Nat
    <3> HIDE DEF S
    <3>1. Max(S) \in S
      BY <2>4, <2>5, MaxOfPlaces
    <3>2. Max(S) \in 0 .. N
      BY <2>4, <3>1
    <3> QED BY <3>2
  <2> QED BY <1>2, <2>6 DEF BuffersEnd
<1> QED BY <1>1, <1>2

-----------------------------------------------------------------------------
(* The accessors.                                                          *)
LEMMA BufferTyped ==
    ASSUME Typed, NEW b \in Nat, HasBuffer(b)
    PROVE  Buffer(b) \in Seq(Word)
<1>1. b + 1 \in DOMAIN buffers
  BY OwnFacts DEF Typed, HasBuffer
<1> QED BY <1>1 DEF Typed, TypeOK, Buffer

LEMMA FieldTyped ==
    ASSUME Typed, NEW b \in Nat, HasBuffer(b), NEW off \in Nat, NEW size \in Nat,
           Room(b, off, size), NEW n \in 0 .. size - 1
    PROVE  Field(b, off, n) \in Word
<1>1. Buffer(b) \in Seq(Word)
  BY BufferTyped
<1>2. off + n + 1 \in 1 .. Len(Buffer(b))
  BY <1>1 DEF Room
<1> QED BY <1>1, <1>2 DEF Field

LEMMA RefTyped ==
    ASSUME Typed, NEW b \in Nat, HasBuffer(b), NEW off \in Nat, NEW size \in Nat,
           Room(b, off, size), NEW n \in 0 .. size - 2
    PROVE  RefAt(b, off, n).buffer \in Word /\ RefAt(b, off, n).offset \in Word
<1>1. Field(b, off, n) \in Word /\ Field(b, off, n + 1) \in Word
  BY FieldTyped
<1> QED BY <1>1 DEF RefAt, Ref

(* A part of a sequence has its type, even if it is empty.                 *)
LEMMA PartTyped ==
    ASSUME NEW S, NEW s \in Seq(S), NEW m \in Nat, NEW n \in Int, m >= 1, n <= Len(s)
    PROVE  SubSeq(s, m, n) \in Seq(S)
OBVIOUS

LEMMA CStringTyped ==
    ASSUME Typed, NEW ref, ref.buffer \in Word, ref.offset \in Word, HasCString(ref)
    PROVE  CString(ref) \in Seq(Word)
<1>1. CASE IsNull(ref)
  BY <1>1 DEF CString
<1>2. CASE ~ IsNull(ref)
  <2>1. ref.buffer \in Nat /\ ref.offset \in Nat
    BY WordFacts
  <2>2. HasBuffer(ref.buffer) /\ Nuls(ref) # {}
    BY <1>2 DEF HasCString
  <2>3. Buffer(ref.buffer) \in Seq(Word)
    BY <2>1, <2>2, BufferTyped
  <2>4. Nuls(ref) \subseteq Nat /\ Nuls(ref) \subseteq 1 .. Len(Buffer(ref.buffer))
    BY <2>1, <2>3 DEF Nuls
  <2>5. Min(Nuls(ref)) \in 1 .. Len(Buffer(ref.buffer))
    BY <2>2, <2>4, MinOfPlaces
  <2>6. SubSeq(Buffer(ref.buffer), ref.offset + 1, Min(Nuls(ref)) - 1) \in Seq(Word)
    BY <2>1, <2>3, <2>5, PartTyped
  <2> QED BY <1>2, <2>6 DEF CString
<1> QED BY <1>1, <1>2

LEMMA NameTyped ==
    ASSUME Typed, NEW ref, ref.buffer \in Word, ref.offset \in Word, HasCString(ref), NEW i \in Word
    PROVE  NameOr(ref, Invented(i)) \in Name
<1>1. CString(ref) \in Name
  BY CStringTyped DEF Name
<1>2. Invented(i) \in Name
  BY DEF Invented, Name
<1> QED BY <1>1, <1>2 DEF NameOr

-----------------------------------------------------------------------------
(* The steps.                                                              *)
Reading == {"namespaces", "strings", "rules"}

LEMMA InitTyped == Init => Typed
<1>1. OwnSeq(<<>>) /\ <<>> \in Seq(Name)
  BY DEF OwnSeq
<1> QED BY <1>1 DEF Init, ArenaInit, Typed, TypeOK

(* A step that only goes on to another phase.                              *)
LEMMA PhaseTyped ==
    ASSUME Typed, table' = table, buffers' = buffers, pos' = pos, relocations' = relocations,
           summary' = summary, namespaces' = namespaces, strings' = strings, rules' = rules,
           phase' \in {"table", "summary", "strings", "rules", "loaded", "raised"},
           phase' \in Reading => phase \in Reading
    PROVE  Typed'
BY DEF Typed, TypeOK, OwnSeq, Reading

LEMMA ReadTableTyped ==
    ASSUME Typed, Cut, ReadTable, UNCHANGED tableVars
    PROVE  Typed'
<1>1. NumBuffers \in Nat
  BY DataFacts DEF ReadTable, Cut, GoodHeader, HeaderSize, NumBuffers
<1> DEFINE t == [i \in 1 .. NumBuffers |-> Entry(i)]
<1>2. OwnSeq(t)
  BY <1>1 DEF OwnSeq
<1>3. table' = t /\ phase' = "buffers"
  BY DEF ReadTable
<1>4. OwnSeq(table')
  <2> HIDE DEF t
  <2> QED BY <1>2, <1>3
<1> QED BY <1>3, <1>4 DEF ReadTable, tableVars, Typed, TypeOK, OwnSeq

LEMMA CutBuffersTyped ==
    ASSUME Typed, Cut, CutBuffers, UNCHANGED tableVars
    PROVE  Typed'
<1>1. Len(table) \in Nat /\ DOMAIN table = 1 .. Len(table)
  BY OwnFacts DEF Typed
<1>2. ASSUME NEW i \in DOMAIN table PROVE Slice(table[i]) \in Seq(Word)
  <2> DEFINE e == table[i]
             last == IF e.offset + e.size <= Len(Data) THEN e.offset + e.size ELSE Len(Data)
  <2>1. e.offset \in Nat /\ e.size \in Nat /\ Data \in Seq(Word) /\ Len(Data) \in Nat
    BY DataFacts DEF Cut
  <2>2. last \in Nat /\ last <= Len(Data)
    BY <2>1
  <2>3. SubSeq(Data, e.offset + 1, last) \in Seq(Word)
    <3> HIDE DEF last, e
    <3> QED BY <2>1, <2>2, PartTyped
  <2> QED BY <2>3 DEF Slice
<1> DEFINE b == [i \in DOMAIN table |-> Slice(table[i])]
<1>3. OwnSeq(b) /\ \A i \in DOMAIN b : b[i] \in Seq(Word)
  BY <1>1, <1>2 DEF OwnSeq
<1>4. buffers' = b /\ pos' \in Nat /\ phase' = "relocations"
  BY EndTyped DEF CutBuffers, Typed
<1>5. OwnSeq(buffers') /\ \A i \in DOMAIN buffers' : buffers'[i] \in Seq(Word)
  <2> HIDE DEF b
  <2> QED BY <1>3, <1>4
<1> QED BY <1>4, <1>5 DEF CutBuffers, tableVars, Typed, TypeOK, OwnSeq

LEMMA ReadRelocationTyped ==
    ASSUME Typed, Cut, ReadRelocation, UNCHANGED tableVars
    PROVE  Typed'
<1>1. pos \in Nat /\ pos < Len(Data) /\ pos + 1 < Len(Data)
  BY DataFacts DEF ReadRelocation, EntryWhole, Typed
<1>2. At(pos) \in Word /\ At(pos + 1) \in Word
  BY <1>1, DataFacts
<1>3. relocations' \subseteq Word \X Word /\ pos' \in Nat
  BY <1>1, <1>2 DEF ReadRelocation, Typed, TypeOK
<1> QED BY <1>3 DEF ReadRelocation, tableVars, Typed, TypeOK, OwnSeq

LEMMA ReadSummaryTyped ==
    ASSUME Typed, ReadSummary
    PROVE  Typed'
<1>1. Room(SUMMARY_SECTION, 0, SIZEOF_SUMMARY) /\ HasBuffer(SUMMARY_SECTION)
  BY BufferTyped DEF ReadSummary, HasSummary, Room, SUMMARY_SECTION, SIZEOF_SUMMARY
<1>2. \A n \in 0 .. 2 : Field(SUMMARY_SECTION, 0, n) \in Word
  BY <1>1, FieldTyped DEF SUMMARY_SECTION, SIZEOF_SUMMARY
<1>3. summary'.namespaces \in Word /\ summary'.strings \in Word /\ summary'.rules \in Word
  BY <1>2 DEF ReadSummary
<1> QED BY <1>3 DEF ReadSummary, Stays, Typed, TypeOK, OwnSeq

LEMMA ReadNamespaceTyped ==
    ASSUME Typed, ReadNamespace
    PROVE  Typed'
<1>1. NamespaceOff \in Nat /\ Room(NAMESPACES_TABLE, NamespaceOff, 2)
  BY DEF ReadNamespace, NamespaceReadable, NamespaceOff, SIZEOF_NAMESPACE, Typed, TypeOK
<1>2. NamespaceRef.buffer \in Word /\ NamespaceRef.offset \in Word
  BY <1>1, RefTyped DEF ReadNamespace, NamespaceReadable, NamespaceRef, NAMESPACES_TABLE
<1>3. 0 \in Word
  BY ArenaAssumption
<1>4. NameOr(NamespaceRef, Invented(0)) \in Name
  BY <1>2, <1>3, NameTyped DEF ReadNamespace, NamespaceReadable
<1>5. namespaces' \in Seq(Name)
  BY <1>4 DEF ReadNamespace, Typed, TypeOK
<1> QED BY <1>5 DEF ReadNamespace, Stays, Typed, TypeOK, OwnSeq

LEMMA LiteralTyped ==
    ASSUME Typed, ReadString
    PROVE  LiteralData \in Seq(Word)
<1>1. CASE Signed(InString(4)) >= 0 /\ Readable(PatternRef, InString(4)) /\ HasBit(InString(0), LITERAL)
  <2>1. StringOff \in Nat /\ Room(STRINGS_TABLE, StringOff, SIZEOF_STRING) /\ HasBuffer(STRINGS_TABLE)
    BY OwnFacts DEF ReadString, StringReadable, StringOff, SIZEOF_STRING, Typed
  <2>2. PatternRef.buffer \in Word /\ PatternRef.offset \in Word /\ InString(4) \in Word
    BY <2>1, RefTyped, FieldTyped DEF PatternRef, InString, STRINGS_TABLE, SIZEOF_STRING
  <2>3. PatternRef.buffer \in Nat /\ PatternRef.offset \in Nat /\ InString(4) \in Nat
    BY <2>2, WordFacts
  <2>4. /\ Buffer(PatternRef.buffer) \in Seq(Word)
        /\ PatternRef.offset + InString(4) <= Len(Buffer(PatternRef.buffer))
    BY <1>1, <2>3, BufferTyped DEF Readable
  <2>5. SubSeq(Buffer(PatternRef.buffer), PatternRef.offset + 1, PatternRef.offset + InString(4)) \in Seq(Word)
    BY <2>3, <2>4, PartTyped
  <2> QED BY <1>1, <2>5 DEF LiteralData, Read
<1>2. CASE ~ (Signed(InString(4)) >= 0 /\ Readable(PatternRef, InString(4)) /\ HasBit(InString(0), LITERAL))
  BY <1>2 DEF LiteralData
<1> QED BY <1>1, <1>2

LEMMA ReadStringTyped ==
    ASSUME Typed, ReadString
    PROVE  Typed'
<1>1. Len(strings) \in Nat /\ StringOff \in Nat
  BY OwnFacts DEF StringOff, SIZEOF_STRING, Typed
<1>2. StringNameRef.buffer \in Word /\ StringNameRef.offset \in Word
  BY <1>1, RefTyped DEF ReadString, StringReadable, StringNameRef, STRINGS_TABLE, SIZEOF_STRING
<1>3. Len(strings) \in Word
  <2>1. Len(strings) < summary.strings /\ summary.strings \in Word
    BY DEF ReadString, Typed
  <2> QED BY <1>1, <2>1, WordFacts
<1> DEFINE name == NameOr(StringNameRef, Invented(Len(strings)))
<1>4. name \in Name
  BY <1>2, <1>3, NameTyped DEF ReadString, StringReadable
<1> HIDE DEF name
<1>5. LiteralData \in Seq(Word)
  BY LiteralTyped
<1>6. PICK x : strings' = Append(strings, x) /\ x.identifier = name /\ x.data = LiteralData
  BY DEF ReadString, name
<1>7. /\ OwnSeq(strings') /\ DOMAIN strings' = 1 .. Len(strings) + 1
      /\ \A k \in 1 .. Len(strings) + 1 : strings'[k] = IF k <= Len(strings) THEN strings[k] ELSE x
  BY <1>6, AppendOwn, AppendIs DEF Typed
<1>8. ASSUME NEW k \in DOMAIN strings'
      PROVE  strings'[k].identifier \in Name /\ strings'[k].data \in Seq(Word)
  <2>1. CASE k <= Len(strings)
    <3>1. k \in DOMAIN strings /\ strings'[k] = strings[k]
      BY <1>1, <1>7, <2>1, OwnFacts DEF Typed
    <3> QED BY <3>1 DEF Typed, TypeOK
  <2>2. CASE ~ (k <= Len(strings))
    BY <1>4, <1>5, <1>6, <1>7, <2>2
  <2> QED BY <2>1, <2>2
<1>9. UNCHANGED <<table, buffers, pos, relocations, phase, summary, namespaces, rules>>
  BY DEF ReadString, Stays
<1> QED BY <1>7, <1>8, <1>9 DEF Typed, TypeOK, OwnSeq

LEMMA ReadRuleTyped ==
    ASSUME Typed, ReadRule
    PROVE  Typed'
<1>1. Len(rules) \in Nat /\ RuleOff \in Nat
  BY OwnFacts DEF RuleOff, SIZEOF_RULE, Typed
<1>2. RuleNameRef.buffer \in Word /\ RuleNameRef.offset \in Word
  <2>1. HasBuffer(RULES_TABLE) /\ Room(RULES_TABLE, RuleOff, SIZEOF_RULE)
    BY DEF ReadRule, RuleReadable, RuleRoom
  <2> QED BY <1>1, <2>1, RefTyped DEF RuleNameRef, RULES_TABLE, SIZEOF_RULE
<1>3. RuleFlags \in 0 .. 15
  <2>1. HasBuffer(RULES_TABLE) /\ Room(RULES_TABLE, RuleOff, SIZEOF_RULE)
    BY DEF ReadRule, RuleReadable, RuleRoom
  <2>2. Field(RULES_TABLE, RuleOff, 0) \in Word
    BY <1>1, <2>1, FieldTyped DEF RULES_TABLE, SIZEOF_RULE
  <2>3. Field(RULES_TABLE, RuleOff, 0) \in Nat
    BY <2>2, WordFacts
  <2> QED BY <2>3 DEF RuleFlags
<1>4. Len(rules) \in Word
  <2>1. Len(rules) < summary.rules /\ summary.rules \in Word
    BY DEF ReadRule, MoreRules, Typed
  <2> QED BY <1>1, <2>1, WordFacts
<1> DEFINE name == NameOr(RuleNameRef, Invented(Len(rules)))
<1>5. name \in Name
  BY <1>2, <1>4, NameTyped DEF ReadRule, RuleReadable
<1> HIDE DEF name
<1>6. PICK x : rules' = Append(rules, x) /\ x.identifier = name /\ x.flags = RuleFlags
  BY DEF ReadRule, name
<1>7. /\ OwnSeq(rules') /\ DOMAIN rules' = 1 .. Len(rules) + 1
      /\ \A k \in 1 .. Len(rules) + 1 : rules'[k] = IF k <= Len(rules) THEN rules[k] ELSE x
  BY <1>6, AppendOwn, AppendIs DEF Typed
<1>8. ASSUME NEW k \in DOMAIN rules'
      PROVE  rules'[k].identifier \in Name /\ rules'[k].flags \in 0 .. 15
  <2>1. CASE k <= Len(rules)
    <3>1. k \in DOMAIN rules /\ rules'[k] = rules[k]
      BY <1>1, <1>7, <2>1, OwnFacts DEF Typed
    <3> QED BY <3>1 DEF Typed, TypeOK
  <2>2. CASE ~ (k <= Len(rules))
    BY <1>3, <1>5, <1>6, <1>7, <2>2
  <2> QED BY <2>1, <2>2
<1>9. UNCHANGED <<table, buffers, pos, relocations, phase, summary, namespaces, strings>>
  BY DEF ReadRule, Stays
<1> QED BY <1>7, <1>8, <1>9 DEF Typed, TypeOK, OwnSeq

LEMMA NextTyped == Cut /\ Typed /\ [Next]_vars => Typed'
<1> SUFFICES ASSUME Cut, Typed, [Next]_vars PROVE Typed'
  OBVIOUS
<1>1. CASE Parse /\ UNCHANGED tableVars
  <2>1. CASE ReadHeader \/ EndRelocations \/ RaiseArenaError
    BY <1>1, <2>1, PhaseTyped DEF ReadHeader, EndRelocations, RaiseArenaError, tableVars, Reading
  <2>2. CASE ReadTable
    BY <1>1, <2>2, ReadTableTyped
  <2>3. CASE CutBuffers
    BY <1>1, <2>3, CutBuffersTyped
  <2>4. CASE ReadRelocation
    BY <1>1, <2>4, ReadRelocationTyped
  <2> QED BY <1>1, <2>1, <2>2, <2>3, <2>4 DEF Parse
<1>2. CASE ReadSummary \/ ReadNamespace
  BY <1>2, ReadSummaryTyped, ReadNamespaceTyped
<1>3. CASE ReadString \/ ReadRule
  BY <1>3, ReadStringTyped, ReadRuleTyped
<1>4. CASE EndNamespaces \/ EndStrings \/ EndRules \/ RaiseTableError
  BY <1>4, PhaseTyped DEF EndNamespaces, EndStrings, EndRules, RaiseTableError, Stays, tableVars, Reading
<1>5. CASE Over \/ UNCHANGED vars
  BY <1>5 DEF Over, vars, arenaVars, tableVars, Typed, TypeOK, OwnSeq
<1> QED BY <1>1, <1>2, <1>3, <1>4, <1>5 DEF Next, Load, ParseTables

(* Whatever the file: what is read of it are words, names, literals and    *)
(* relocations of words; no reader looks behind the end of a buffer, where *)
(* the model gives no value (parser.py, the checks before each unpack).    *)
THEOREM TypeOKHolds == Spec => []TypeOK
<1>1. Cut /\ Typed => TypeOK
  BY DEF Typed
<1> QED BY <1>1, InitCut, NextCut, InitTyped, NextTyped, PTL DEF Spec

-----------------------------------------------------------------------------
(* The relocations.  In a file as YARA writes it the walk is always        *)
(* between two pairs of what was saved, the first i of them behind it.     *)
After == {"summary", "namespaces", "strings", "rules", "loaded"}

WalkedTo(i) ==
    /\ pos = file.saved.end + 2 * i /\ relocations = {Pair(file, j) : j \in 0 .. i - 1}
    /\ i > 0 => pos <= Len(Data)

TableRead == phase = "buffers" => HasTable(file) /\ table = [i \in 1 .. NumBuffers |-> Entry(i)]

Walk ==
    file.kind # "corrupt" =>
        /\ phase \in {"header", "table", "buffers"} => relocations = {}
        /\ phase = "relocations" => \E i \in Nat : WalkedTo(i)
        /\ relocations \subseteq Pairs(file)
        /\ phase \in After /\ file.kind = "whole" => relocations = Pairs(file)

Saved == Cut /\ Typed /\ TableRead /\ Walk

LEMMA TableReadNext ==
    ASSUME Cut, TableRead, [Next]_vars
    PROVE  TableRead'
<1>1. CASE ReadTable
  BY <1>1 DEF ReadTable, TableRead, Cut, GoodHeader, TablePresent, HasTable, NumBuffers, Entry, Data, At
<1>2. CASE phase' # "buffers"
  BY <1>2 DEF TableRead
<1>3. CASE UNCHANGED <<file, phase, table>>
  BY <1>3 DEF TableRead, HasTable, NumBuffers, Entry, Data, At
<1>4. ReadTable \/ phase' # "buffers" \/ UNCHANGED <<file, phase, table>>
  <2>1. CASE Parse
    BY <2>1 DEF Parse, ReadHeader, CutBuffers, ReadRelocation, EndRelocations, RaiseArenaError
  <2>2. CASE ReadSummary \/ ReadNamespace \/ EndNamespaces \/ ReadString \/ EndStrings
    BY <2>2 DEF ReadSummary, ReadNamespace, EndNamespaces, ReadString, EndStrings, Stays
  <2>3. CASE ReadRule \/ EndRules \/ RaiseTableError
    BY <2>3 DEF ReadRule, EndRules, RaiseTableError, Stays
  <2>4. CASE Over \/ UNCHANGED vars
    BY <2>4 DEF Over, vars, arenaVars
  <2> QED BY <2>1, <2>2, <2>3, <2>4 DEF Next, Load, ParseTables
<1> QED BY <1>1, <1>2, <1>3, <1>4

(* The end of the buffers, as the table gives it, is the end as saved.     *)
LEMMA EndIsSaved ==
    ASSUME Cut, HasTable(file), Written(file), table = [i \in 1 .. NumBuffers |-> Entry(i)]
    PROVE  BuffersEnd = file.saved.end
<1>1. NumBuffers = file.data[3] /\ NumBuffers \in Nat
  BY DataFacts DEF NumBuffers, At, Data, HasTable, HeaderSize
<1>2. \A i \in 1 .. NumBuffers : table[i].offset + table[i].size = EndOf(file, i)
  BY <1>1 DEF Entry, EndOf, OffsetOf, SizeOf, At, Data, HeaderSize, EntrySize
<1>3. CASE NumBuffers = 0
  <2>1. table = <<>>
    BY <1>3
  <2> QED BY <1>1, <1>3, <2>1 DEF BuffersEnd, Written
<1>4. CASE NumBuffers # 0
  <2> DEFINE S == {table[i].offset + table[i].size : i \in DOMAIN table}
  <2>1. DOMAIN table = 1 .. NumBuffers
    OBVIOUS
  <2>2. S = {EndOf(file, i) : i \in 1 .. NumBuffers}
    BY <1>2, <2>1
  <2>3. file.saved.end \in S /\ \A y \in S : file.saved.end >= y
    <3>1. PICK i \in 1 .. NumBuffers : EndOf(file, i) = file.saved.end
      BY <1>1, <1>4 DEF Written
    <3>2. \A k \in 1 .. NumBuffers : EndOf(file, k) <= file.saved.end
      BY <1>1 DEF Written
    <3> QED BY <2>2, <3>1, <3>2
  <2>4. S \subseteq Nat
    <3>1. ASSUME NEW i \in DOMAIN table PROVE table[i].offset + table[i].size \in Nat
      BY DEF Cut
    <3> QED BY <3>1
  <2>5. table # <<>>
    BY <1>1, <1>4, <2>1
  <2>6. Max(S) = file.saved.end
    <3> HIDE DEF S
    <3>1. \A x, y \in S : x >= y /\ y >= x => x = y
      BY <2>4
    <3> QED BY <2>3, <3>1 DEF Max
  <2> QED BY <2>5, <2>6 DEF BuffersEnd
<1> QED BY <1>3, <1>4

LEMMA InitSaved == Init => Saved
<1> SUFFICES ASSUME Init PROVE Saved
  OBVIOUS
<1>1. TableRead /\ Walk
  BY DEF Init, ArenaInit, TableRead, Walk, After
<1> QED BY <1>1, InitCut, InitTyped DEF Saved

LEMMA CutWalk ==
    ASSUME Saved, CutBuffers
    PROVE  Walk'
<1> SUFFICES ASSUME file.kind # "corrupt" PROVE Walk'
  BY DEF CutBuffers, Walk
<1>1. Written(file)
  BY WriterAssumption DEF Saved, Cut
<1>2. relocations = {} /\ pos' = file.saved.end
  BY <1>1, EndIsSaved DEF Saved, CutBuffers, TableRead, Walk
<1>3. file' = file /\ relocations' = relocations /\ phase' = "relocations"
  BY DEF CutBuffers
<1>4. /\ pos' = file.saved.end + 2 * 0
      /\ relocations' = {Pair(file, j) : j \in 0 .. 0 - 1}
  <2>1. file.saved.end \in Nat /\ 0 .. 0 - 1 = {}
    BY <1>1 DEF Written
  <2> QED BY <1>2, <1>3, <2>1
<1>5. WalkedTo(0)'
  BY <1>3, <1>4 DEF WalkedTo, Pair
<1> QED BY <1>2, <1>3, <1>5 DEF Walk, After

(* The walk reads the next pair of what was saved.                         *)
LEMMA NextPair ==
    ASSUME Saved, file.kind # "corrupt", NEW i \in Nat, WalkedTo(i), ReadRelocation
    PROVE  /\ <<At(pos), At(pos + 1)>> = Pair(file, i) /\ Pair(file, i) \in Pairs(file)
           /\ pos + 2 = file.saved.end + 2 * (i + 1) /\ pos + 2 <= Len(Data)
<1>1. file.saved.end \in Nat /\ Len(file.data) \in Nat
  BY WriterAssumption, DataFacts DEF Saved, Cut, Written, Data
<1>2. pos = file.saved.end + 2 * i /\ pos + 2 <= Len(file.data)
  BY DEF WalkedTo, ReadRelocation, EntryWhole, Data
<1>3. <<At(pos), At(pos + 1)>> = Pair(file, i)
  BY <1>1, <1>2 DEF At, Data, Pair
<1>4. i \in PairsIn(file)
  BY <1>1, <1>2 DEF PairsIn
<1> QED BY <1>1, <1>2, <1>3, <1>4 DEF Pairs, Data

LEMMA PairWalk ==
    ASSUME Saved, ReadRelocation
    PROVE  Walk'
<1> SUFFICES ASSUME file.kind # "corrupt" PROVE Walk'
  BY DEF ReadRelocation, Walk
<1>1. PICK i \in Nat : WalkedTo(i)
  BY DEF Saved, Walk, ReadRelocation
<1>2. /\ pos' = file.saved.end + 2 * (i + 1) /\ pos' <= Len(Data)
      /\ relocations' = relocations \cup {Pair(file, i)}
  BY <1>1, NextPair DEF ReadRelocation
<1>3. relocations' = {Pair(file, j) : j \in 0 .. (i + 1) - 1}
  <2>1. relocations = {Pair(file, j) : j \in 0 .. i - 1}
    BY <1>1 DEF WalkedTo
  <2>2. 0 .. (i + 1) - 1 = (0 .. i - 1) \cup {i}
    OBVIOUS
  <2> QED BY <1>2, <2>1, <2>2
<1>4. file' = file /\ phase' = "relocations"
  BY DEF ReadRelocation
<1>5. WalkedTo(i + 1)'
  BY <1>2, <1>3, <1>4 DEF WalkedTo, Pair, Data
<1>6. relocations' \subseteq Pairs(file')
  BY <1>1, <1>2, <1>4, NextPair DEF Saved, Walk
<1> QED BY <1>4, <1>5, <1>6 DEF Walk, After

(* The list of a whole file ends behind its last pair, not before.         *)
LEMMA EndWalk ==
    ASSUME Saved, EndRelocations
    PROVE  Walk'
<1> SUFFICES ASSUME file.kind # "corrupt" PROVE Walk'
  BY DEF EndRelocations, Walk
<1>1. PICK i \in Nat : WalkedTo(i)
  BY DEF Saved, Walk, EndRelocations
<1>2. file' = file /\ relocations' = relocations /\ phase' = "summary"
  BY DEF EndRelocations
<1>3. Written(file) /\ Len(Data) \in Nat /\ Len(file.data) = Len(Data)
  BY WriterAssumption, DataFacts DEF Saved, Cut, Data
<1>4. ASSUME file.kind = "whole" PROVE relocations = Pairs(file)
  <2>1. PICK n \in Nat : Len(Data) = file.saved.end + 2 * n + 1
    BY <1>3, <1>4 DEF Written
  <2>2. file.saved.end \in Nat /\ pos = file.saved.end + 2 * i /\ (i > 0 => pos <= Len(Data))
    BY <1>1, <1>3 DEF Written, WalkedTo
  <2>3. i <= n
    BY <1>3, <2>1, <2>2
  <2>4. ~ (i < n)
    <3> SUFFICES ASSUME i < n PROVE FALSE
      OBVIOUS
    <3>1. pos + 1 <= Len(Data) /\ pos + 2 <= Len(Data)
      BY <1>3, <2>1, <2>2
    <3>2. i \in PairsIn(file)
      BY <1>3, <2>1, <2>2, <3>1 DEF PairsIn
    <3>3. Pair(file, i)[1] # AllOnes
      BY <1>3, <1>4, <3>2 DEF Written
    <3>4. At(pos) = Pair(file, i)[1]
      BY <2>2 DEF Pair, At, Data
    <3>5. MoreRelocations /\ EntryWhole
      BY <3>1, <3>3, <3>4 DEF MoreRelocations, EntryWhole
    <3> QED BY <3>5 DEF EndRelocations
  <2>5. PairsIn(file) = 0 .. n - 1
    BY <1>3, <2>1, <2>2 DEF PairsIn
  <2>6. relocations = {Pair(file, j) : j \in 0 .. n - 1}
    <3>1. i = n
      BY <2>3, <2>4
    <3> QED BY <1>1, <3>1 DEF WalkedTo
  <2> QED BY <2>5, <2>6 DEF Pairs
<1> QED BY <1>2, <1>4 DEF Saved, Walk, After

LEMMA OtherWalk ==
    ASSUME Walk, file' = file, relocations' = relocations,
           phase' \in {"header", "table", "buffers"} => phase \in {"header", "table", "buffers"},
           phase' # "relocations", phase' \in After => phase \in After
    PROVE  Walk'
BY DEF Walk, After

LEMMA NextSaved == Saved /\ [Next]_vars => Saved'
<1> SUFFICES ASSUME Saved, [Next]_vars PROVE Walk'
  BY NextCut, NextTyped, TableReadNext DEF Saved
<1>1. CASE CutBuffers
  BY <1>1, CutWalk
<1>2. CASE ReadRelocation
  BY <1>2, PairWalk
<1>3. CASE EndRelocations
  BY <1>3, EndWalk
<1>4. CASE ReadHeader \/ ReadTable \/ RaiseArenaError
  BY <1>4, OtherWalk DEF ReadHeader, ReadTable, RaiseArenaError, After, Saved
<1>5. CASE ReadSummary \/ ReadNamespace \/ EndNamespaces
  BY <1>5, OtherWalk DEF ReadSummary, ReadNamespace, EndNamespaces, Stays, After, Saved
<1>6. CASE ReadString \/ EndStrings
  BY <1>6, OtherWalk DEF ReadString, EndStrings, Stays, After, Saved
<1>7. CASE ReadRule \/ EndRules \/ RaiseTableError
  BY <1>7, OtherWalk DEF ReadRule, EndRules, RaiseTableError, Stays, After, Saved
<1>8. CASE Over \/ UNCHANGED vars
  BY <1>8 DEF Over, vars, arenaVars, Saved, Walk, After, WalkedTo, Data
<1> QED BY <1>1, <1>2, <1>3, <1>4, <1>5, <1>6, <1>7, <1>8 DEF Next, Load, Parse, ParseTables

(* For every file that YARA wrote, cut anywhere since or not, whatever the *)
(* number of its buffers and relocations, read strictly or not: each       *)
(* relocation that is read was saved, none is read across two entries or   *)
(* of what is not the list; and of a whole file all are read (arena.py,    *)
(* the relocation loop and its two ends).                                  *)
THEOREM RelocationsSavedHolds == Spec => []RelocationsSaved
<1>1. Saved => RelocationsSaved
  <2> SUFFICES ASSUME Saved, file.kind # "corrupt" PROVE RelocationsSaved
    BY DEF RelocationsSaved
  <2>1. Written(file)
    BY WriterAssumption DEF Saved, Cut
  <2> QED BY <2>1 DEF Saved, Walk, Written, RelocationsSaved, After
<1> QED BY <1>1, InitSaved, NextSaved, PTL DEF Spec

-----------------------------------------------------------------------------
(* A set that is enumerated without repetition has as many members.        *)
LEMMA Enumerated ==
    ASSUME NEW N \in Nat, NEW e, \A i, j \in 1 .. N : e[i] = e[j] => i = j
    PROVE  Cardinality({e[k] : k \in 1 .. N}) = N
<1> DEFINE S == {e[k] : k \in 1 .. N}
           f == [k \in 1 .. N |-> e[k]]
<1>1. f \in [1 .. N -> S]
  OBVIOUS
<1>2. \A a, b \in DOMAIN f : f[a] = f[b] => a = b
  OBVIOUS
<1>3. \A t \in S : \E k \in 1 .. N : f[k] = t
  OBVIOUS
<1>4. f \in Bijection(1 .. N, S)
  <2> HIDE DEF f, S
  <2> QED BY <1>1, <1>2, <1>3 DEF Bijection, Injection, Surjection, IsInjective
<1>5. ExistsBijection(1 .. N, S)
  BY <1>4 DEF ExistsBijection
<1> HIDE DEF S
<1>6. Cardinality(S) = N
  BY <1>5, FS_CountingElements
<1> QED BY <1>6 DEF S

(* The order in which a set is enumerated is the one it is sorted into.    *)
InOrder(N, e, S, R) ==
    /\ \A k \in 1 .. N : e[k] \in S
    /\ \A p \in S : \E k \in 1 .. N : p = e[k]
    /\ \A i, j \in 1 .. N : <<e[i], e[j]>> \in R <=> i < j

LEMMA SortedIs ==
    ASSUME NEW N \in Nat, NEW e, NEW S, NEW R, InOrder(N, e, S, R)
    PROVE  DOMAIN Sorted(S, R) = 1 .. N /\ \A n \in 1 .. N : Sorted(S, R)[n] = e[n]
<1> USE DEF InOrder
<1>1. \A i, j \in 1 .. N : e[i] = e[j] => i = j
  <2> SUFFICES ASSUME NEW i \in 1 .. N, NEW j \in 1 .. N, e[i] = e[j], i # j PROVE FALSE
    OBVIOUS
  <2>1. (<<e[i], e[j]>> \in R <=> i < j) /\ (<<e[j], e[i]>> \in R <=> j < i)
    OBVIOUS
  <2>2. <<e[i], e[j]>> = <<e[j], e[i]>>
    OBVIOUS
  <2>3. ~ (i < j) /\ ~ (j < i)
    <3>1. i < j <=> j < i
      BY <2>1, <2>2
    <3> QED BY <3>1
  <2> QED BY <2>3
<1>2. Cardinality(S) = N
  <2>1. S = {e[k] : k \in 1 .. N}
    OBVIOUS
  <2>2. Cardinality({e[k] : k \in 1 .. N}) = N
    BY <1>1, Enumerated
  <2> QED BY <2>1, <2>2
<1> DEFINE rank(p) == Cardinality({q \in S : <<q, p>> \in R})
<1>3. ASSUME NEW n \in 1 .. N PROVE rank(e[n]) = n - 1
  <2>1. {q \in S : <<q, e[n]>> \in R} = {e[k] : k \in 1 .. n - 1}
    <3>1. ASSUME NEW q \in S, <<q, e[n]>> \in R PROVE q \in {e[k] : k \in 1 .. n - 1}
      <4>1. PICK k \in 1 .. N : q = e[k]
        OBVIOUS
      <4>2. k < n
        BY <3>1, <4>1
      <4> QED BY <4>1, <4>2
    <3>2. ASSUME NEW k \in 1 .. n - 1 PROVE e[k] \in S /\ <<e[k], e[n]>> \in R
      <4>1. k \in 1 .. N /\ k < n
        OBVIOUS
      <4> QED BY <4>1
    <3> QED BY <3>1, <3>2
  <2>2. n - 1 \in Nat /\ \A i, j \in 1 .. n - 1 : e[i] = e[j] => i = j
    <3>1. 1 .. n - 1 \subseteq 1 .. N /\ n - 1 \in Nat
      OBVIOUS
    <3> QED BY <1>1, <3>1
  <2>3. Cardinality({e[k] : k \in 1 .. n - 1}) = n - 1
    BY <2>2, Enumerated
  <2> QED BY <2>1, <2>3
<1>4. ASSUME NEW n \in 1 .. N PROVE (CHOOSE p \in S : rank(p) = n - 1) = e[n]
  <2>1. e[n] \in S /\ rank(e[n]) = n - 1
    BY <1>3
  <2>2. ASSUME NEW p \in S, rank(p) = n - 1 PROVE p = e[n]
    <3>1. PICK k \in 1 .. N : p = e[k]
      OBVIOUS
    <3>2. rank(p) = k - 1
      BY <1>3, <3>1
    <3>3. k = n
      <4> HIDE DEF rank
      <4> QED BY <2>2, <3>2
    <3> QED BY <3>1, <3>3
  <2> HIDE DEF rank
  <2> QED BY <2>1, <2>2
<1> QED BY <1>2, <1>4 DEF Sorted

-----------------------------------------------------------------------------
(* A part of a sequence is the sequence that has its elements.             *)
LEMMA PartIs ==
    ASSUME NEW S, NEW s \in Seq(S), NEW m \in Nat, NEW t \in Seq(S), m + Len(t) <= Len(s),
           \A k \in 1 .. Len(t) : s[m + k] = t[k]
    PROVE  SubSeq(s, m + 1, m + Len(t)) = t
<1> DEFINE r == SubSeq(s, m + 1, m + Len(t))
<1>1. Len(t) \in Nat /\ Len(s) \in Nat
  OBVIOUS
<1>2. r \in Seq(S)
  BY <1>1, PartTyped
<1>3. Len(r) = Len(t)
  BY <1>1
<1>4. ASSUME NEW k \in 1 .. Len(t) PROVE r[k] = t[k]
  <2>1. r[k] = s[(m + 1) + k - 1]
    BY <1>1
  <2>2. (m + 1) + k - 1 = m + k
    BY <1>1
  <2> QED BY <2>1, <2>2
<1> HIDE DEF r
<1>5. r = t
  BY <1>2, <1>3, <1>4
<1> QED BY <1>5 DEF r

(* What is cut from a file that was not damaged is what was saved.         *)
LEMMA SliceAsSaved ==
    ASSUME Cut, HasTable(file), Written(file), NEW i \in 1 .. NumBuffers, InFile(Entry(i))
    PROVE  Slice(Entry(i)) = file.saved.buffers[i]
<1> DEFINE e == Entry(i)
           b == file.saved.buffers[i]
<1>1. NumBuffers = file.data[3] /\ NumBuffers \in Nat
  BY DataFacts DEF NumBuffers, At, Data, HasTable, HeaderSize
<1>2. e.offset = OffsetOf(file, i) /\ e.size = SizeOf(file, i)
  BY <1>1 DEF Entry, OffsetOf, SizeOf, At, Data, HeaderSize, EntrySize
<1>3. b \in Seq(Word) /\ Len(b) \in Nat /\ e.size = Len(b)
  BY <1>1, <1>2 DEF Written, BufferAt
<1>4. e.offset \in Nat
  <2> DEFINE p == HeaderSize + EntrySize * (i - 1)
  <2>1. 3 + 2 * NumBuffers <= Len(Data) /\ Len(Data) \in Nat
    BY <1>1, DataFacts DEF HeaderSize, EntrySize, HasTable, Data
  <2>2. p \in Nat /\ p < Len(Data)
    BY <1>1, <2>1 DEF HeaderSize, EntrySize
  <2>3. At(p) \in Nat
    BY <2>2, DataFacts
  <2> QED BY <2>3 DEF Entry
<1>5. \A k \in 1 .. e.size : e.offset + k <= Len(Data) => Data[e.offset + k] = b[k]
  BY <1>1, <1>2 DEF Written, BufferAt, Data
<1>6. Data \in Seq(Word) /\ Len(Data) \in Nat
  BY DataFacts
<1> HIDE DEF e, b
<1>7. Len(Slice(e)) = e.size
  BY <1>3, <1>4, SliceWhole DEF e
<1>8. CASE e.size = 0
  <2>1. Len(Slice(e)) = 0 /\ Len(b) = 0
    BY <1>3, <1>7, <1>8
  <2>2. Slice(e) \in Seq(Word)
    BY <1>3, <1>4, <1>6, PartTyped DEF Slice
  <2>3. Slice(e) = <<>> /\ b = <<>>
    BY <1>3, <2>1, <2>2
  <2> QED BY <2>3 DEF e, b
<1>9. CASE e.size # 0
  <2>1. e.offset + e.size <= Len(Data)
    BY <1>3, <1>9 DEF InFile, e
  <2>2. Slice(e) = SubSeq(Data, e.offset + 1, e.offset + e.size)
    BY <2>1 DEF Slice
  <2>3. \A k \in 1 .. Len(b) : Data[e.offset + k] = b[k]
    BY <1>3, <1>4, <1>5, <1>6, <2>1
  <2>4. SubSeq(Data, e.offset + 1, e.offset + Len(b)) = b
    BY <1>3, <1>4, <1>6, <2>1, <2>3, PartIs
  <2>5. Slice(e) = b
    BY <1>3, <2>2, <2>4
  <2> QED BY <2>5 DEF e, b
<1> QED BY <1>3, <1>8, <1>9

LEMMA CutAsSaved ==
    ASSUME Saved, CutBuffers, file.kind # "corrupt"
    PROVE  buffers' = file.saved.buffers
<1>1. HasTable(file) /\ table = [i \in 1 .. NumBuffers |-> Entry(i)] /\ Written(file)
  BY WriterAssumption DEF Saved, TableRead, CutBuffers, Cut
<1>2. NumBuffers = Len(file.saved.buffers) /\ file.saved.buffers \in Seq(Seq(Word))
  BY <1>1 DEF NumBuffers, At, Data, HasTable, HeaderSize, Written
<1>3. \A i \in 1 .. NumBuffers : Slice(table[i]) = file.saved.buffers[i]
  BY <1>1, SliceAsSaved DEF CutBuffers, Saved
<1>4. buffers' = [i \in 1 .. NumBuffers |-> Slice(table[i])]
  BY <1>1 DEF CutBuffers
<1>5. buffers' = [i \in 1 .. NumBuffers |-> file.saved.buffers[i]]
  BY <1>3, <1>4
<1> QED BY <1>2, <1>5

-----------------------------------------------------------------------------
(* What the accessors give once the buffers are those of s.                *)
Holds(s) == buffers = s.buffers /\ s.buffers \in Seq(Seq(Word)) /\ Len(s.buffers) \in Word

IsRef(ref) == ref = Ref(ref.buffer, ref.offset) /\ ref.buffer \in Nat /\ ref.offset \in Nat

LEMMA CellsHeld ==
    ASSUME NEW s, Holds(s), NEW b \in Nat, NEW size \in Int, HasCells(s, b, size)
    PROVE  /\ HasBuffer(b) /\ Buffer(b) = s.buffers[b + 1] /\ Buffer(b) \in Seq(Word)
           /\ size <= Len(Buffer(b)) /\ b < AllOnes
<1>1. Len(s.buffers) \in Nat /\ Len(s.buffers) <= AllOnes /\ AllOnes \in Nat
  BY ArenaAssumption DEF Holds
<1>2. b + 1 \in 1 .. Len(s.buffers)
  BY <1>1 DEF HasCells
<1>3. s.buffers[b + 1] \in Seq(Word)
  BY <1>2 DEF Holds
<1> QED BY <1>1, <1>2, <1>3 DEF Holds, HasCells, HasBuffer, Buffer

LEMMA StructHeld ==
    ASSUME NEW s, Holds(s), NEW b \in Nat, NEW off \in Nat, NEW size \in Nat, HasCells(s, b, off + size)
    PROVE  /\ HasBuffer(b) /\ Room(b, off, size)
           /\ \A n \in 0 .. size - 1 :
                /\ Struct(s, b, off, size)[n] = Field(b, off, n)
                /\ Field(b, off, n) \in Word /\ Field(b, off, n) \in Nat
           /\ \A n \in 0 .. size - 2 :
                /\ RefOf(Struct(s, b, off, size), n) = RefAt(b, off, n)
                /\ IsRef(RefAt(b, off, n))
<1>1. /\ HasBuffer(b) /\ Buffer(b) = s.buffers[b + 1] /\ Buffer(b) \in Seq(Word)
      /\ off + size <= Len(Buffer(b))
  BY CellsHeld
<1>2. ASSUME NEW n \in 0 .. size - 1
      PROVE  /\ Struct(s, b, off, size)[n] = Field(b, off, n)
             /\ Field(b, off, n) \in Word /\ Field(b, off, n) \in Nat
  <2>1. off + n + 1 \in 1 .. Len(Buffer(b))
    BY <1>1
  <2>2. Field(b, off, n) \in Word
    BY <1>1, <2>1 DEF Field
  <2> QED BY <1>1, <2>2, WordFacts DEF Struct, Field
<1>3. ASSUME NEW n \in 0 .. size - 2
      PROVE  /\ RefOf(Struct(s, b, off, size), n) = RefAt(b, off, n)
             /\ IsRef(RefAt(b, off, n))
  <2>1. n \in 0 .. size - 1 /\ n + 1 \in 0 .. size - 1
    OBVIOUS
  <2> QED BY <1>2, <2>1 DEF RefOf, RefAt, Ref, IsRef
<1> QED BY <1>1, <1>2, <1>3 DEF Room

LEMMA DataHeld ==
    ASSUME NEW s, Holds(s), NEW ref, IsRef(ref), NEW t, t \in Seq(Word), DataAt(s, ref, t)
    PROVE  /\ ~ IsNull(ref) /\ Readable(ref, Len(t)) /\ Read(ref, Len(t)) = t
           /\ \A k \in 1 .. Len(t) : Buffer(ref.buffer)[ref.offset + k] = t[k]
<1>1. ref.buffer \in Nat /\ ref.offset \in Nat /\ Len(t) \in Nat
  BY DEF IsRef
<1>2. /\ HasBuffer(ref.buffer) /\ Buffer(ref.buffer) = s.buffers[ref.buffer + 1] /\ Buffer(ref.buffer) \in Seq(Word)
      /\ ref.offset + Len(t) <= Len(Buffer(ref.buffer)) /\ ref.buffer < AllOnes
  BY <1>1, CellsHeld DEF DataAt
<1>3. ~ IsNull(ref)
  <2>1. ref.buffer # AllOnes
    BY <1>1, <1>2
  <2> QED BY <2>1 DEF IsNull, Ref
<1>4. \A k \in 1 .. Len(t) : Buffer(ref.buffer)[ref.offset + k] = t[k]
  BY <1>2 DEF DataAt
<1>5. Read(ref, Len(t)) = t
  <2>1. SubSeq(Buffer(ref.buffer), ref.offset + 1, ref.offset + Len(t)) = t
    BY <1>1, <1>2, <1>4, PartIs
  <2> QED BY <2>1 DEF Read
<1> QED BY <1>2, <1>3, <1>4, <1>5 DEF Readable

LEMMA TextHeld ==
    ASSUME NEW s, Holds(s), NEW ref, IsRef(ref), NEW t, t \in Seq(Word), TextAt(s, ref, t)
    PROVE  /\ ~ IsNull(ref) /\ HasCString(ref) /\ CString(ref) = t
           /\ HasBuffer(ref.buffer) /\ ref.offset + Len(t) + 1 <= Len(Buffer(ref.buffer))
           /\ Buffer(ref.buffer)[ref.offset + Len(t) + 1] = 0
           /\ \A k \in 1 .. Len(t) : Buffer(ref.buffer)[ref.offset + k] = t[k] /\ t[k] # 0
<1> DEFINE u == Append(t, 0)
           b == Buffer(ref.buffer)
           z == ref.offset + Len(t) + 1
<1>1. ref.buffer \in Nat /\ ref.offset \in Nat /\ Len(t) \in Nat /\ 0 \in Word
  BY ArenaAssumption DEF IsRef
<1>2. u \in Seq(Word) /\ Len(u) = Len(t) + 1 /\ u[Len(t) + 1] = 0 /\ \A k \in 1 .. Len(t) : u[k] = t[k]
  BY <1>1
<1>3. ~ IsNull(ref) /\ Readable(ref, Len(u)) /\ \A k \in 1 .. Len(u) : b[ref.offset + k] = u[k]
  <2>1. DataAt(s, ref, u)
    BY DEF TextAt
  <2> HIDE DEF u
  <2> QED BY <1>2, <2>1, DataHeld
<1>4. HasBuffer(ref.buffer) /\ z <= Len(b) /\ b \in Seq(Word)
  <2>1. HasBuffer(ref.buffer) /\ ref.offset + Len(u) <= Len(b)
    BY <1>3 DEF Readable
  <2>2. b \in Seq(Word)
    BY <1>1, <1>2, CellsHeld DEF TextAt, DataAt
  <2> QED BY <1>1, <1>2, <2>1, <2>2
<1>5. b[z] = 0 /\ \A k \in 1 .. Len(t) : b[ref.offset + k] = t[k] /\ t[k] # 0
  <2>1. Len(t) + 1 \in 1 .. Len(u) /\ \A k \in 1 .. Len(t) : k \in 1 .. Len(u)
    BY <1>1, <1>2
  <2>2. ref.offset + (Len(t) + 1) = z
    BY <1>1
  <2>3. b[ref.offset + (Len(t) + 1)] = 0
    BY <1>2, <1>3, <2>1
  <2> HIDE DEF u, b, z
  <2> QED BY <1>2, <1>3, <2>1, <2>2, <2>3 DEF TextAt
<1> HIDE DEF u, b
<1>6. z \in Nuls(ref) /\ Nuls(ref) \subseteq Nat
  BY <1>1, <1>4, <1>5 DEF Nuls, b
<1>7. ASSUME NEW p \in Nuls(ref) PROVE p >= z
  <2> SUFFICES ASSUME p < z PROVE FALSE
    BY <1>1, <1>6
  <2>1. p - ref.offset \in 1 .. Len(t) /\ b[p] = 0 /\ p \in Nat
    BY <1>1, <1>6 DEF Nuls, b
  <2>2. ref.offset + (p - ref.offset) = p
    BY <1>1, <2>1
  <2> QED BY <1>5, <2>1, <2>2
<1>8. Min(Nuls(ref)) = z
  <2>1. Nuls(ref) # {}
    BY <1>6
  <2>2. Min(Nuls(ref)) \in Nuls(ref) /\ Min(Nuls(ref)) <= z
    BY <1>6, <2>1, MinOfPlaces
  <2>3. Min(Nuls(ref)) >= z /\ Min(Nuls(ref)) \in Nat
    BY <1>6, <1>7, <2>2
  <2> QED BY <1>1, <2>2, <2>3
<1>9. SubSeq(b, ref.offset + 1, z - 1) = t
  <2>1. z - 1 = ref.offset + Len(t)
    BY <1>1
  <2>2. ref.offset + Len(t) <= Len(b)
    BY <1>1, <1>4
  <2>3. SubSeq(b, ref.offset + 1, ref.offset + Len(t)) = t
    BY <1>1, <1>4, <1>5, <2>2, PartIs
  <2> HIDE DEF z
  <2> QED BY <2>1, <2>3
<1>10. HasCString(ref) /\ CString(ref) = t
  BY <1>3, <1>4, <1>6, <1>8, <1>9 DEF HasCString, CString, b
<1> QED BY <1>3, <1>4, <1>5, <1>10 DEF b

-----------------------------------------------------------------------------
(* A list of names: at[k] is the place of the k-th, the last that of the   *)
(* empty text behind it.  The places rise, and a cell between two of them  *)
(* is 0 just where a name ends.                                            *)
Along(ref, tags, at) ==
    /\ Len(tags) # 0 /\ at[1] = ref.offset
    /\ \A k \in 1 .. Len(tags) + 1 : at[k] \in Nat
    /\ \A k \in 1 .. Len(tags) :
         /\ at[k + 1] = at[k] + Len(tags[k]) + 1 /\ Len(tags[k]) \in Nat \ {0}
         /\ \A j \in 1 .. Len(tags[k]) : Buffer(ref.buffer)[at[k] + j] # 0
         /\ Buffer(ref.buffer)[at[k + 1]] = 0
    /\ at[Len(tags) + 1] + 1 <= Len(Buffer(ref.buffer))
    /\ Buffer(ref.buffer)[at[Len(tags) + 1] + 1] = 0

LEMMA PlacesRise ==
    ASSUME NEW ref, NEW tags, Len(tags) \in Nat, NEW at, Along(ref, tags, at)
    PROVE  \A i, j \in 1 .. Len(tags) + 1 : i < j <=> at[i] < at[j]
<1> DEFINE Rise(m) == \A i \in 1 .. m : at[i] < at[m + 1]
           S == {m \in Nat : m <= Len(tags) /\ ~ Rise(m)}
<1>1. 0 \notin S /\ S \subseteq Nat
  <2>1. Rise(0)
    OBVIOUS
  <2> QED BY <2>1
<1>2. ASSUME NEW m \in Nat, m + 1 <= Len(tags), Rise(m) PROVE Rise(m + 1)
  <2>1. at[m + 1] < at[m + 2] /\ at[m + 1] \in Nat /\ at[m + 2] \in Nat
    <3>1. m + 1 \in 1 .. Len(tags) /\ m + 2 \in 1 .. Len(tags) + 1 /\ m + 1 \in 1 .. Len(tags) + 1 /\ (m + 1) + 1 = m + 2
      BY <1>2
    <3> QED BY <3>1 DEF Along
  <2>2. ASSUME NEW i \in 1 .. m + 1 PROVE at[i] < at[m + 2]
    <3>1. CASE i = m + 1
      BY <2>1, <3>1
    <3>2. CASE i \in 1 .. m
      <4>1. at[i] < at[m + 1] /\ at[i] \in Nat
        BY <1>2, <3>2 DEF Along
      <4> QED BY <2>1, <4>1
    <3> QED BY <3>1, <3>2
  <2>3. (m + 1) + 1 = m + 2
    BY <1>2
  <2> QED BY <2>2, <2>3
<1>3. ASSUME NEW m \in Nat, m + 1 \in S PROVE m \in S
  <2>1. m + 1 <= Len(tags) /\ m <= Len(tags) /\ ~ Rise(m + 1)
    BY <1>3
  <2> HIDE DEF Rise
  <2> QED BY <1>2, <2>1
<1>4. S = {}
  <2> HIDE DEF S
  <2> QED BY <1>1, <1>3, LeastCounterexample
<1>5. ASSUME NEW i \in 1 .. Len(tags) + 1, NEW j \in 1 .. Len(tags) + 1, i < j PROVE at[i] < at[j]
  <2>1. j - 1 \in Nat /\ j - 1 <= Len(tags) /\ i \in 1 .. j - 1 /\ (j - 1) + 1 = j
    BY <1>5
  <2>2. Rise(j - 1)
    <3> HIDE DEF Rise
    <3> QED BY <1>4, <2>1
  <2> QED BY <2>1, <2>2
<1>6. ASSUME NEW i \in 1 .. Len(tags) + 1, NEW j \in 1 .. Len(tags) + 1, at[i] < at[j] PROVE i < j
  <2>1. at[i] \in Nat /\ at[j] \in Nat
    BY DEF Along
  <2>2. CASE j < i
    <3>1. at[j] < at[i]
      BY <1>5, <2>2
    <3> QED BY <1>6, <2>1, <3>1
  <2>3. CASE i = j
    BY <1>6, <2>1, <2>3
  <2> QED BY <2>2, <2>3
<1> QED BY <1>5, <1>6

LEMMA PlacesCover ==
    ASSUME NEW ref, NEW tags, Len(tags) \in Nat, NEW at, Along(ref, tags, at), NEW p \in Nat,
           at[1] < p, p <= at[Len(tags) + 1]
    PROVE  \E k \in 1 .. Len(tags) : at[k] < p /\ p <= at[k + 1]
<1> DEFINE S == {k \in Nat : k \in 1 .. Len(tags) + 1 /\ p <= at[k]}
<1>1. Len(tags) + 1 \in S /\ S \subseteq Nat /\ S # {}
  OBVIOUS
<1>2. Min(S) \in S /\ \A y \in S : Min(S) <= y
  <2> HIDE DEF S
  <2> QED BY <1>1, MinOfPlaces
<1> DEFINE m == Min(S)
<1> HIDE DEF m
<1>3. m \in 1 .. Len(tags) + 1 /\ p <= at[m] /\ \A k \in 1 .. Len(tags) + 1 : p <= at[k] => m <= k
  BY <1>2 DEF m
<1>4. \A k \in 1 .. Len(tags) + 1 : at[k] \in Nat
  BY DEF Along
<1>5. m # 1
  BY <1>3, <1>4
<1>6. m - 1 \in 1 .. Len(tags) /\ m - 1 \in 1 .. Len(tags) + 1 /\ (m - 1) + 1 = m
  BY <1>3, <1>5
<1>7. at[m - 1] < p
  <2>1. ~ (p <= at[m - 1])
    BY <1>3, <1>6
  <2> QED BY <1>4, <1>6, <2>1
<1> QED BY <1>3, <1>6, <1>7

LEMMA ZeroAlong ==
    ASSUME NEW ref, NEW tags, Len(tags) \in Nat, NEW at, Along(ref, tags, at), NEW p \in Nat,
           at[1] < p, p <= at[Len(tags) + 1], Buffer(ref.buffer)[p] = 0
    PROVE  \E k \in 1 .. Len(tags) : p = at[k + 1]
<1>1. PICK k \in 1 .. Len(tags) : at[k] < p /\ p <= at[k + 1]
  BY PlacesCover
<1>2. at[k] \in Nat /\ at[k + 1] = at[k] + Len(tags[k]) + 1 /\ Len(tags[k]) \in Nat
  BY DEF Along
<1>3. CASE p < at[k + 1]
  <2>1. p - at[k] \in 1 .. Len(tags[k]) /\ at[k] + (p - at[k]) = p
    BY <1>1, <1>2, <1>3
  <2>2. Buffer(ref.buffer)[at[k] + (p - at[k])] # 0
    BY <2>1 DEF Along
  <2> QED BY <2>1, <2>2
<1>4. CASE p = at[k + 1]
  BY <1>4
<1> QED BY <1>1, <1>2, <1>3, <1>4

LEMMA ListEndAlong ==
    ASSUME NEW ref, ref.offset \in Nat, NEW tags, Len(tags) \in Nat, NEW at, Along(ref, tags, at),
           Len(Buffer(ref.buffer)) \in Nat
    PROVE  Min(ListEnds(ref)) = at[Len(tags) + 1] + 1
<1> DEFINE N == Len(tags)
           b == Buffer(ref.buffer)
           z == at[N + 1] + 1
<1>1. N \in Nat \ {0} /\ at[1] = ref.offset /\ \A k \in 1 .. N + 1 : at[k] \in Nat
  BY DEF Along
<1>2. z \in Nat /\ z <= Len(b) /\ b[z] = 0 /\ b[at[N + 1]] = 0 /\ at[1] < at[N + 1]
  <2>1. N + 1 \in 1 .. N + 1 /\ 1 \in 1 .. N + 1 /\ 1 < N + 1 /\ N \in 1 .. N
    BY <1>1
  <2>2. at[1] < at[N + 1]
    BY <2>1, PlacesRise
  <2>3. b[at[N + 1]] = 0
    BY <2>1 DEF Along
  <2>4. at[N + 1] + 1 <= Len(b) /\ b[at[N + 1] + 1] = 0
    BY DEF Along
  <2>5. at[N + 1] \in Nat
    BY <1>1, <2>1
  <2> QED BY <2>2, <2>3, <2>4, <2>5
<1>3. z \in ListEnds(ref)
  <2>1. z \in Nuls(ref)
    BY <1>1, <1>2 DEF Nuls
  <2>2. z - 1 = at[N + 1]
    BY <1>1, <1>2
  <2>3. Buffer(ref.buffer)[z - 1] = 0
    BY <1>2, <2>2
  <2> HIDE DEF z, b
  <2> QED BY <2>1, <2>3 DEF ListEnds
<1>4. ListEnds(ref) \subseteq Nat
  BY DEF ListEnds, Nuls
<1>5. ASSUME NEW p \in ListEnds(ref), p < z PROVE FALSE
  <2>1. p \in Nuls(ref) /\ (p = ref.offset + 1 \/ b[p - 1] = 0)
    BY <1>2, <1>5 DEF ListEnds
  <2>2. p \in Nat /\ at[1] < p /\ p <= at[N + 1] /\ b[p] = 0
    BY <1>1, <1>5, <2>1 DEF Nuls
  <2>3. PICK k \in 1 .. N : p = at[k + 1]
    BY <2>2, ZeroAlong
  <2>4. /\ p = at[k] + Len(tags[k]) + 1 /\ Len(tags[k]) \in Nat \ {0} /\ at[k] \in Nat
        /\ \A j \in 1 .. Len(tags[k]) : b[at[k] + j] # 0
    BY <2>3 DEF Along
  <2>5. p - 1 = at[k] + Len(tags[k])
    BY <2>2, <2>4
  <2>6. b[p - 1] # 0
    <3> HIDE DEF b
    <3> QED BY <2>4, <2>5
  <2>7. p = at[1] + 1
    BY <1>1, <2>1, <2>6
  <2>8. at[k] < at[1] + 1 /\ at[k] # at[1]
    BY <1>1, <2>4, <2>7
  <2>9. k \in 1 .. N + 1 /\ 1 \in 1 .. N + 1 /\ at[k] < at[1]
    BY <1>1, <2>4, <2>8
  <2>10. k < 1
    BY <2>9, PlacesRise
  <2> QED BY <2>10
<1>6. Min(ListEnds(ref)) \in ListEnds(ref) /\ Min(ListEnds(ref)) <= z
  <2>1. ListEnds(ref) # {}
    BY <1>3
  <2> QED BY <1>3, <1>4, <2>1, MinOfPlaces
<1>7. Min(ListEnds(ref)) \in Nat /\ ~ (Min(ListEnds(ref)) < z)
  BY <1>4, <1>5, <1>6
<1> QED BY <1>2, <1>6, <1>7

LEMMA ListStartsAlong ==
    ASSUME NEW ref, ref.offset \in Nat, NEW tags, Len(tags) \in Nat, NEW at, Along(ref, tags, at),
           Len(Buffer(ref.buffer)) \in Nat
    PROVE  /\ \A k \in 1 .. Len(tags) : at[k] + 1 \in ListStarts(ref)
           /\ \A p \in ListStarts(ref) : \E k \in 1 .. Len(tags) : p = at[k] + 1
<1> DEFINE N == Len(tags)
           b == Buffer(ref.buffer)
<1>1. N \in Nat \ {0} /\ at[1] = ref.offset /\ \A k \in 1 .. N + 1 : at[k] \in Nat
  BY DEF Along
<1>2. ListStarts(ref) = {p \in at[1] + 1 .. at[N + 1] : p = at[1] + 1 \/ b[p - 1] = 0}
  <2>1. at[N + 1] + 1 - 1 = at[N + 1]
    BY <1>1
  <2> QED BY <1>1, <2>1, ListEndAlong DEF ListStarts
<1>3. ASSUME NEW k \in 1 .. N PROVE at[k] + 1 \in ListStarts(ref)
  <2>1. k \in 1 .. N + 1 /\ 1 \in 1 .. N + 1 /\ N + 1 \in 1 .. N + 1 /\ k < N + 1
    BY <1>1
  <2>2. at[k] < at[N + 1] /\ at[k] \in Nat /\ at[1] \in Nat /\ at[N + 1] \in Nat
    BY <1>1, <2>1, PlacesRise
  <2>3. CASE k = 1
    BY <1>2, <2>2, <2>3
  <2>4. CASE k # 1
    <3>1. k - 1 \in 1 .. N /\ (k - 1) + 1 = k /\ 1 < k
      BY <1>1, <2>4
    <3>2. b[at[k]] = 0
      <4>1. b[at[(k - 1) + 1]] = 0
        BY <3>1 DEF Along
      <4> QED BY <3>1, <4>1
    <3>3. at[1] < at[k]
      BY <2>1, <3>1, PlacesRise
    <3>4. at[k] + 1 - 1 = at[k] /\ at[k] + 1 \in at[1] + 1 .. at[N + 1]
      BY <2>2, <3>3
    <3> DEFINE q == at[k] + 1
    <3>5. b[q - 1] = 0 /\ q \in at[1] + 1 .. at[N + 1]
      <4>1. q - 1 = at[k] /\ q \in at[1] + 1 .. at[N + 1]
        BY <2>2, <3>4
      <4> HIDE DEF q, b
      <4> QED BY <3>2, <4>1
    <3> HIDE DEF b, q
    <3>6. q \in ListStarts(ref)
      BY <1>2, <3>5
    <3> QED BY <3>6 DEF q
  <2> QED BY <2>3, <2>4
<1>4. ASSUME NEW p \in ListStarts(ref) PROVE \E k \in 1 .. N : p = at[k] + 1
  <2>1. p \in at[1] + 1 .. at[N + 1] /\ (p = at[1] + 1 \/ b[p - 1] = 0)
    BY <1>2
  <2>2. CASE p = at[1] + 1
    <3>1. 1 \in 1 .. N
      BY <1>1
    <3> QED BY <2>2, <3>1
  <2>3. CASE p # at[1] + 1
    <3>1. p - 1 \in Nat /\ at[1] < p - 1 /\ p - 1 <= at[N + 1] /\ p - 1 < at[N + 1] /\ b[p - 1] = 0
      BY <1>1, <2>1, <2>3
    <3>2. PICK k \in 1 .. N : p - 1 = at[k + 1]
      BY <3>1, ZeroAlong
    <3>3. k + 1 \in 1 .. N + 1 /\ N + 1 \in 1 .. N + 1
      BY <1>1
    <3>4. k + 1 < N + 1
      BY <3>1, <3>2, <3>3, PlacesRise
    <3>5. k + 1 \in 1 .. N /\ p = at[k + 1] + 1
      BY <1>1, <2>1, <3>2, <3>3, <3>4
    <3> QED BY <3>5
  <2> QED BY <2>2, <2>3
<1> QED BY <1>3, <1>4

(* A list of tags is read as it was stored: neither a tag of the next list *)
(* nor a part of one is taken for another.                                 *)
LEMMA ListHeld ==
    ASSUME NEW s, Holds(s), NEW ref, IsRef(ref), NEW tags, tags \in Seq(Seq(Word)), TagsAt(s, ref, tags)
    PROVE  HasCStringList(ref) /\ CStringList(ref) = tags
<1>1. CASE tags = <<>>
  <2>1. IsNull(ref)
    BY <1>1 DEF TagsAt
  <2> QED BY <1>1, <2>1 DEF HasCStringList, CStringList
<1>2. CASE tags # <<>>
  <2> DEFINE N == Len(tags)
             b == Buffer(ref.buffer)
  <2>1. PICK at \in [1 .. N + 1 -> 0 .. Len(s.buffers[ref.buffer + 1])] :
             /\ at[1] = ref.offset /\ TextAt(s, Ref(ref.buffer, at[N + 1]), <<>>)
             /\ \A k \in DOMAIN tags : NameAt(s, Ref(ref.buffer, at[k]), tags[k]) /\ at[k + 1] = at[k] + Len(tags[k]) + 1
    BY <1>2 DEF TagsAt
  <2>2. /\ N \in Nat /\ N # 0 /\ DOMAIN tags = 1 .. N /\ \A k \in 1 .. N : tags[k] \in Seq(Word)
        /\ ref.offset \in Nat /\ ref.buffer \in Nat
    BY <1>2 DEF IsRef
  <2>3. HasBuffer(ref.buffer) /\ b = s.buffers[ref.buffer + 1] /\ b \in Seq(Word) /\ Len(b) \in Nat
    <3>1. HasCells(s, ref.buffer, Ref(ref.buffer, at[N + 1]).offset + Len(Append(<<>>, 0)))
      BY <2>1 DEF TextAt, DataAt, Ref
    <3>2. Ref(ref.buffer, at[N + 1]).offset + Len(Append(<<>>, 0)) \in Int
      <4>0. N + 1 \in 1 .. N + 1
        BY <2>2
      <4>1. at[N + 1] \in Int
        <5>1. at[N + 1] \in 0 .. Len(s.buffers[ref.buffer + 1])
          BY <2>1, <4>0
        <5> QED BY <5>1
      <4> QED BY <4>1 DEF Ref
    <3>3. b \in Seq(Word)
      BY <2>2, <3>1, <3>2, CellsHeld
    <3> QED BY <2>2, <3>1, <3>2, <3>3, CellsHeld
  <2>4. \A k \in 1 .. N + 1 : at[k] \in Nat /\ at[k] <= Len(b)
    BY <2>1, <2>3
  <2>5. ASSUME NEW k \in 1 .. N
        PROVE  /\ HasCString(Ref(ref.buffer, at[k])) /\ CString(Ref(ref.buffer, at[k])) = tags[k]
               /\ at[k + 1] = at[k] + Len(tags[k]) + 1 /\ Len(tags[k]) \in Nat \ {0}
               /\ \A j \in 1 .. Len(tags[k]) : b[at[k] + j] # 0
               /\ b[at[k + 1]] = 0
    <3> DEFINE r == Ref(ref.buffer, at[k])
               t == tags[k]
    <3>1. IsRef(r) /\ r.buffer = ref.buffer /\ r.offset = at[k]
      BY <2>2, <2>4 DEF IsRef, Ref
    <3>2. t \in Seq(Word) /\ TextAt(s, r, t) /\ t # <<>> /\ at[k + 1] = at[k] + Len(t) + 1
      BY <2>1, <2>2 DEF NameAt
    <3> HIDE DEF r, t
    <3>3. /\ HasCString(r) /\ CString(r) = t /\ Buffer(r.buffer)[r.offset + Len(t) + 1] = 0
          /\ \A j \in 1 .. Len(t) : Buffer(r.buffer)[r.offset + j] # 0
      <4>1. /\ HasCString(r) /\ CString(r) = t /\ Buffer(r.buffer)[r.offset + Len(t) + 1] = 0
            /\ \A j \in 1 .. Len(t) : Buffer(r.buffer)[r.offset + j] = t[j] /\ t[j] # 0
        BY <3>1, <3>2, TextHeld
      <4>2. ASSUME NEW j \in 1 .. Len(t) PROVE Buffer(r.buffer)[r.offset + j] # 0
        BY <4>1
      <4> QED BY <4>1, <4>2
    <3>4. Len(t) \in Nat \ {0}
      BY <3>2
    <3>5. b[at[k + 1]] = 0 /\ \A j \in 1 .. Len(t) : b[at[k] + j] # 0
      BY <3>1, <3>2, <3>3
    <3> QED BY <3>2, <3>3, <3>4, <3>5 DEF r, t
  <2>6. at[N + 1] + 1 <= Len(b) /\ b[at[N + 1] + 1] = 0
    <3> DEFINE r == Ref(ref.buffer, at[N + 1])
    <3>1. at[N + 1] \in Nat
      BY <2>2, <2>4
    <3>2. IsRef(r) /\ r.buffer = ref.buffer /\ r.offset = at[N + 1]
      BY <2>2, <3>1 DEF IsRef, Ref
    <3>3. <<>> \in Seq(Word) /\ TextAt(s, r, <<>>)
      BY <2>1
    <3> HIDE DEF r
    <3>4. r.offset + Len(<<>>) + 1 <= Len(Buffer(r.buffer)) /\ Buffer(r.buffer)[r.offset + Len(<<>>) + 1] = 0
      BY <3>2, <3>3, TextHeld
    <3>5. r.offset + Len(<<>>) + 1 = at[N + 1] + 1
      BY <3>1, <3>2
    <3> QED BY <3>2, <3>4, <3>5
  <2>7. Along(ref, tags, at)
    BY <2>1, <2>2, <2>4, <2>5, <2>6 DEF Along
  <2>8. ~ IsNull(ref)
    <3>1. ref.buffer # AllOnes
      <4>1. ref.buffer < Len(s.buffers) /\ Len(s.buffers) \in Word
        BY <2>3 DEF HasBuffer, Holds
      <4> QED BY <2>2, <4>1, ArenaAssumption
    <3> QED BY <3>1 DEF IsNull, Ref
  <2> DEFINE S == ListStarts(ref)
             e == [k \in 1 .. N |-> at[k] + 1]
  <2>9. \A k \in 1 .. N : e[k] = at[k] + 1 /\ e[k] - 1 = at[k] /\ e[k] \in Nat
    BY <2>2, <2>4
  <2> HIDE DEF S, e
  <2>15. (\A k \in 1 .. N : e[k] \in S) /\ (\A p \in S : \E k \in 1 .. N : p = e[k])
    <3>1. ref.offset \in Nat /\ Len(tags) \in Nat /\ Len(Buffer(ref.buffer)) \in Nat
      BY <2>2, <2>3
    <3>2. /\ \A k \in 1 .. N : at[k] + 1 \in S
          /\ \A p \in S : \E k \in 1 .. N : p = at[k] + 1
      BY <2>7, <3>1, ListStartsAlong DEF S
    <3> QED BY <2>9, <3>2
  <2>10. \A i, j \in 1 .. N : <<e[i], e[j]>> \in Less(S) <=> i < j
    <3> SUFFICES ASSUME NEW i \in 1 .. N, NEW j \in 1 .. N PROVE <<e[i], e[j]>> \in Less(S) <=> i < j
      OBVIOUS
    <3>1. i < j <=> at[i] < at[j]
      <4>1. i \in 1 .. N + 1 /\ j \in 1 .. N + 1
        BY <2>2
      <4> QED BY <2>2, <2>7, <4>1, PlacesRise
    <3>2. e[i] < e[j] <=> at[i] < at[j]
      BY <2>2, <2>4, <2>9
    <3>3. e[i] \in S /\ e[j] \in S
      BY <2>15
    <3> QED BY <3>1, <3>2, <3>3 DEF Less
  <2>11. DOMAIN Sorted(S, Less(S)) = 1 .. N /\ \A k \in 1 .. N : Sorted(S, Less(S))[k] = e[k]
    <3>1. N \in Nat
      BY <2>2
    <3> DEFINE R == Less(S)
    <3>2. \A i, j \in 1 .. N : <<e[i], e[j]>> \in R <=> i < j
      BY <2>10
    <3> HIDE DEF N, R
    <3>4. InOrder(N, e, S, R)
      BY <2>15, <3>2 DEF InOrder
    <3>3. DOMAIN Sorted(S, R) = 1 .. N /\ \A k \in 1 .. N : Sorted(S, R)[k] = e[k]
      BY <3>1, <3>4, SortedIs
    <3> QED BY <3>3 DEF R
  <2>12. CStringList(ref) = [k \in 1 .. N |-> tags[k]]
    <3>1. CStringList(ref) = [k \in 1 .. N |-> CString(Ref(ref.buffer, Sorted(S, Less(S))[k] - 1))]
      BY <2>8, <2>11 DEF CStringList, S
    <3>2. ASSUME NEW k \in 1 .. N PROVE CString(Ref(ref.buffer, Sorted(S, Less(S))[k] - 1)) = tags[k]
      <4>1. Sorted(S, Less(S))[k] - 1 = at[k]
        BY <2>9, <2>11
      <4> QED BY <2>5, <4>1
    <3> QED BY <3>1, <3>2
  <2>13. CStringList(ref) = tags
    BY <2>2, <2>12
  <2>14. HasCStringList(ref)
    <3>1. ASSUME NEW p \in ListStarts(ref) PROVE HasCString(Ref(ref.buffer, p - 1))
      <4>1. PICK k \in 1 .. N : p = e[k]
        BY <2>15 DEF S
      <4>2. p - 1 = at[k]
        BY <2>9, <4>1
      <4> QED BY <2>5, <4>2
    <3> QED BY <2>3, <3>1 DEF HasCStringList
  <2> QED BY <2>13, <2>14
<1> QED BY <1>1, <1>2

-----------------------------------------------------------------------------
LEMMA FewerCells ==
    ASSUME NEW s, Holds(s), NEW b \in Nat, NEW m \in Nat, NEW n \in Nat, m <= n, HasCells(s, b, n)
    PROVE  HasCells(s, b, m)
<1>1. b + 1 \in 1 .. Len(s.buffers)
  BY DEF Holds, HasCells
<1>2. Len(s.buffers[b + 1]) \in Nat
  BY <1>1 DEF Holds
<1> QED BY <1>2 DEF HasCells

(* What stands in a buffer is made of words.                               *)
LEMMA TextOfWords ==
    ASSUME NEW s, Holds(s), NEW ref, IsRef(ref), NEW t, t \in Seq(Int), TextAt(s, ref, t)
    PROVE  t \in Seq(Word)
<1> DEFINE u == Append(t, 0)
           b == Buffer(ref.buffer)
<1>1. Len(t) \in Nat /\ Len(u) = Len(t) + 1 /\ \A k \in 1 .. Len(t) : u[k] = t[k]
  OBVIOUS
<1>2. ref.buffer \in Nat /\ ref.offset \in Nat
  BY DEF IsRef
<1>3. /\ b = s.buffers[ref.buffer + 1] /\ b \in Seq(Word)
      /\ ref.offset + Len(u) <= Len(b)
  BY <1>1, <1>2, CellsHeld DEF TextAt, DataAt
<1>4. ASSUME NEW k \in 1 .. Len(t) PROVE t[k] \in Word
  <2>1. k \in 1 .. Len(u)
    BY <1>1
  <2>2. b[ref.offset + k] = u[k]
    BY <1>3, <2>1 DEF TextAt, DataAt
  <2>3. ref.offset + k \in 1 .. Len(b)
    <3> HIDE DEF u, b
    <3> QED BY <1>1, <1>2, <1>3
  <2>4. b[ref.offset + k] \in Word
    BY <1>3, <2>3
  <2> QED BY <1>1, <2>2, <2>4
<1> QED BY <1>1, <1>4

(* One meta of a list that was stored.                                     *)
LEMMA MetaHeld ==
    ASSUME NEW s, Holds(s), NEW ref, IsRef(ref), NEW metas, metas \in Seq(SavedMeta), metas # <<>>,
           MetasAt(s, ref, metas), NEW i \in 0 .. Len(metas) - 1
    PROVE  /\ HasBuffer(ref.buffer) /\ MetaRoom(ref, i) /\ Known(ref, i)
           /\ LastMeta(ref, i) <=> i + 1 = Len(metas)
           /\ HasCString(MetaNameRef(ref, i)) /\ CString(MetaNameRef(ref, i)) = metas[i + 1].identifier
           /\ InMeta(ref, i, 5) = metas[i + 1].type
           /\ InMeta(ref, i, 5) = MetaType.string => HasCString(MetaTextRef(ref, i))
           /\ MetaValue(ref, i) = metas[i + 1].value
<1> DEFINE N == Len(metas)
           off == ref.offset + SIZEOF_META * i
           c == Struct(s, ref.buffer, off, SIZEOF_META)
           m == metas[i + 1]
<1>1. N \in Nat /\ i \in Nat /\ i + 1 \in DOMAIN metas /\ ref.buffer \in Nat /\ ref.offset \in Nat /\ (i + 1) - 1 = i
  BY DEF IsRef
<1>2. off \in Nat /\ off + SIZEOF_META <= ref.offset + SIZEOF_META * N /\ ref.offset + SIZEOF_META * N \in Nat
  BY <1>1 DEF SIZEOF_META
<1>3. m \in SavedMeta /\ m.identifier \in Seq(Word) /\ m.value \in Seq(Int)
  <2>1. m \in SavedMeta
    BY <1>1
  <2> HIDE DEF m
  <2> QED BY <2>1 DEF SavedMeta
<1>4. MetaAt(s, c, m) /\ (HasBit(c[6], LAST_IN_RULE) <=> i + 1 = N)
  BY <1>1 DEF MetasAt
<1>5. HasCells(s, ref.buffer, off + SIZEOF_META)
  <2>1. HasCells(s, ref.buffer, ref.offset + SIZEOF_META * N)
    BY DEF MetasAt
  <2>2. off + SIZEOF_META \in Nat
    BY <1>2 DEF SIZEOF_META
  <2> HIDE DEF off, N
  <2> QED BY <1>1, <1>2, <2>1, <2>2, FewerCells
<1>6. SIZEOF_META \in Nat /\ 0 .. SIZEOF_META - 1 = 0 .. 6 /\ 0 .. SIZEOF_META - 2 = 0 .. 5
  BY DEF SIZEOF_META
<1> HIDE DEF off, c, m
<1>7. /\ HasBuffer(ref.buffer) /\ Room(ref.buffer, off, SIZEOF_META)
      /\ \A n \in 0 .. 6 : c[n] = Field(ref.buffer, off, n)
      /\ \A n \in 0 .. 5 : RefOf(c, n) = RefAt(ref.buffer, off, n) /\ IsRef(RefAt(ref.buffer, off, n))
  <2>1. /\ HasBuffer(ref.buffer) /\ Room(ref.buffer, off, SIZEOF_META)
        /\ \A n \in 0 .. SIZEOF_META - 1 : c[n] = Field(ref.buffer, off, n)
        /\ \A n \in 0 .. SIZEOF_META - 2 :
             RefOf(c, n) = RefAt(ref.buffer, off, n) /\ IsRef(RefAt(ref.buffer, off, n))
    <3> DEFINE size == SIZEOF_META
    <3>1. size \in Nat /\ HasCells(s, ref.buffer, off + size) /\ off \in Nat /\ ref.buffer \in Nat /\ c = Struct(s, ref.buffer, off, size)
      BY <1>1, <1>2, <1>5, <1>6 DEF c
    <3> HIDE DEF size
    <3>2. /\ HasBuffer(ref.buffer) /\ Room(ref.buffer, off, size)
          /\ \A n \in 0 .. size - 1 : c[n] = Field(ref.buffer, off, n)
          /\ \A n \in 0 .. size - 2 :
               RefOf(c, n) = RefAt(ref.buffer, off, n) /\ IsRef(RefAt(ref.buffer, off, n))
      BY <3>1, StructHeld
    <3> QED BY <3>2 DEF size
  <2> QED BY <1>6, <2>1
<1>8. MetaRoom(ref, i) /\ \A n \in 0 .. 6 : InMeta(ref, i, n) = c[n]
  BY <1>7 DEF MetaRoom, InMeta, MetaOff, off
<1>9. /\ MetaNameRef(ref, i) = RefOf(c, 0) /\ MetaTextRef(ref, i) = RefOf(c, 2)
      /\ IsRef(RefOf(c, 0)) /\ IsRef(RefOf(c, 2))
  BY <1>7 DEF MetaNameRef, MetaTextRef, MetaOff, off
<1>10. HasCString(RefOf(c, 0)) /\ CString(RefOf(c, 0)) = m.identifier
  BY <1>3, <1>4, <1>9, TextHeld DEF MetaAt
<1>11. InMeta(ref, i, 5) = m.type /\ InMeta(ref, i, 4) = c[4] /\ InMeta(ref, i, 6) = c[6]
  BY <1>4, <1>8 DEF MetaAt
<1>12. CASE m.type = MetaType.string /\ TextAt(s, RefOf(c, 2), m.value)
  <2>1. m.value \in Seq(Word)
    BY <1>3, <1>9, <1>12, TextOfWords
  <2>2. HasCString(RefOf(c, 2)) /\ CString(RefOf(c, 2)) = m.value
    BY <1>9, <1>12, <2>1, TextHeld
  <2>3. Known(ref, i)
    BY <1>11, <1>12 DEF Known, MetaType
  <2>4. MetaValue(ref, i) = m.value
    <3>1. InMeta(ref, i, 5) = MetaType.string /\ InMeta(ref, i, 5) # MetaType.boolean
      BY <1>11, <1>12 DEF MetaType
    <3> QED BY <1>9, <2>2, <3>1 DEF MetaValue
  <2> QED BY <1>4, <1>7, <1>8, <1>9, <1>10, <1>11, <2>2, <2>3, <2>4 DEF LastMeta, m
<1>13. CASE m.type = MetaType.boolean /\ m.value = <<IF c[4] = 0 THEN 0 ELSE 1>>
  <2>1. Known(ref, i) /\ InMeta(ref, i, 5) # MetaType.string
    BY <1>11, <1>13 DEF Known, MetaType
  <2>2. MetaValue(ref, i) = m.value
    BY <1>11, <1>13, <2>1 DEF MetaValue
  <2> QED BY <1>4, <1>7, <1>8, <1>9, <1>10, <1>11, <2>1, <2>2 DEF LastMeta, m
<1>14. CASE m.type = MetaType.integer /\ m.value = <<Signed(c[4])>>
  <2>1. Known(ref, i) /\ InMeta(ref, i, 5) # MetaType.string /\ InMeta(ref, i, 5) # MetaType.boolean
    BY <1>11, <1>14 DEF Known, MetaType
  <2>2. MetaValue(ref, i) = m.value
    BY <1>11, <1>14, <2>1 DEF MetaValue
  <2> QED BY <1>4, <1>7, <1>8, <1>9, <1>10, <1>11, <2>1, <2>2 DEF LastMeta, m
<1> QED BY <1>4, <1>12, <1>13, <1>14 DEF MetaAt

(* The list ends where it was stored to end.                               *)
LEMMA NumMetasHeld ==
    ASSUME NEW s, Holds(s), NEW ref, IsRef(ref), NEW metas, metas \in Seq(SavedMeta), metas # <<>>,
           MetasAt(s, ref, metas)
    PROVE  NumMetas(ref) = Len(metas) /\ HasBuffer(ref.buffer) /\ ~ IsNull(ref)
<1> DEFINE N == Len(metas)
           Unread == {i \in Places(ref) : ~ MetaRoom(ref, i) \/ ~ Known(ref, i)}
           Marked == {i + 1 : i \in {j \in Places(ref) : MetaRoom(ref, j) /\ LastMeta(ref, j)}}
           T == Unread \cup Marked
<1>1. N \in Nat \ {0} /\ ref.buffer \in Nat /\ ref.offset \in Nat /\ N - 1 \in 0 .. N - 1 /\ (N - 1) + 1 = N
  BY DEF IsRef
<1>2. /\ HasBuffer(ref.buffer) /\ MetaRoom(ref, N - 1)
      /\ LastMeta(ref, N - 1) <=> N = N
  BY <1>1, MetaHeld
<1>3. N - 1 \in Places(ref) /\ Len(Buffer(ref.buffer)) \in Nat /\ ~ IsNull(ref)
  <2>1. HasCells(s, ref.buffer, ref.offset + SIZEOF_META * N) /\ ref.offset + SIZEOF_META * N \in Int
    BY <1>1 DEF MetasAt, SIZEOF_META
  <2>2. /\ Buffer(ref.buffer) \in Seq(Word) /\ ref.offset + 7 * N <= Len(Buffer(ref.buffer))
        /\ ref.buffer < AllOnes
    BY <1>1, <2>1, CellsHeld DEF SIZEOF_META
  <2>3. Len(Buffer(ref.buffer)) \in Nat
    BY <2>2
  <2>4. N - 1 <= Len(Buffer(ref.buffer)) \div 7
    BY <1>1, <2>2, <2>3
  <2>5. ref.buffer # AllOnes
    BY <1>1, <2>2
  <2> QED BY <1>1, <2>3, <2>4, <2>5 DEF Places, SIZEOF_META, IsNull, Ref
<1>4. N \in T
  BY <1>1, <1>2, <1>3
<1>5. Places(ref) \subseteq Nat
  BY <1>3 DEF Places, SIZEOF_META
<1>6. T \subseteq Nat
  BY <1>5
<1>7. ASSUME NEW x \in T, x < N PROVE FALSE
  <2>1. CASE x \in Unread
    <3>1. x \in 0 .. N - 1
      BY <1>1, <1>5, <1>7, <2>1
    <3>2. MetaRoom(ref, x) /\ Known(ref, x)
      BY <3>1, MetaHeld
    <3> QED BY <2>1, <3>2
  <2>2. CASE x \in Marked
    <3>1. PICK i \in Places(ref) : x = i + 1 /\ LastMeta(ref, i)
      BY <2>2
    <3>2. i \in 0 .. N - 1 /\ i + 1 # N
      <4>1. i \in Nat /\ i + 1 < N
        BY <1>5, <1>7, <3>1
      <4> HIDE DEF N
      <4> QED BY <1>1, <4>1
    <3>3. LastMeta(ref, i) <=> i + 1 = N
      BY <3>2, MetaHeld
    <3> QED BY <3>1, <3>2, <3>3
  <2> QED BY <2>1, <2>2
<1> HIDE DEF T
<1>8. Min(T) \in T /\ Min(T) <= N
  <2>1. T # {}
    BY <1>4
  <2> QED BY <1>4, <1>6, <2>1, MinOfPlaces
<1>9. Min(T) = N
  <2>1. Min(T) \in Nat /\ ~ (Min(T) < N)
    BY <1>6, <1>7, <1>8
  <2> QED BY <1>1, <1>8, <2>1
<1> QED BY <1>2, <1>3, <1>9 DEF NumMetas, T

(* A rule gets its own metas, and none of the next rule's; and only a list *)
(* that is too long is refused.                                            *)
LEMMA MetasHeld ==
    ASSUME NEW s, Holds(s), NEW ref, IsRef(ref), NEW metas, metas \in Seq(SavedMeta), MetasAt(s, ref, metas)
    PROVE  Metas(ref) = metas /\ (Len(metas) <= MaxMetas + 1 => MetasReadable(ref))
<1>1. CASE metas = <<>>
  <2>1. IsNull(ref)
    BY <1>1 DEF MetasAt
  <2> QED BY <1>1, <2>1 DEF Metas, MetasReadable
<1>2. CASE metas # <<>>
  <2> DEFINE N == Len(metas)
  <2>1. NumMetas(ref) = N /\ HasBuffer(ref.buffer) /\ ~ IsNull(ref) /\ N \in Nat \ {0}
    BY <1>2, NumMetasHeld
  <2>2. ASSUME NEW k \in 1 .. N
        PROVE  metas[k] = [identifier |-> CString(MetaNameRef(ref, k - 1)),
                           type       |-> InMeta(ref, k - 1, 5),
                           value      |-> MetaValue(ref, k - 1)]
    <3>1. k - 1 \in 0 .. N - 1 /\ (k - 1) + 1 = k
      BY <2>1
    <3>2. /\ CString(MetaNameRef(ref, k - 1)) = metas[k].identifier /\ InMeta(ref, k - 1, 5) = metas[k].type
          /\ MetaValue(ref, k - 1) = metas[k].value
      BY <1>2, <3>1, MetaHeld
    <3>3. metas[k] \in SavedMeta
      OBVIOUS
    <3> QED BY <3>2, <3>3 DEF SavedMeta
  <2>3. Metas(ref) = [k \in 1 .. N |-> metas[k]]
    BY <2>1, <2>2 DEF Metas
  <2>4. Metas(ref) = metas
    BY <2>3
  <2>5. ASSUME N <= MaxMetas + 1 PROVE MetasReadable(ref)
    <3>1. \A i \in 0 .. N - 1 :
            /\ HasCString(MetaNameRef(ref, i))
            /\ InMeta(ref, i, 5) = MetaType.string => HasCString(MetaTextRef(ref, i))
      BY <1>2, MetaHeld
    <3>2. LastMeta(ref, N - 1)
      <4>1. N - 1 \in 0 .. N - 1 /\ (N - 1) + 1 = N
        BY <2>1
      <4>2. LastMeta(ref, N - 1) <=> N = N
        BY <1>2, <4>1, MetaHeld
      <4> QED BY <4>2
    <3>3. N = MaxMetas + 1 => LastMeta(ref, MaxMetas)
      <4>1. MaxMetas \in Nat
        BY MaxMetasAssumption
      <4>2. N = MaxMetas + 1 => MaxMetas = N - 1
        BY <2>1, <4>1
      <4> QED BY <3>2, <4>2
    <3>4. N > 0
      BY <2>1
    <3> HIDE DEF N
    <3> QED BY <2>1, <2>5, <3>1, <3>2, <3>3, <3>4 DEF MetasReadable
  <2> QED BY <2>4, <2>5
<1> QED BY <1>1, <1>2

-----------------------------------------------------------------------------
(* The strings of a rule are gathered by an index and come in their order. *)
LEMMA StringsHeld ==
    ASSUME NEW s, strings = s.strings, s.strings \in Seq(SavedString),
           \A p, q \in DOMAIN s.strings : p < q => s.strings[p].index < s.strings[q].index,
           NEW i, NEW own, own \in Seq(SavedString), RuleStrings(s, i, own)
    PROVE  StringsOf(i) = own
<1> DEFINE N == Len(own)
           S == StringsIn(i)
           R == ByIndex(S)
<1>1. PICK first \in 0 .. Len(s.strings) :
        /\ first + N <= Len(s.strings)
        /\ \A n \in DOMAIN own : own[n] = s.strings[first + n]
        /\ \A p \in DOMAIN s.strings : s.strings[p].rule_index = i <=> p \in first + 1 .. first + N
  BY DEF RuleStrings
<1>2. /\ N \in Nat /\ first \in Nat /\ DOMAIN own = 1 .. N
      /\ Len(s.strings) \in Nat /\ DOMAIN s.strings = 1 .. Len(s.strings)
      /\ first + 1 .. first + N \subseteq DOMAIN s.strings
  BY <1>1
<1> DEFINE e == [n \in 1 .. N |-> first + n]
<1>3. S = first + 1 .. first + N
  BY <1>1, <1>2 DEF StringsIn
<1>4. \A n \in 1 .. N : e[n] = first + n /\ e[n] \in S
  BY <1>2, <1>3
<1>5. ASSUME NEW p \in S PROVE \E k \in 1 .. N : p = e[k]
  <2>1. p - first \in 1 .. N /\ p = first + (p - first)
    BY <1>2, <1>3
  <2> QED BY <1>4, <2>1
<1>6. \A p \in DOMAIN s.strings : s.strings[p].index \in Nat
  <2>1. \A p \in DOMAIN s.strings : s.strings[p] \in SavedString
    OBVIOUS
  <2>2. \A p \in DOMAIN s.strings : s.strings[p].index \in Word
    BY <2>1 DEF SavedString
  <2> QED BY <2>2, WordFacts
<1>7. ASSUME NEW p \in S, NEW q \in S PROVE <<p, q>> \in R <=> p < q
  <2>1. p \in DOMAIN s.strings /\ q \in DOMAIN s.strings /\ p \in Nat /\ q \in Nat
    BY <1>2, <1>3
  <2>2. s.strings[p].index \in Nat /\ s.strings[q].index \in Nat
    BY <1>6, <2>1
  <2>3. /\ p < q => s.strings[p].index < s.strings[q].index
        /\ q < p => s.strings[q].index < s.strings[p].index
    BY <2>1
  <2>4. <<p, q>> \in R <=>
          \/ s.strings[p].index < s.strings[q].index
          \/ s.strings[p].index = s.strings[q].index /\ p < q
    <3> HIDE DEF S
    <3> QED BY DEF ByIndex
  <2>5. p < q \/ q < p \/ p = q
    BY <2>1
  <2> HIDE DEF R
  <2> QED BY <2>1, <2>2, <2>3, <2>4, <2>5
<1>8. InOrder(N, e, S, R)
  <2>1. ASSUME NEW k \in 1 .. N, NEW j \in 1 .. N PROVE <<e[k], e[j]>> \in R <=> k < j
    <3>1. e[k] < e[j] <=> k < j
      BY <1>2, <1>4
    <3>2. e[k] \in S /\ e[j] \in S
      BY <1>4
    <3> HIDE DEF e, S, R
    <3> QED BY <1>7, <3>1, <3>2
  <2> HIDE DEF e, S, R
  <2> QED BY <1>4, <1>5, <2>1 DEF InOrder
<1> HIDE DEF e
<1>9. DOMAIN Sorted(S, R) = 1 .. N /\ \A k \in 1 .. N : Sorted(S, R)[k] = e[k]
  <2> HIDE DEF S, R, N
  <2> QED BY <1>2, <1>8, SortedIs
<1>10. StringsOf(i) = [k \in 1 .. N |-> s.strings[Sorted(S, R)[k]]]
  BY <1>9 DEF StringsOf
<1>11. \A k \in 1 .. N : s.strings[Sorted(S, R)[k]] = own[k]
  <2> HIDE DEF S, R
  <2> QED BY <1>1, <1>2, <1>4, <1>9
<1>12. StringsOf(i) = [k \in 1 .. N |-> own[k]]
  <2> HIDE DEF S, R
  <2> QED BY <1>10, <1>11
<1> QED BY <1>2, <1>12

-----------------------------------------------------------------------------
(* The readers, at the next entry of each table.                           *)
LEMMA SummaryHeld ==
    ASSUME NEW s, Holds(s), Compiled(s)
    PROVE  /\ HasSummary
           /\ Field(SUMMARY_SECTION, 0, 0) = Len(s.rules) /\ Field(SUMMARY_SECTION, 0, 1) = Len(s.strings)
           /\ Field(SUMMARY_SECTION, 0, 2) = Len(s.namespaces)
<1> DEFINE c == Struct(s, SUMMARY_SECTION, 0, SIZEOF_SUMMARY)
<1>1. /\ HasCells(s, SUMMARY_SECTION, 0 + SIZEOF_SUMMARY) /\ SUMMARY_SECTION \in Nat /\ SIZEOF_SUMMARY = 3
      /\ c[0] = Len(s.rules) /\ c[1] = Len(s.strings) /\ c[2] = Len(s.namespaces)
  <2>1. HasCells(s, SUMMARY_SECTION, SIZEOF_SUMMARY) /\ 0 + SIZEOF_SUMMARY = SIZEOF_SUMMARY
    BY DEF Compiled, SIZEOF_SUMMARY
  <2> QED BY <2>1 DEF Compiled, SUMMARY_SECTION, SIZEOF_SUMMARY
<1>2. /\ HasBuffer(SUMMARY_SECTION) /\ Room(SUMMARY_SECTION, 0, SIZEOF_SUMMARY)
      /\ \A n \in 0 .. SIZEOF_SUMMARY - 1 : c[n] = Field(SUMMARY_SECTION, 0, n)
  BY <1>1, StructHeld
<1>3. \A n \in 0 .. 2 : c[n] = Field(SUMMARY_SECTION, 0, n)
  BY <1>1, <1>2
<1>4. HasSummary
  <2>1. Buffer(SUMMARY_SECTION) \in Seq(Word)
    BY <1>1, CellsHeld
  <2>2. Len(Buffer(SUMMARY_SECTION)) >= SIZEOF_SUMMARY
    BY <1>1, <1>2, <2>1 DEF Room
  <2> QED BY <1>2, <2>2 DEF HasSummary
<1> HIDE DEF c
<1> QED BY <1>1, <1>3, <1>4

LEMMA NameHeld ==
    ASSUME NEW s, Holds(s), NEW ref, IsRef(ref), NEW t, t \in Seq(Word), NameAt(s, ref, t), NEW other
    PROVE  HasCString(ref) /\ NameOr(ref, other) = t
BY TextHeld DEF NameAt, NameOr

(* What a reader finds in an entry that was stored.                        *)
Finds(b, off, size, c) ==
    /\ HasBuffer(b) /\ Room(b, off, size)
    /\ \A n \in 0 .. size - 1 : c[n] = Field(b, off, n) /\ Field(b, off, n) \in Word
    /\ \A n \in 0 .. size - 2 : RefOf(c, n) = RefAt(b, off, n) /\ IsRef(RefAt(b, off, n))

LEMMA EntryFound ==
    ASSUME NEW s, Holds(s), NEW b \in Nat, NEW size \in Nat, NEW off \in Nat, NEW all \in Nat,
           off + size <= all, HasCells(s, b, all)
    PROVE  Finds(b, off, size, Struct(s, b, off, size))
<1>1. HasCells(s, b, off + size)
  BY FewerCells
<1> QED BY <1>1, StructHeld DEF Finds

LEMMA NamespaceHeld ==
    ASSUME NEW s, Holds(s), Compiled(s), Len(namespaces) \in Nat, Len(namespaces) < Len(s.namespaces)
    PROVE  NamespaceReadable /\ NameOr(NamespaceRef, Invented(0)) = s.namespaces[Len(namespaces) + 1]
<1> DEFINE i == Len(namespaces) + 1
           c == Struct(s, NAMESPACES_TABLE, NamespaceOff, SIZEOF_NAMESPACE)
<1>1. /\ i \in DOMAIN s.namespaces /\ s.namespaces[i] \in Seq(Word) /\ NAMESPACES_TABLE \in Nat
      /\ NamespaceOff = SIZEOF_NAMESPACE * (i - 1) /\ NamespaceOff \in Nat /\ SIZEOF_NAMESPACE = 2
  BY DEF Compiled, NamespaceOff, SIZEOF_NAMESPACE, NAMESPACES_TABLE
<1>2. Finds(NAMESPACES_TABLE, NamespaceOff, SIZEOF_NAMESPACE, c)
  <2> DEFINE all == SIZEOF_NAMESPACE * Len(s.namespaces)
  <2>1. HasCells(s, NAMESPACES_TABLE, all)
    BY DEF Compiled
  <2>2. all \in Nat /\ NamespaceOff + SIZEOF_NAMESPACE <= all /\ SIZEOF_NAMESPACE \in Nat
    BY <1>1 DEF Compiled, NamespaceOff, SIZEOF_NAMESPACE
  <2> HIDE DEF all
  <2> QED BY <1>1, <2>1, <2>2, EntryFound
<1>3. NameAt(s, RefOf(c, 0), s.namespaces[i])
  BY <1>1 DEF Compiled
<1> HIDE DEF i, c
<1>4. /\ HasBuffer(NAMESPACES_TABLE) /\ Room(NAMESPACES_TABLE, NamespaceOff, SIZEOF_NAMESPACE)
      /\ RefOf(c, 0) = NamespaceRef /\ IsRef(NamespaceRef)
  <2>1. 0 \in 0 .. SIZEOF_NAMESPACE - 2
    BY <1>1
  <2> QED BY <1>2, <2>1 DEF Finds, NamespaceRef
<1>5. HasCString(NamespaceRef) /\ NameOr(NamespaceRef, Invented(0)) = s.namespaces[i]
  BY <1>1, <1>3, <1>4, NameHeld
<1> QED BY <1>4, <1>5 DEF NamespaceReadable, i

-----------------------------------------------------------------------------
(* The string that ReadString appends.                                     *)
StringRead ==
    [index      |-> InString(1),
     identifier |-> NameOr(StringNameRef, Invented(Len(strings))),
     rule_index |-> InString(3),
     data       |-> LiteralData,
     re_code    |-> Program,
     fixed      |-> IF HasBit(InString(0), FIXED_OFFSET) THEN {InString(2)} ELSE {},
     chained_to |-> ChainedTo,
     gap        |-> <<Signed(InString(9)), Signed(InString(10))>>]

LEMMA StringHeld ==
    ASSUME NEW s, Holds(s), Compiled(s), Len(strings) \in Nat, Len(strings) < Len(s.strings)
    PROVE  StringReadable /\ StringRead = s.strings[Len(strings) + 1]
<1> DEFINE i == Len(strings) + 1
           c == Struct(s, STRINGS_TABLE, StringOff, SIZEOF_STRING)
           x == s.strings[i]
<1>1. /\ i \in DOMAIN s.strings /\ x \in SavedString /\ STRINGS_TABLE \in Nat
      /\ StringOff = SIZEOF_STRING * (i - 1) /\ StringOff \in Nat /\ SIZEOF_STRING = 13
  BY DEF Compiled, StringOff, SIZEOF_STRING, STRINGS_TABLE
<1>2. Finds(STRINGS_TABLE, StringOff, SIZEOF_STRING, c)
  <2> DEFINE all == SIZEOF_STRING * Len(s.strings)
  <2>1. HasCells(s, STRINGS_TABLE, all)
    BY DEF Compiled
  <2>2. all \in Nat /\ StringOff + SIZEOF_STRING <= all /\ SIZEOF_STRING \in Nat
    BY <1>1 DEF Compiled, StringOff, SIZEOF_STRING
  <2> HIDE DEF all
  <2> QED BY <1>1, <2>1, <2>2, EntryFound
<1>3. StringAt(s, c, x)
  BY <1>1 DEF Compiled
<1>4. /\ x.identifier \in Seq(Word) /\ x.data \in Seq(Word)
      /\ x = [index |-> x.index, identifier |-> x.identifier, rule_index |-> x.rule_index, data |-> x.data,
              re_code |-> x.re_code, fixed |-> x.fixed, chained_to |-> x.chained_to, gap |-> x.gap]
  <2> HIDE DEF x
  <2> QED BY <1>1 DEF SavedString
<1> HIDE DEF i, c, x
<1>5. \A n \in 0 .. 12 : InString(n) = c[n] /\ c[n] \in Word
  <2>1. ASSUME NEW n \in 0 .. 12 PROVE InString(n) = c[n] /\ c[n] \in Word
    <3>1. n \in 0 .. SIZEOF_STRING - 1
      BY <1>1
    <3> QED BY <1>2, <3>1 DEF Finds, InString
  <2> QED BY <2>1
<1>6. /\ PatternRef = RefOf(c, 5) /\ ChainRef = RefOf(c, 7) /\ StringNameRef = RefOf(c, 11)
      /\ IsRef(PatternRef) /\ IsRef(StringNameRef)
  <2>1. 5 \in 0 .. SIZEOF_STRING - 2 /\ 7 \in 0 .. SIZEOF_STRING - 2 /\ 11 \in 0 .. SIZEOF_STRING - 2
    BY <1>1
  <2> QED BY <1>2, <2>1 DEF Finds, PatternRef, ChainRef, StringNameRef
<1>7. /\ InString(0) = c[0] /\ InString(1) = c[1] /\ InString(2) = c[2] /\ InString(3) = c[3]
      /\ InString(4) = c[4] /\ InString(9) = c[9] /\ InString(10) = c[10] /\ c[4] \in Word
  BY <1>5
<1>8. HasCString(StringNameRef) /\ NameOr(StringNameRef, Invented(Len(strings))) = x.identifier
  BY <1>3, <1>4, <1>6, NameHeld DEF StringAt
<1>9. LiteralData = x.data /\ Program = x.re_code
  <2>1. CASE HasBit(c[0], LITERAL)
    <3>1. DataAt(s, PatternRef, x.data) /\ c[4] = Len(x.data) /\ c[4] # AllOnes /\ x.re_code = {}
      BY <1>3, <1>6, <2>1 DEF StringAt
    <3>2. Readable(PatternRef, c[4]) /\ Read(PatternRef, c[4]) = x.data
      BY <1>4, <1>6, <3>1, DataHeld
    <3>3. Signed(c[4]) >= 0
      <4>1. c[4] \in Nat /\ Signed(c[4]) = c[4]
        BY <1>7, <3>1, WordFacts DEF Signed
      <4> QED BY <4>1
    <3> QED BY <1>7, <2>1, <3>1, <3>2, <3>3 DEF LiteralData, Program
  <2>2. CASE ~ HasBit(c[0], LITERAL)
    <3>1. x.data = <<>> /\ x.re_code = IF IsNull(PatternRef) THEN {} ELSE {PatternRef}
      BY <1>3, <1>6, <2>2 DEF StringAt
    <3> QED BY <1>7, <2>2, <3>1 DEF LiteralData, Program
  <2> QED BY <2>1, <2>2
<1>10. ChainedTo = x.chained_to
  <2>1. CASE IsNull(ChainRef) /\ x.chained_to = {}
    BY <2>1 DEF ChainedTo
  <2>2. CASE \E k \in 0 .. Len(s.strings) - 1 :
               ChainRef = Ref(STRINGS_TABLE, SIZEOF_STRING * k) /\ x.chained_to = {k}
    <3>1. PICK k \in 0 .. Len(s.strings) - 1 :
               ChainRef = Ref(STRINGS_TABLE, SIZEOF_STRING * k) /\ x.chained_to = {k}
      BY <2>2
    <3>2. ChainRef.buffer = STRINGS_TABLE /\ ChainRef.offset = 13 * k /\ k \in Nat
      BY <3>1 DEF Ref, SIZEOF_STRING
    <3>3. ChainRef.offset \div SIZEOF_STRING = k
      BY <3>2 DEF SIZEOF_STRING
    <3>4. ~ IsNull(ChainRef)
      BY <3>2 DEF IsNull, Ref, STRINGS_TABLE
    <3> QED BY <3>1, <3>2, <3>3, <3>4 DEF ChainedTo
  <2> QED BY <1>3, <1>6, <2>1, <2>2 DEF StringAt
<1>11. /\ x.index = c[1] /\ x.rule_index = c[3] /\ x.gap = <<Signed(c[9]), Signed(c[10])>>
       /\ x.fixed = IF HasBit(c[0], FIXED_OFFSET) THEN {c[2]} ELSE {}
  BY <1>3 DEF StringAt
<1>12. StringRead = x
  BY <1>4, <1>7, <1>8, <1>9, <1>10, <1>11 DEF StringRead
<1>13. StringReadable
  BY <1>2, <1>8 DEF Finds, StringReadable
<1> QED BY <1>12, <1>13 DEF x, i

(* The rule that ReadRule appends.                                         *)
RuleRead ==
    [identifier |-> NameOr(RuleNameRef, Invented(Len(rules))),
     flags      |-> RuleFlags,
     tags       |-> CStringList(TagsRef),
     metas      |-> Metas(MetasRef),
     namespace  |-> NamespaceOf,
     strings    |-> StringsOf(Len(rules))]

LEMMA RuleHeld ==
    ASSUME NEW s, Holds(s), Compiled(s), Len(rules) \in Nat, Len(rules) < Len(s.rules),
           namespaces = s.namespaces, strings = s.strings
    PROVE  /\ ~ NullRule /\ RuleRead = s.rules[Len(rules) + 1]
           /\ Len(s.rules[Len(rules) + 1].metas) <= MaxMetas + 1 => RuleReadable
<1> DEFINE i == Len(rules) + 1
           c == Struct(s, RULES_TABLE, RuleOff, SIZEOF_RULE)
           x == s.rules[i]
<1>1. /\ i \in DOMAIN s.rules /\ x \in SavedRule /\ RULES_TABLE \in Nat /\ i - 1 = Len(rules)
      /\ RuleOff = SIZEOF_RULE * (i - 1) /\ RuleOff \in Nat /\ SIZEOF_RULE = 9
  BY DEF Compiled, RuleOff, SIZEOF_RULE, RULES_TABLE
<1>2. Finds(RULES_TABLE, RuleOff, SIZEOF_RULE, c)
  <2> DEFINE all == SIZEOF_RULE * Len(s.rules)
  <2>1. HasCells(s, RULES_TABLE, all)
    BY DEF Compiled
  <2>2. all \in Nat /\ RuleOff + SIZEOF_RULE <= all /\ SIZEOF_RULE \in Nat
    BY <1>1 DEF Compiled, RuleOff, SIZEOF_RULE
  <2> HIDE DEF all
  <2> QED BY <1>1, <2>1, <2>2, EntryFound
<1>3. RuleAt(s, c, x) /\ RuleStrings(s, Len(rules), x.strings)
  BY <1>1 DEF Compiled
<1>4. /\ x.identifier \in Seq(Word) /\ x.tags \in Seq(Seq(Word)) /\ x.metas \in Seq(SavedMeta)
      /\ x.strings \in Seq(SavedString)
      /\ x = [identifier |-> x.identifier, flags |-> x.flags, tags |-> x.tags, metas |-> x.metas,
              namespace |-> x.namespace, strings |-> x.strings]
  <2> HIDE DEF x
  <2> QED BY <1>1 DEF SavedRule
<1> HIDE DEF i, c, x
<1>5. /\ RuleNameRef = RefOf(c, 1) /\ TagsRef = RefOf(c, 3) /\ MetasRef = RefOf(c, 5) /\ NsRef = RefOf(c, 7)
      /\ IsRef(RuleNameRef) /\ IsRef(TagsRef) /\ IsRef(MetasRef)
      /\ RuleFlags = x.flags
  <2>1. /\ 1 \in 0 .. SIZEOF_RULE - 2 /\ 3 \in 0 .. SIZEOF_RULE - 2 /\ 5 \in 0 .. SIZEOF_RULE - 2
        /\ 7 \in 0 .. SIZEOF_RULE - 2 /\ 0 \in 0 .. SIZEOF_RULE - 1
    BY <1>1
  <2>2. Field(RULES_TABLE, RuleOff, 0) = c[0] /\ c[0] % 16 = x.flags
    BY <1>2, <1>3, <2>1 DEF Finds, RuleAt
  <2> QED BY <1>2, <2>1, <2>2 DEF Finds, RuleNameRef, TagsRef, MetasRef, NsRef, RuleFlags
<1>6. HasCString(RuleNameRef) /\ NameOr(RuleNameRef, Invented(Len(rules))) = x.identifier
  BY <1>3, <1>4, <1>5, NameHeld DEF RuleAt
<1>7. HasCStringList(TagsRef) /\ CStringList(TagsRef) = x.tags
  BY <1>3, <1>4, <1>5, ListHeld DEF RuleAt
<1>8. Metas(MetasRef) = x.metas /\ (Len(x.metas) <= MaxMetas + 1 => MetasReadable(MetasRef))
  BY <1>3, <1>4, <1>5, MetasHeld DEF RuleAt
<1>9. StringsOf(Len(rules)) = x.strings
  <2>1. /\ s.strings \in Seq(SavedString)
        /\ \A p, q \in DOMAIN s.strings : p < q => s.strings[p].index < s.strings[q].index
    BY DEF Compiled
  <2> QED BY <1>3, <1>4, <2>1, StringsHeld
<1>10. NamespaceOf = x.namespace
  <2>1. PICK k \in DOMAIN s.namespaces :
           NsRef = Ref(NAMESPACES_TABLE, SIZEOF_NAMESPACE * (k - 1)) /\ x.namespace = {s.namespaces[k]}
    BY <1>3, <1>5 DEF RuleAt
  <2>2. k \in 1 .. Len(s.namespaces) /\ Len(s.namespaces) \in Nat
    BY <2>1 DEF Compiled
  <2>3. NsRef.buffer = 0 /\ NsRef.offset = 2 * (k - 1)
    BY <2>1 DEF Ref, SIZEOF_NAMESPACE, NAMESPACES_TABLE
  <2>4. NsRef.offset \div SIZEOF_NAMESPACE = k - 1
    BY <2>2, <2>3 DEF SIZEOF_NAMESPACE
  <2>5. ~ IsNull(NsRef)
    <3>1. AllOnes # 0
      <4>1. HasCells(s, NAMESPACES_TABLE, SIZEOF_NAMESPACE * Len(s.namespaces)) /\ SIZEOF_NAMESPACE * Len(s.namespaces) \in Int
        BY <2>2 DEF Compiled, SIZEOF_NAMESPACE
      <4>2. NAMESPACES_TABLE < AllOnes
        BY <4>1, CellsHeld DEF NAMESPACES_TABLE
      <4> QED BY <4>2 DEF NAMESPACES_TABLE
    <3> QED BY <2>3, <3>1 DEF IsNull, Ref
  <2>6. k - 1 < Len(namespaces) /\ (k - 1) + 1 = k
    BY <2>2
  <2> QED BY <2>1, <2>4, <2>5, <2>6 DEF NamespaceOf
<1>11. RuleRead = x
  BY <1>4, <1>5, <1>6, <1>7, <1>8, <1>9, <1>10 DEF RuleRead
<1>12. RuleRoom
  BY <1>2 DEF Finds, RuleRoom
<1>13. ~ NullRule
  BY <1>3, <1>5 DEF RuleAt, NullRule
<1> QED BY <1>6, <1>7, <1>8, <1>11, <1>12, <1>13 DEF RuleReadable, x, i

-----------------------------------------------------------------------------
(* The tables as far as they were read are those that were saved.          *)
Begins(read, saved) == Len(read) <= Len(saved) /\ \A k \in 1 .. Len(read) : read[k] = saved[k]

AsSaved ==
    file.kind # "corrupt" =>
        /\ phase \notin Early => buffers = file.saved.buffers
        /\ phase \in Reading =>
             /\ summary.namespaces = Len(file.saved.namespaces) /\ summary.strings = Len(file.saved.strings)
             /\ summary.rules = Len(file.saved.rules)
        /\ Begins(namespaces, file.saved.namespaces)
        /\ Begins(strings, file.saved.strings) /\ Begins(rules, file.saved.rules)
        /\ phase \in {"strings", "rules", "loaded"} => namespaces = file.saved.namespaces
        /\ phase \in {"rules", "loaded"} => strings = file.saved.strings
        /\ phase = "loaded" => rules = file.saved.rules

LEMMA FileFacts ==
    ASSUME Saved, file.kind # "corrupt"
    PROVE  Written(file) /\ Compiled(file.saved)
BY WriterAssumption, CompilerAssumption DEF Saved, Cut

LEMMA TableFacts ==
    ASSUME NEW s, Compiled(s)
    PROVE  /\ Len(s.namespaces) \in Nat /\ Len(s.strings) \in Nat /\ Len(s.rules) \in Nat
           /\ OwnSeq(s.namespaces) /\ OwnSeq(s.strings) /\ OwnSeq(s.rules)
<1>1. s.namespaces \in Seq(Seq(Word)) /\ s.strings \in Seq(SavedString) /\ s.rules \in Seq(SavedRule)
  BY DEF Compiled
<1>2. \A S : \A q \in Seq(S) : Len(q) \in Nat /\ OwnSeq(q)
  BY DEF OwnSeq
<1> QED BY <1>1, <1>2

LEMMA BuffersHeld ==
    ASSUME Saved, AsSaved, file.kind # "corrupt", phase \notin Early
    PROVE  Holds(file.saved)
BY FileFacts DEF AsSaved, Holds, Written

(* One more is read as it was saved; when all are read, they are the table.*)
LEMMA OneMore ==
    ASSUME NEW read, OwnSeq(read), NEW saved, Len(saved) \in Nat, Begins(read, saved),
           Len(read) < Len(saved), NEW x, x = saved[Len(read) + 1]
    PROVE  Begins(Append(read, x), saved)
<1>1. /\ Len(read) \in Nat /\ Len(Append(read, x)) = Len(read) + 1
      /\ \A k \in 1 .. Len(read) + 1 : Append(read, x)[k] = IF k <= Len(read) THEN read[k] ELSE x
  BY OwnFacts, AppendOwn, AppendIs
<1>2. ASSUME NEW k \in 1 .. Len(read) + 1 PROVE Append(read, x)[k] = saved[k]
  <2>1. CASE k <= Len(read)
    <3>1. k \in 1 .. Len(read)
      BY <1>1, <2>1
    <3> QED BY <1>1, <2>1, <3>1 DEF Begins
  <2>2. CASE ~ (k <= Len(read))
    <3>1. k = Len(read) + 1
      BY <1>1, <2>2
    <3> QED BY <1>1, <2>2, <3>1
  <2> QED BY <2>1, <2>2
<1> HIDE DEF Begins
<1> QED BY <1>1, <1>2 DEF Begins

LEMMA AllRead ==
    ASSUME NEW read, OwnSeq(read), NEW saved, OwnSeq(saved), Begins(read, saved), Len(read) = Len(saved)
    PROVE  read = saved
<1>1. DOMAIN read = 1 .. Len(read) /\ DOMAIN saved = 1 .. Len(read) /\ \A k \in 1 .. Len(read) : read[k] = saved[k]
  BY OwnFacts DEF Begins
<1>2. read = [k \in 1 .. Len(read) |-> read[k]] /\ saved = [k \in 1 .. Len(read) |-> saved[k]]
  <2>1. \A q : OwnSeq(q) => q = [k \in 1 .. Len(q) |-> q[k]]
    BY DEF OwnSeq
  <2> QED BY <2>1
<1> QED BY <1>1, <1>2

LEMMA InitAsSaved == Init => AsSaved
<1> SUFFICES ASSUME Init, file.kind # "corrupt" PROVE AsSaved
  BY DEF AsSaved
<1>1. Compiled(file.saved)
  BY CompilerAssumption DEF Init, ArenaInit
<1>2. \A t : Len(t) \in Nat => Begins(<<>>, t)
  BY DEF Begins
<1>3. /\ Begins(namespaces, file.saved.namespaces) /\ Begins(strings, file.saved.strings)
      /\ Begins(rules, file.saved.rules)
  BY <1>1, <1>2, TableFacts DEF Init
<1>4. phase = "header"
  BY DEF Init, ArenaInit
<1> QED BY <1>3, <1>4 DEF AsSaved, Early, Reading

-----------------------------------------------------------------------------
LEMMA ArenaAsSaved ==
    ASSUME Saved, AsSaved, Parse, UNCHANGED tableVars
    PROVE  AsSaved'
<1> SUFFICES ASSUME file.kind # "corrupt" PROVE AsSaved'
  <2>1. file' = file
    BY DEF Parse, ReadHeader, ReadTable, CutBuffers, ReadRelocation, EndRelocations, RaiseArenaError
  <2> QED BY <2>1 DEF AsSaved
<1>1. CASE CutBuffers
  <2>1. buffers' = file.saved.buffers /\ phase' = "relocations" /\ file' = file
    BY <1>1, CutAsSaved DEF CutBuffers
  <2> QED BY <2>1 DEF AsSaved, tableVars, Reading
<1>2. CASE ReadHeader \/ ReadTable \/ RaiseArenaError
  <2>1. phase' \in Early /\ phase' \notin Reading /\ phase' \notin {"strings", "rules", "loaded"} /\ file' = file
    BY <1>2 DEF ReadHeader, ReadTable, RaiseArenaError, Early, Reading
  <2> QED BY <2>1 DEF AsSaved, tableVars
<1>3. CASE ReadRelocation \/ EndRelocations
  <2>1. /\ phase \notin Early /\ phase' \notin Reading /\ phase' \notin {"strings", "rules", "loaded"} /\ file' = file
        /\ buffers' = buffers
    BY <1>3 DEF ReadRelocation, EndRelocations, Early, Reading
  <2> QED BY <2>1 DEF AsSaved, tableVars
<1> QED BY <1>1, <1>2, <1>3 DEF Parse

LEMMA TablesAsSaved ==
    ASSUME Saved, AsSaved, ParseTables
    PROVE  AsSaved'
<1>1. file' = file /\ buffers' = buffers
  BY DEF ParseTables, ReadSummary, ReadNamespace, EndNamespaces, ReadString, EndStrings, ReadRule, EndRules,
         RaiseTableError, Stays
<1> SUFFICES ASSUME file.kind # "corrupt" PROVE AsSaved'
  BY <1>1 DEF AsSaved
<1> DEFINE s == file.saved
<1>2. Compiled(s) /\ (phase \notin Early => Holds(s)) /\ (phase \notin Early => buffers = s.buffers)
  BY FileFacts, BuffersHeld DEF AsSaved
<1>3. OwnSeq(namespaces) /\ OwnSeq(strings) /\ OwnSeq(rules)
  <2>1. \A q \in Seq(Name) : OwnSeq(q)
    BY DEF OwnSeq
  <2> QED BY <2>1 DEF Saved, Typed, TypeOK
<1>4. /\ Len(s.namespaces) \in Nat /\ Len(s.strings) \in Nat /\ Len(s.rules) \in Nat
      /\ OwnSeq(s.namespaces) /\ OwnSeq(s.strings) /\ OwnSeq(s.rules)
      /\ Len(namespaces) \in Nat /\ Len(strings) \in Nat /\ Len(rules) \in Nat
  BY <1>2, <1>3, TableFacts, OwnFacts
<1>5. /\ Begins(namespaces, s.namespaces) /\ Begins(strings, s.strings) /\ Begins(rules, s.rules)
      /\ phase \in Reading =>
           summary.namespaces = Len(s.namespaces) /\ summary.strings = Len(s.strings) /\ summary.rules = Len(s.rules)
      /\ phase \in {"strings", "rules", "loaded"} => namespaces = s.namespaces
      /\ phase \in {"rules", "loaded"} => strings = s.strings
  BY DEF AsSaved
<1> HIDE DEF s
<1>6. CASE ReadSummary
  <2>1. phase = "summary" /\ phase \notin Early
    BY <1>6 DEF ReadSummary, Early
  <2>2. /\ summary'.namespaces = Len(s.namespaces) /\ summary'.strings = Len(s.strings)
        /\ summary'.rules = Len(s.rules)
    BY <1>2, <1>6, <2>1, SummaryHeld DEF ReadSummary
  <2> QED BY <1>1, <1>2, <1>5, <1>6, <2>1, <2>2 DEF ReadSummary, AsSaved, s, Early
<1>7. CASE ReadNamespace
  <2>1. phase = "namespaces" /\ phase \notin Early /\ phase \in Reading
    BY <1>7 DEF ReadNamespace, Early, Reading
  <2>2. Len(namespaces) < Len(s.namespaces)
    BY <1>5, <1>7, <2>1 DEF ReadNamespace
  <2>3. NameOr(NamespaceRef, Invented(0)) = s.namespaces[Len(namespaces) + 1]
    BY <1>2, <1>4, <2>1, <2>2, NamespaceHeld
  <2>4. Begins(namespaces', s.namespaces)
    BY <1>3, <1>4, <1>5, <1>7, <2>2, <2>3, OneMore DEF ReadNamespace
  <2> QED BY <1>1, <1>2, <1>5, <1>7, <2>1, <2>4 DEF ReadNamespace, AsSaved, s
<1>8. CASE ReadString
  <2>1. phase = "strings" /\ phase \notin Early /\ phase \in Reading
    BY <1>8 DEF ReadString, Early, Reading
  <2>2. Len(strings) < Len(s.strings)
    BY <1>5, <1>8, <2>1 DEF ReadString
  <2>3. StringRead = s.strings[Len(strings) + 1]
    BY <1>2, <1>4, <2>1, <2>2, StringHeld
  <2>4. strings' = Append(strings, StringRead)
    BY <1>8 DEF ReadString, StringRead
  <2>5. Begins(strings', s.strings)
    BY <1>3, <1>4, <1>5, <2>2, <2>3, <2>4, OneMore
  <2> QED BY <1>1, <1>2, <1>5, <1>8, <2>1, <2>5 DEF ReadString, AsSaved, s
<1>9. CASE ReadRule
  <2>1. phase = "rules" /\ phase \notin Early /\ phase \in Reading
    BY <1>9 DEF ReadRule, Early, Reading
  <2>2. Len(rules) < Len(s.rules)
    BY <1>5, <1>9, <2>1 DEF ReadRule, MoreRules
  <2>3. RuleRead = s.rules[Len(rules) + 1]
    BY <1>2, <1>4, <1>5, <2>1, <2>2, RuleHeld
  <2>4. rules' = Append(rules, RuleRead)
    BY <1>9 DEF ReadRule, RuleRead
  <2>5. Begins(rules', s.rules)
    BY <1>3, <1>4, <1>5, <2>2, <2>3, <2>4, OneMore
  <2> QED BY <1>1, <1>2, <1>5, <1>9, <2>1, <2>5 DEF ReadRule, AsSaved, s
<1>10. CASE EndNamespaces
  <2>1. phase = "namespaces" /\ phase \notin Early /\ phase \in Reading /\ phase' = "strings" /\ UNCHANGED tableVars
    BY <1>10 DEF EndNamespaces, Early, Reading
  <2>2. namespaces = s.namespaces
    BY <1>3, <1>4, <1>5, <1>10, <2>1, AllRead DEF EndNamespaces
  <2> QED BY <1>1, <1>2, <1>5, <2>1, <2>2 DEF AsSaved, s, tableVars
<1>11. CASE EndStrings
  <2>1. phase = "strings" /\ phase \notin Early /\ phase \in Reading /\ phase' = "rules" /\ UNCHANGED tableVars
    BY <1>11 DEF EndStrings, Early, Reading
  <2>2. strings = s.strings
    BY <1>3, <1>4, <1>5, <1>11, <2>1, AllRead DEF EndStrings
  <2> QED BY <1>1, <1>2, <1>5, <2>1, <2>2 DEF AsSaved, s, tableVars
<1>12. CASE EndRules
  <2>1. phase = "rules" /\ phase \notin Early /\ phase \in Reading /\ phase' = "loaded" /\ UNCHANGED tableVars
    BY <1>12 DEF EndRules, Early, Reading
  <2>2. ~ (Len(rules) < Len(s.rules))
    <3>1. Len(rules) < Len(s.rules) => ~ NullRule
      BY <1>2, <1>4, <1>5, <2>1, RuleHeld
    <3>2. Len(rules) < Len(s.rules) => NullRule
      BY <1>5, <1>12, <2>1 DEF EndRules, MoreRules
    <3> QED BY <3>1, <3>2
  <2>3. Len(rules) = Len(s.rules)
    BY <1>4, <1>5, <2>2 DEF Begins
  <2>4. rules = s.rules
    BY <1>3, <1>4, <1>5, <2>3, AllRead
  <2> QED BY <1>1, <1>2, <1>5, <2>1, <2>4 DEF AsSaved, s, tableVars, Reading
<1>13. CASE RaiseTableError
  <2>1. phase' = "raised" /\ UNCHANGED tableVars
    BY <1>13 DEF RaiseTableError
  <2> QED BY <1>1, <1>5, <2>1 DEF AsSaved, s, tableVars, Reading, Early
<1> QED BY <1>6, <1>7, <1>8, <1>9, <1>10, <1>11, <1>12, <1>13 DEF ParseTables

LEMMA NextAsSaved == Saved /\ AsSaved /\ [Next]_vars => AsSaved'
<1> SUFFICES ASSUME Saved, AsSaved, [Next]_vars PROVE AsSaved'
  OBVIOUS
<1>1. CASE (Parse /\ UNCHANGED tableVars) \/ ParseTables
  BY <1>1, ArenaAsSaved, TablesAsSaved
<1>2. CASE Over \/ UNCHANGED vars
  <2>1. UNCHANGED <<file, phase, buffers, summary, namespaces, strings, rules>>
    BY <1>2 DEF Over, vars, arenaVars, tableVars
  <2> QED BY <2>1 DEF AsSaved
<1> QED BY <1>1, <1>2 DEF Next, Load

(* For every file that YARA's compiler wrote and that was since cut short  *)
(* or not, with any number of rules, strings, metas, tags and namespaces   *)
(* of any length, read strictly or not: if it is loaded, the tables are    *)
(* those that were saved, entry for entry (parser.py, the four readers and *)
(* their ends of a list).                                                  *)
THEOREM LoadedAsSavedHolds == Spec => []LoadedAsSaved
<1>1. AsSaved => LoadedAsSaved
  BY DEF AsSaved, LoadedAsSaved
<1> QED BY <1>1, InitSaved, NextSaved, InitAsSaved, NextAsSaved, PTL DEF Spec

-----------------------------------------------------------------------------
(* A file that is whole as far as it is read, without too many metas.      *)
Loadable ==
    /\ file.kind # "corrupt" /\ ~ TooManyMetas
    /\ file.kind = "whole" \/ (~ file.strict /\ Complete(file))

LEMMA LoadableFacts ==
    ASSUME Saved, Loadable
    PROVE  /\ Written(file) /\ Compiled(file.saved) /\ Complete(file)
           /\ HasTable(file) /\ file.saved.end \in Nat /\ Len(Data) \in Nat
<1>1. file.kind # "corrupt" /\ Written(file) /\ Compiled(file.saved) /\ Len(Data) \in Nat
  BY FileFacts, DataFacts DEF Loadable, Saved
<1>2. file.saved.end \in Nat
  BY <1>1 DEF Written
<1>3. Complete(file)
  <2>1. CASE file.kind = "whole"
    <3>1. PICK n \in Nat : Len(file.data) = file.saved.end + 2 * n + 1
      BY <1>1, <2>1 DEF Written
    <3> QED BY <1>2, <3>1 DEF Complete
  <2> QED BY <2>1 DEF Loadable
<1> QED BY <1>1, <1>2, <1>3 DEF Written

(* Nothing of such a file is refused: not its container, ...               *)
LEMMA ArenaLoads ==
    ASSUME Saved, Loadable
    PROVE  ~ RaiseArenaError
<1>1. /\ Written(file) /\ Complete(file) /\ HasTable(file) /\ file.saved.end \in Nat /\ Len(Data) \in Nat
  BY LoadableFacts
<1>2. GoodHeader
  BY <1>1 DEF Written, GoodHeader, HasTable, At, Data
<1>3. TablePresent
  BY <1>1 DEF HasTable, TablePresent, NumBuffers, At, Data
<1>4. ASSUME phase = "buffers", NEW i \in DOMAIN table PROVE InFile(table[i])
  <2>1. i \in 1 .. NumBuffers /\ table[i] = Entry(i) /\ NumBuffers = file.data[3]
    BY <1>4 DEF Saved, TableRead, NumBuffers, At, Data
  <2>2. table[i].offset + table[i].size = EndOf(file, i)
    BY <2>1 DEF Entry, EndOf, OffsetOf, SizeOf, At, Data, HeaderSize, EntrySize
  <2>3. EndOf(file, i) <= file.saved.end /\ file.saved.end <= Len(Data)
    BY <1>1, <2>1 DEF Written, Complete, Data
  <2>4. table[i].offset \in Nat /\ table[i].size \in Nat
    BY DEF Saved, Cut
  <2>5. table[i].offset + table[i].size <= Len(Data)
    BY <1>1, <2>2, <2>3, <2>4
  <2> QED BY <2>5 DEF InFile
<1>5. ASSUME phase = "relocations", file.strict, MoreRelocations PROVE EntryWhole
  <2>1. file.kind = "whole" /\ file.kind # "corrupt"
    BY <1>5 DEF Loadable
  <2>2. PICK i \in Nat : WalkedTo(i)
    BY <1>5, <2>1 DEF Saved, Walk
  <2>3. PICK n \in Nat : Len(Data) = file.saved.end + 2 * n + 1
    BY <1>1, <2>1 DEF Written, Data
  <2>4. pos = file.saved.end + 2 * i
    BY <2>2 DEF WalkedTo
  <2>5. Data[Len(Data)] = AllOnes
    BY <1>1, <2>1 DEF Written, Data
  <2>6. pos + 1 <= Len(Data) /\ Data[pos + 1] # AllOnes
    BY <1>5 DEF MoreRelocations, At
  <2>7. i # n
    BY <1>1, <2>3, <2>4, <2>5, <2>6
  <2>8. i < n
    BY <1>1, <2>3, <2>4, <2>6, <2>7
  <2> QED BY <1>1, <2>3, <2>4, <2>8 DEF EntryWhole
<1> QED BY <1>2, <1>3, <1>4, <1>5 DEF RaiseArenaError

(* ... nor any of its tables.                                              *)
LEMMA TablesLoad ==
    ASSUME Saved, AsSaved, Loadable
    PROVE  ~ RaiseTableError
<1> DEFINE s == file.saved
<1>1. /\ file.kind # "corrupt" /\ Compiled(s) /\ (phase \notin Early => Holds(s))
      /\ \A i \in DOMAIN s.rules : ~ (Len(s.rules[i].metas) > MaxMetas + 1)
  BY LoadableFacts, BuffersHeld DEF Loadable, TooManyMetas
<1>2. OwnSeq(namespaces) /\ OwnSeq(strings) /\ OwnSeq(rules)
  <2>1. \A q \in Seq(Name) : OwnSeq(q)
    BY DEF OwnSeq
  <2> QED BY <2>1 DEF Saved, Typed, TypeOK
<1>3. /\ Len(s.namespaces) \in Nat /\ Len(s.strings) \in Nat /\ Len(s.rules) \in Nat
      /\ Len(namespaces) \in Nat /\ Len(strings) \in Nat /\ Len(rules) \in Nat
  BY <1>1, <1>2, TableFacts, OwnFacts
<1>4. phase \in Reading =>
        summary.namespaces = Len(s.namespaces) /\ summary.strings = Len(s.strings) /\ summary.rules = Len(s.rules)
  BY <1>1 DEF AsSaved
<1>5. phase = "rules" => namespaces = s.namespaces /\ strings = s.strings
  BY <1>1 DEF AsSaved
<1>6. Holds(s) => HasBuffer(NAMESPACES_TABLE) /\ HasBuffer(STRINGS_TABLE) /\ HasBuffer(RULES_TABLE)
  <2> SUFFICES ASSUME Holds(s)
               PROVE  HasBuffer(NAMESPACES_TABLE) /\ HasBuffer(STRINGS_TABLE) /\ HasBuffer(RULES_TABLE)
    OBVIOUS
  <2>1. /\ SIZEOF_NAMESPACE * Len(s.namespaces) \in Int /\ SIZEOF_STRING * Len(s.strings) \in Int
        /\ SIZEOF_RULE * Len(s.rules) \in Int
        /\ NAMESPACES_TABLE \in Nat /\ STRINGS_TABLE \in Nat /\ RULES_TABLE \in Nat
    BY <1>3 DEF SIZEOF_NAMESPACE, SIZEOF_STRING, SIZEOF_RULE, NAMESPACES_TABLE, STRINGS_TABLE, RULES_TABLE
  <2>2. /\ HasCells(s, NAMESPACES_TABLE, SIZEOF_NAMESPACE * Len(s.namespaces))
        /\ HasCells(s, STRINGS_TABLE, SIZEOF_STRING * Len(s.strings))
        /\ HasCells(s, RULES_TABLE, SIZEOF_RULE * Len(s.rules))
    BY <1>1 DEF Compiled
  <2> HIDE DEF s
  <2> QED BY <2>1, <2>2, CellsHeld
<1>7. \A i \in DOMAIN s.rules : Len(s.rules[i].metas) <= MaxMetas + 1
  <2> SUFFICES ASSUME NEW i \in DOMAIN s.rules PROVE Len(s.rules[i].metas) <= MaxMetas + 1
    OBVIOUS
  <2>1. s.rules[i] \in SavedRule
    BY <1>1 DEF Compiled
  <2>2. s.rules[i].metas \in Seq(SavedMeta)
    BY <2>1 DEF SavedRule
  <2>3. Len(s.rules[i].metas) \in Nat
    BY <2>2
  <2> QED BY <1>1, <2>3, MaxMetasAssumption
<1> HIDE DEF s
<1>8. ASSUME phase \in Reading, phase = "rules", MoreRules, Holds(s) PROVE RuleReadable
  <2>1. Len(rules) < Len(s.rules)
    BY <1>4, <1>8 DEF MoreRules
  <2>2. Len(rules) + 1 \in DOMAIN s.rules
    BY <1>1, <1>3, <2>1 DEF Compiled
  <2> QED BY <1>1, <1>3, <1>5, <1>7, <1>8, <2>1, <2>2, RuleHeld
<1>9. /\ phase = "summary" => HasSummary
      /\ phase \in Reading => HasBuffer(NAMESPACES_TABLE) /\ HasBuffer(STRINGS_TABLE) /\ HasBuffer(RULES_TABLE)
  BY <1>1, <1>6, SummaryHeld DEF Early, Reading
<1>10. phase = "namespaces" /\ Len(namespaces) < summary.namespaces => NamespaceReadable
  BY <1>1, <1>3, <1>4, NamespaceHeld DEF Early, Reading
<1>11. phase = "strings" /\ Len(strings) < summary.strings => StringReadable
  BY <1>1, <1>3, <1>4, StringHeld DEF Early, Reading
<1>12. phase = "rules" /\ MoreRules => RuleReadable
  BY <1>1, <1>8 DEF Early, Reading
<1> QED BY <1>9, <1>10, <1>11, <1>12 DEF RaiseTableError, Reading

LEMMA InitLoads == Init => CompleteFileLoads
BY DEF Init, ArenaInit, CompleteFileLoads

LEMMA NextLoads == Saved /\ AsSaved /\ CompleteFileLoads /\ [Next]_vars => CompleteFileLoads'
<1> SUFFICES ASSUME Saved, AsSaved, CompleteFileLoads, [Next]_vars PROVE CompleteFileLoads'
  OBVIOUS
<1>1. file' = file
  <2>1. CASE Parse
    BY <2>1 DEF Parse, ReadHeader, ReadTable, CutBuffers, ReadRelocation, EndRelocations, RaiseArenaError
  <2>2. CASE ParseTables
    BY <2>2 DEF ParseTables, ReadSummary, ReadNamespace, EndNamespaces, ReadString, EndStrings, ReadRule, EndRules,
                RaiseTableError, Stays
  <2> QED BY <2>1, <2>2 DEF Next, Load, Over, vars, arenaVars
<1>2. (Loadable' <=> Loadable) /\ (Loadable => phase # "raised")
  BY <1>1 DEF Loadable, TooManyMetas, Complete, CompleteFileLoads
<1>3. phase' = "raised" => phase = "raised" \/ RaiseArenaError \/ RaiseTableError
  <2>1. CASE Parse
    BY <2>1 DEF Parse, ReadHeader, ReadTable, CutBuffers, ReadRelocation, EndRelocations
  <2>2. CASE ParseTables
    BY <2>2 DEF ParseTables, ReadSummary, ReadNamespace, EndNamespaces, ReadString, EndStrings, ReadRule, EndRules
  <2> QED BY <2>1, <2>2 DEF Next, Load, Over, vars, arenaVars
<1>4. Loadable => phase' # "raised"
  BY <1>2, <1>3, ArenaLoads, TablesLoad
<1> QED BY <1>2, <1>4 DEF CompleteFileLoads, Loadable

(* Such a file is never refused when nothing was cut from it, and with     *)
(* --lenient not when only its relocations were, unless a list of metas    *)
(* exceeds the bound of the reader (arena.py and parser.py, every raise).  *)
THEOREM CompleteFileLoadsHolds == Spec => []CompleteFileLoads
BY InitSaved, NextSaved, InitAsSaved, NextAsSaved, InitLoads, NextLoads, PTL DEF Spec
=============================================================================
