-------------------------- MODULE PatternLinkProofs --------------------------
(***************************************************************************)
(* Proofs about the loop over the patterns, for every file.  It implements *)
(* ReSection, so the theorems about every walk (the instance P of          *)
(* ReSectionProofs) hold of the walks it makes.                            *)
(***************************************************************************)
EXTENDS PatternLink, TLAPS

P == INSTANCE ReSectionProofs

LEMMA SectionAssumption == P!ReSectionAssumption
BY PatternLinkAssumption DEF P!ReSectionAssumption, Images

(* The two instances are of one module.                                    *)
LEMMA SameInit == R!Init => P!Init
BY DEF R!Init, P!Init, R!WalksInit, P!WalksInit, R!NoSegment, P!NoSegment

LEMMA SameNext == [R!Next]_(R!reVars) => [P!Next]_(P!reVars)
BY DEF R!Next, P!Next, R!Walk, P!Walk, R!Request, P!Request,
       R!SegmentInstr, P!SegmentInstr, R!SegmentDone, P!SegmentDone,
       R!LocateProgram, P!LocateProgram, R!LocateNothing, P!LocateNothing,
       R!MatchesOperand, P!MatchesOperand, R!DisassembleInstr, P!DisassembleInstr,
       R!DisassembleRaise, P!DisassembleRaise, R!IsContaining, P!IsContaining, R!Holds, P!Holds,
       R!Decodes, P!Decodes, R!InstrEnd, P!InstrEnd, R!IsMatch, P!IsMatch,
       R!NoSegment, P!NoSegment, R!imageVars, P!imageVars, R!segVars, P!segVars,
       R!disVars, P!disVars, R!reVars, P!reVars

LEMMA SameSpec == R!Spec => P!Spec
BY SameInit, SameNext, PTL DEF R!Spec, P!Spec

-----------------------------------------------------------------------------
(* What is still to be disassembled are segments, and a segment begins     *)
(* with an instruction, in the section.                                    *)
Found == {segments[j] : j \in 1 .. Len(segments)}

Asked ==
    /\ P!TypeOK /\ P!SegInv /\ P!Disassembling
    /\ phase \in {"programs", "render"} => todo \subseteq Found

LEMMA InSection ==
    ASSUME P!TypeOK, P!SegInv, NEW s \in Found
    PROVE  s[1] \in 0 .. Len(code)
<1>1. PICK j \in 1 .. Len(segments) : s = segments[j]
  BY DEF Found
<1>2. s \in Nat \X Nat /\ Len(code) \in Nat
  BY <1>1 DEF P!TypeOK
<1>3. PICK B \in SUBSET (s[1] .. s[2]) : P!IsProgram(code, s[1], s[2], B)
  BY <1>1 DEF P!SegInv, P!SegmentsArePrograms, P!ProgramAt
<1>4. s[1] \in B \ {s[2]}
  BY <1>2, <1>3 DEF P!IsProgram, P!IsWalk
<1>5. P!Decodes(code, s[1])
  BY <1>3, <1>4 DEF P!IsProgram, P!IsWalk
<1> QED BY <1>2, <1>5 DEF P!Decodes

LEMMA InitMaps == Init => R!Init
<1> SUFFICES ASSUME Init PROVE R!Init
  OBVIOUS
<1> DEFINE image == [code |-> file.code, programs |-> file.programs]
<1>1. image \in Images /\ code = image.code /\ programs = image.programs
  BY DEF Init, Images
<1> QED BY <1>1 DEF Init, R!Init

LEMMA InitAsked == Init => Asked
<1> SUFFICES ASSUME Init PROVE Asked
  OBVIOUS
<1>1. P!TypeOK /\ P!SegInv /\ P!Disassembling
  BY InitMaps, SameInit, SectionAssumption, P!InitType, P!InitSeg, P!InitDis
<1>2. phase = "segment"
  BY DEF Init
<1> QED BY <1>1, <1>2 DEF Asked

(* A step of the loop is a step of the walks, a request or neither.        *)
LEMMA StepMaps == Asked /\ [Next]_vars => [R!Next]_(R!reVars)
<1> SUFFICES ASSUME Asked, [Next]_vars PROVE [R!Next]_(R!reVars)
  OBVIOUS
<1>1. CASE SegmentSection
  BY <1>1 DEF SegmentSection, R!Next, R!Walk
<1>2. CASE DisassembleNext
  <2>1. PICK s \in todo : R!LocateProgram(s[1])
    BY <1>2 DEF DisassembleNext
  <2>2. s[1] \in 0 .. Len(code)
    BY <1>2, InSection DEF Asked, DisassembleNext
  <2> QED BY <2>1, <2>2 DEF R!Next, R!Request
<1>3. CASE Disassemble
  BY <1>3 DEF Disassemble, R!Next, R!Walk
<1>4. CASE UNCHANGED reVars
  BY <1>4 DEF reVars, R!reVars, R!imageVars, R!segVars, R!disVars
<1>5. ~ (SegmentSection \/ DisassembleNext \/ Disassemble) => UNCHANGED reVars
  BY DEF Next, NoReCode, CollectMatch, CollectDone, SkipLiteral, NoMatchEntry, OutsidePrograms,
         FindPrograms, RenderProgram, FinishPattern, PatternsDone, EmitStrings, vars
<1> QED BY <1>1, <1>2, <1>3, <1>4, <1>5

(* Once the section is cut, the segments stay as they are.                 *)
LEMMA SegmentsStay == [Next]_vars /\ phase # "segment" => UNCHANGED <<code, programs, segments>>
<1> SUFFICES ASSUME [Next]_vars, phase # "segment" PROVE UNCHANGED <<code, programs, segments>>
  OBVIOUS
<1>1. CASE DisassembleNext
  BY <1>1 DEF DisassembleNext, R!LocateProgram, R!imageVars, R!segVars
<1>2. CASE Disassemble
  BY <1>2 DEF Disassemble, R!DisassembleInstr, R!DisassembleRaise, R!imageVars, R!segVars
<1>3. CASE ~ (DisassembleNext \/ Disassemble)
  BY <1>3 DEF Next, NoReCode, SegmentSection, CollectMatch, CollectDone, SkipLiteral,
         NoMatchEntry, OutsidePrograms, FindPrograms, RenderProgram, FinishPattern, PatternsDone,
         EmitStrings, vars, reVars
<1> QED BY <1>1, <1>2, <1>3

LEMMA NextAsked == Asked /\ [Next]_vars => Asked'
<1> SUFFICES ASSUME Asked, [Next]_vars PROVE Asked'
  OBVIOUS
<1>1. P!TypeOK' /\ P!SegInv' /\ P!Disassembling'
  BY StepMaps, SameNext, SectionAssumption, P!NextType, P!NextSeg, P!NextDis DEF Asked
<1>2. phase' \in {"programs", "render"} => todo' \subseteq Found'
  <2> SUFFICES ASSUME phase' \in {"programs", "render"} PROVE todo' \subseteq Found'
    OBVIOUS
  <2>1. CASE FindPrograms
    BY <2>1, SegmentsStay DEF FindPrograms, SegmentsOf, Found
  <2>2. CASE DisassembleNext
    BY <2>2, SegmentsStay DEF DisassembleNext, Asked, Found
  <2>3. CASE Disassemble \/ RenderProgram
    BY <2>3, SegmentsStay DEF Disassemble, RenderProgram, linkVars, loopVars, Asked, Found
  <2>4. CASE UNCHANGED vars
    BY <2>4 DEF vars, reVars, linkVars, loopVars, Asked, Found
  <2> QED
    BY <2>1, <2>2, <2>3, <2>4 DEF Next, NoReCode, SegmentSection, CollectMatch, CollectDone,
       SkipLiteral, NoMatchEntry, OutsidePrograms, FinishPattern, PatternsDone, EmitStrings
<1> QED BY <1>1, <1>2 DEF Asked

(* Every walk that _recover_patterns makes is one of ReSection.            *)
THEOREM ImplementsReSectionHolds == Spec => ImplementsReSection
BY InitMaps, InitAsked, StepMaps, NextAsked, PTL DEF Spec, ImplementsReSection, R!Spec

-----------------------------------------------------------------------------
(* What the compiler promises of the matches: where an atom of a pattern   *)
(* resumes lies in a program of that pattern.  (P!OnlyPrograms promises    *)
(* the rest: the section is a row of pattern programs.)                    *)
FilesLinked ==
    \A f \in Files : \A n \in DOMAIN f.pool :
        LET m == f.pool[n]
        IN NamesString(m) /\ StringOf(m) \in 1 .. Len(f.strings) =>
             \A o \in ReOffsets(m.forward) :
               \E p \in f.programs : f.owner[p] = StringOf(m) /\ R!Holds(p, o)

(* What is collected for a pattern lies in its programs; what is taken for *)
(* it, being rendered or shown, are segments that hold something collected.*)
SegsOf(s) == SegmentsOf(codeMap[s].forward)

Quiet == \A s \in Patterns : result[s] = NoText

Collected ==
    /\ file \in Files /\ code = file.code /\ programs = file.programs
    /\ k \in Nat \ {0}
    /\ codeMap \in [Patterns -> [forward : SUBSET Nat, backward : SUBSET Nat]]

Linked ==
    \A s \in Patterns : \A o \in codeMap[s].forward :
        \E p \in programs : file.owner[p] = s /\ R!Holds(p, o)

Taken ==
    /\ DOMAIN result = Patterns
    /\ phase \in {"segment", "collect"} \/ pc = "segment" => Quiet
    /\ phase \in {"patterns", "programs", "render"} => pc # "segment"
    /\ phase = "segment" => pc = "segment"
    /\ phase = "collect" => pc # "segment"
    /\ phase \in {"programs", "render"} =>
         i \in Patterns /\ todo \subseteq SegsOf(i) /\ rendered \in Seq(SegsOf(i))
    /\ phase = "render" => seg \in SegsOf(i)
    /\ \A s \in Patterns : result[s] # NoText => result[s].shown \in SegsOf(s)

LEMMA PoolFacts ==
    ASSUME NEW f \in Files, NEW n \in DOMAIN f.pool
    PROVE  f.pool[n].forward \in Ref /\ f.pool[n].backward \in Ref
<1> DEFINE Matches == [string : Ref, forward : Ref, backward : Ref]
<1>1. f.pool \in Seq(Matches)
  BY PatternLinkAssumption
<1>2. f.pool[n] \in Matches
  <2> HIDE DEF Matches
  <2> QED BY <1>1
<1> QED BY <1>2

LEMMA InitCollected == Init => Collected /\ Linked
BY DEF Init, Collected, Linked, Patterns

(* The file is read and never written.                                     *)
LEMMA FileStays == [Next]_vars => UNCHANGED <<file, code, programs>>
<1> SUFFICES ASSUME [Next]_vars PROVE UNCHANGED <<file, code, programs>>
  OBVIOUS
<1>1. CASE SegmentSection
  BY <1>1 DEF SegmentSection, R!SegmentInstr, R!SegmentDone, R!imageVars
<1>2. CASE ~ SegmentSection
  BY <1>2, SegmentsStay DEF Next, NoReCode, CollectMatch, CollectDone, SkipLiteral, NoMatchEntry,
     OutsidePrograms, FindPrograms, DisassembleNext, Disassemble, RenderProgram, FinishPattern,
     PatternsDone, EmitStrings, vars, reVars, linkVars
<1> QED BY <1>1, <1>2

(* What an entry of the pool adds.                                         *)
LEMMA CollectAdds ==
    ASSUME Collected, CollectMatch
    PROVE  /\ k \in DOMAIN file.pool /\ k' = k + 1
           /\ \/ codeMap' = codeMap
              \/ LET m  == file.pool[k]
                     s0 == StringOf(m)
                 IN /\ NamesString(m) /\ s0 \in Patterns
                    /\ codeMap' \in [Patterns -> [forward : SUBSET Nat, backward : SUBSET Nat]]
                    /\ \A s \in Patterns :
                         codeMap'[s].forward =
                           IF s = s0 THEN codeMap[s].forward \cup ReOffsets(m.forward)
                                     ELSE codeMap[s].forward
<1> DEFINE m == file.pool[k]
           s0 == StringOf(m)
<1>1. k \in DOMAIN file.pool /\ k' = k + 1
  BY PatternLinkAssumption DEF CollectMatch, Collected
<1>2. CASE ~ (NamesString(m) /\ s0 \in Patterns)
  BY <1>1, <1>2 DEF CollectMatch
<1>3. CASE NamesString(m) /\ s0 \in Patterns
  <2>1. codeMap' = [codeMap EXCEPT ![s0].forward  = @ \cup ReOffsets(m.forward),
                                   ![s0].backward = @ \cup ReOffsets(m.backward)]
    BY <1>3 DEF CollectMatch
  <2>2. m.forward \in Ref /\ m.backward \in Ref
    BY <1>1, PoolFacts DEF Collected
  <2>3. ReOffsets(m.forward) \subseteq Nat /\ ReOffsets(m.backward) \subseteq Nat
    BY <2>2 DEF ReOffsets, Ref
  <2>4. codeMap' \in [Patterns -> [forward : SUBSET Nat, backward : SUBSET Nat]]
    BY <1>3, <2>1, <2>3 DEF Collected
  <2>5. \A s \in Patterns :
          codeMap'[s].forward = IF s = s0 THEN codeMap[s].forward \cup ReOffsets(m.forward)
                                          ELSE codeMap[s].forward
    BY <1>3, <2>1 DEF Collected
  <2> QED BY <1>1, <1>3, <2>4, <2>5
<1> QED BY <1>2, <1>3

LEMMA MapStays == [Next]_vars /\ ~ CollectMatch => UNCHANGED <<k, codeMap>>
BY DEF Next, NoReCode, SegmentSection, CollectDone, SkipLiteral, NoMatchEntry,
   OutsidePrograms, FindPrograms, DisassembleNext, Disassemble, RenderProgram, FinishPattern,
   PatternsDone, EmitStrings, vars, linkVars

LEMMA NextCollected == Collected /\ [Next]_vars => Collected'
<1> SUFFICES ASSUME Collected, [Next]_vars PROVE Collected'
  OBVIOUS
<1>1. CASE CollectMatch
  BY <1>1, FileStays, CollectAdds DEF Collected, Patterns
<1>2. CASE ~ CollectMatch
  BY <1>2, FileStays, MapStays DEF Collected, Patterns
<1> QED BY <1>1, <1>2

LEMMA NextLinked == FilesLinked /\ Collected /\ Linked /\ [Next]_vars => Linked'
<1> SUFFICES ASSUME FilesLinked, Collected, Linked, [Next]_vars PROVE Linked'
  OBVIOUS
<1>1. CASE codeMap' = codeMap
  BY <1>1, FileStays DEF Linked, Patterns, R!Holds
<1>2. CASE codeMap' # codeMap
  <2> DEFINE m == file.pool[k]
             s0 == StringOf(m)
  <2>1. CollectMatch
    BY <1>2, MapStays
  <2>2. /\ k \in DOMAIN file.pool /\ NamesString(m) /\ s0 \in Patterns
        /\ \A s \in Patterns :
             codeMap'[s].forward = IF s = s0 THEN codeMap[s].forward \cup ReOffsets(m.forward)
                                             ELSE codeMap[s].forward
    BY <1>2, <2>1, CollectAdds
  <2>3. \A o \in ReOffsets(m.forward) :
          \E p \in programs : file.owner[p] = s0 /\ R!Holds(p, o)
    BY <2>2 DEF FilesLinked, Collected, Patterns
  <2>4. ASSUME NEW s \in Patterns, NEW o \in codeMap'[s].forward
        PROVE  \E p \in programs : file.owner[p] = s /\ R!Holds(p, o)
    BY <2>2, <2>3 DEF Linked
  <2> QED BY <2>4, FileStays DEF Linked, Patterns, R!Holds
<1> QED BY <1>1, <1>2

LEMMA InitTaken == Init => Taken
BY DEF Init, R!WalksInit, Taken, Quiet

(* The segment that is disassembled is the one that was asked for.         *)
LEMMA AskedFor ==
    ASSUME P!TypeOK, P!SegInv, P!OneSegment, NEW s \in Found, R!LocateProgram(s[1])
    PROVE  seg' = s
<1>1. PICK j \in 1 .. Len(segments) : R!IsContaining(j, s[1]) /\ seg' = segments[j]
  BY DEF R!LocateProgram
<1>2. PICK m \in 1 .. Len(segments) : s = segments[m]
  BY DEF Found
<1>3. s \in Nat \X Nat
  BY <1>2 DEF P!TypeOK
<1>4. P!Holds(segments[j], s[1]) /\ P!Holds(segments[m], s[1])
  BY <1>1, <1>2, <1>3 DEF R!IsContaining, R!Holds, P!Holds, P!SegInv, P!SegmentsTile
<1>5. s[1] \in Nat
  BY <1>3
<1> QED BY <1>1, <1>2, <1>4, <1>5 DEF P!OneSegment

LEMMA NextTaken == Asked /\ P!OneSegment /\ Collected /\ Taken /\ [Next]_vars => Taken'
<1> SUFFICES ASSUME Asked, P!OneSegment, Collected, Taken, [Next]_vars PROVE Taken'
  OBVIOUS
<1>0. file' = file /\ Patterns' = Patterns
  BY DEF Next, NoReCode, SegmentSection, CollectMatch, CollectDone, SkipLiteral, NoMatchEntry,
     OutsidePrograms, FindPrograms, DisassembleNext, Disassemble, RenderProgram, FinishPattern,
     PatternsDone, EmitStrings, vars, linkVars, Patterns
(* Before the patterns nothing is rendered.                                *)
<1>1. CASE NoReCode \/ SegmentSection \/ CollectMatch \/ CollectDone
  <2>1. Quiet /\ result' = result /\ Quiet'
    BY <1>0, <1>1 DEF NoReCode, SegmentSection, CollectMatch, CollectDone, Taken, Quiet
  <2>2. phase' \in {"segment", "collect", "patterns", "emit"}
    BY <1>1 DEF NoReCode, SegmentSection, CollectMatch, CollectDone, Taken
  <2>3. /\ phase' = "segment" => pc' = "segment"
        /\ phase' \in {"collect", "patterns"} => pc' # "segment"
    BY <1>1 DEF NoReCode, SegmentSection, CollectMatch, CollectDone, Taken, reVars,
       R!SegmentInstr, R!SegmentDone, R!imageVars
  <2> QED BY <1>0, <2>1, <2>2, <2>3 DEF Taken, Quiet
<1>2. CASE ~ (NoReCode \/ SegmentSection \/ CollectMatch \/ CollectDone) /\ ~ UNCHANGED vars
  <2>1. phase \notin {"segment", "collect"} /\ UNCHANGED codeMap
    BY <1>2 DEF Next, SkipLiteral, NoMatchEntry, OutsidePrograms, FindPrograms, DisassembleNext,
       Disassemble, RenderProgram, FinishPattern, PatternsDone, EmitStrings, linkVars
  <2>2. \A s \in Patterns : SegsOf(s)' = SegsOf(s)
    BY <2>1, SegmentsStay DEF SegsOf, SegmentsOf, R!IsContaining, R!Holds
  <2>3. CASE SkipLiteral \/ NoMatchEntry \/ OutsidePrograms \/ PatternsDone \/ EmitStrings
    <3>1. result' = result /\ pc' = pc /\ phase' \in {"patterns", "emit", "done"}
      BY <2>3 DEF SkipLiteral, NoMatchEntry, OutsidePrograms, PatternsDone, EmitStrings, reVars
    <3>2. phase' = "patterns" => phase = "patterns"
      BY <2>3 DEF SkipLiteral, NoMatchEntry, OutsidePrograms, PatternsDone, EmitStrings
    <3> QED BY <1>0, <2>2, <3>1, <3>2 DEF Taken, Quiet
  <2>4. CASE FindPrograms
    <3>1. /\ i \in Patterns /\ i' = i /\ todo' = SegsOf(i) /\ rendered' = <<>>
          /\ phase = "patterns" /\ phase' = "programs" /\ result' = result /\ pc' = pc
      BY <2>4 DEF FindPrograms, SegsOf, reVars
    <3>2. rendered' \in Seq(SegsOf(i))
      BY <3>1
    <3> QED BY <1>0, <2>2, <3>1, <3>2 DEF Taken, Quiet
  <2>5. CASE DisassembleNext
    <3>1. PICK s \in todo : R!LocateProgram(s[1]) /\ todo' = todo \ {s}
      BY <2>5 DEF DisassembleNext
    <3>2. seg' = s
      BY <2>5, <3>1, AskedFor DEF Asked, DisassembleNext
    <3>3. /\ i' = i /\ rendered' = rendered /\ phase = "programs" /\ phase' = "render"
          /\ result' = result /\ pc' = "disassemble"
      BY <2>5, <3>1 DEF DisassembleNext, R!LocateProgram
    <3> QED BY <1>0, <2>2, <3>1, <3>2, <3>3 DEF Taken, Quiet
  <2>6. CASE Disassemble
    <3>1. /\ UNCHANGED linkVars /\ phase = "render" /\ pc = "disassemble" /\ seg' = seg
          /\ pc' # "segment"
      BY <2>6 DEF Disassemble, R!DisassembleInstr, R!DisassembleRaise
    <3> QED BY <1>0, <2>2, <3>1 DEF Taken, Quiet, linkVars, loopVars
  <2>7. CASE RenderProgram
    <3>1. /\ i' = i /\ todo' = todo /\ phase = "render" /\ phase' = "programs"
          /\ result' = result /\ pc' = pc
          /\ rendered' = Append(rendered, seg) \/ rendered' = rendered
      BY <2>7 DEF RenderProgram, reVars
    <3>2. rendered \in Seq(SegsOf(i)) /\ seg \in SegsOf(i)
      BY <3>1 DEF Taken
    <3>3. rendered' \in Seq(SegsOf(i))
      BY <3>1, <3>2
    <3> QED BY <1>0, <2>2, <3>1, <3>3 DEF Taken, Quiet
  <2>8. CASE FinishPattern
    <3>1. /\ phase = "programs" /\ phase' = "patterns" /\ pc' = pc /\ i \in Patterns
          /\ rendered \in Seq(SegsOf(i)) /\ pc # "segment"
      BY <2>8 DEF FinishPattern, reVars, Taken
    <3>2. PICK plain \in BOOLEAN : Finish(plain) /\ (plain => rendered # <<>>)
      BY <2>8 DEF FinishPattern
    <3>3. DOMAIN result' = Patterns
      BY <3>2 DEF Finish, Taken
    <3>4. CASE rendered = <<>>
      <4>1. result'[i] = result[i] /\ \A s \in Patterns : result'[s] = result[s]
        BY <3>1, <3>2, <3>4 DEF Finish, Taken
      <4> QED BY <1>0, <2>2, <3>1, <3>3, <4>1 DEF Taken, Quiet
    <3>5. CASE rendered # <<>>
      <4>1. rendered[1] \in SegsOf(i)
        BY <3>1, <3>5
      <4>2. \A s \in Patterns : IF s = i THEN result'[s].shown = rendered[1]
                                         ELSE result'[s] = result[s]
        BY <3>1, <3>2, <3>5 DEF Finish, Taken
      <4> QED BY <1>0, <2>2, <3>1, <3>3, <4>1, <4>2 DEF Taken, Quiet
    <3> QED BY <3>4, <3>5
  <2> QED BY <1>2, <2>3, <2>4, <2>5, <2>6, <2>7, <2>8 DEF Next
<1>3. CASE UNCHANGED vars
  <2>1. \A s \in Patterns : SegsOf(s)' = SegsOf(s)
    BY <1>3 DEF vars, reVars, linkVars, SegsOf, SegmentsOf, R!IsContaining, R!Holds
  <2> QED BY <1>0, <1>3, <2>1 DEF vars, reVars, linkVars, loopVars, Taken, Quiet
<1> QED BY <1>1, <1>2, <1>3

(* In a section whose programs are all segments, each offset being in one  *)
(* of them at most, the segment around an atom is the atom's program.      *)
LEMMA TakenIsOwn ==
    ASSUME P!TypeOK, P!OneSegment, P!EveryProgramSegmented, Collected, Linked, Taken
    PROVE  OwnProgramShown
<1> SUFFICES ASSUME NEW s \in Patterns, result[s] # NoText
             PROVE  result[s].shown \in ForwardOf(s)
  BY DEF OwnProgramShown
<1>1. pc # "segment" /\ result[s].shown \in SegsOf(s)
  BY DEF Taken, Quiet
<1>2. PICK j \in 1 .. Len(segments), o \in codeMap[s].forward :
          result[s].shown = segments[j] /\ R!Holds(segments[j], o)
  BY <1>1 DEF SegsOf, SegmentsOf, R!IsContaining
<1>3. o \in Nat
  BY DEF Collected
<1>4. PICK p \in programs : file.owner[p] = s /\ R!Holds(p, o)
  BY DEF Linked
<1>5. PICK m \in 1 .. Len(segments) : segments[m] = p
  BY <1>1, <1>4 DEF P!EveryProgramSegmented
<1>6. j = m
  BY <1>2, <1>3, <1>4, <1>5 DEF P!OneSegment, P!Holds, R!Holds
<1> QED BY <1>2, <1>4, <1>5, <1>6 DEF ForwardOf

(* In every section of pattern programs only, whatever the matches beside  *)
(* those of the compiler: a pattern shows a program that was written for   *)
(* it, and one that an atom of it resumes in.                              *)
THEOREM OwnProgramShownHolds == FilesLinked /\ P!OnlyPrograms /\ Spec => []OwnProgramShown
<1> SUFFICES ASSUME FilesLinked, P!OnlyPrograms PROVE Spec => []OwnProgramShown
  OBVIOUS
<1>1. Collected /\ Linked /\ [Next]_vars => Linked'
  BY NextLinked
<1>2. Spec => P!Spec
  BY ImplementsReSectionHolds, SameSpec, PTL DEF ImplementsReSection
<1>3. P!Spec => []P!OneSegment
  BY SectionAssumption, P!OneSegmentHolds
<1>4. P!Spec => []P!EveryProgramSegmented
  BY SectionAssumption, P!EveryProgramSegmentedHolds
<1>5. Asked /\ P!OneSegment /\ P!EveryProgramSegmented /\ Collected /\ Linked /\ Taken => OwnProgramShown
  BY TakenIsOwn DEF Asked
<1> QED BY <1>1, <1>2, <1>3, <1>4, <1>5, InitAsked, NextAsked, InitCollected, NextCollected,
           InitTaken, NextTaken, PTL DEF Spec

-----------------------------------------------------------------------------
(* What the rendering of a pattern has done and has to do.  Of the program *)
(* under way the offsets decoded so far, with the next one, are a walk; of *)
(* the segments found each waits, is under way or has been rendered, and   *)
(* `exact' speaks of all that have been.                                   *)
Members(q) == {q[n] : n \in 1 .. Len(q)}

Walked == Members(out) \cup {at}

Rendering ==
    /\ phase \in {"collect", "patterns", "programs"} => pc = "idle"
    /\ phase = "render" /\ pc = "disassemble" =>
         P!IsWalk(code, seg[1], at, Walked) /\ P!IsPlain(code, at, Walked)
    /\ phase = "render" /\ pc = "idle" => P!IsProgram(code, seg[1], seg[2], Walked)
    /\ phase \in {"programs", "render"} =>
         /\ segs = SegsOf(i) /\ segs # {}
         /\ segs = todo \cup Members(rendered) \cup (IF phase = "render" THEN {seg} ELSE {})
         /\ exact => \A s \in Members(rendered) : ExactOps(i, s)

LEMMA MembersOfAppend ==
    ASSUME NEW S, NEW q \in Seq(S), NEW e \in S
    PROVE  Members(Append(q, e)) = Members(q) \cup {e}
<1>1. /\ Len(Append(q, e)) = Len(q) + 1 /\ Append(q, e)[Len(q) + 1] = e
      /\ \A n \in 1 .. Len(q) : Append(q, e)[n] = q[n]
      /\ Len(q) \in Nat
  OBVIOUS
<1>2. \A n \in 1 .. Len(q) + 1 : n \in 1 .. Len(q) \/ n = Len(q) + 1
  BY <1>1
<1>3. Len(q) + 1 \in 1 .. Len(q) + 1 /\ \A n \in 1 .. Len(q) : n \in 1 .. Len(q) + 1
  BY <1>1
<1> QED BY <1>1, <1>2, <1>3 DEF Members

LEMMA SameProgram ==
    ASSUME NEW c, NEW a, NEW b, NEW B, P!IsProgram(c, a, b, B)
    PROVE  R!IsProgram(c, a, b, B) /\ B \subseteq a .. b
BY DEF P!IsProgram, R!IsProgram, P!IsWalk, R!IsWalk, P!Decodes, R!Decodes, P!InstrEnd, R!InstrEnd,
       P!IsMatch, R!IsMatch

LEMMA InitRendering == Init => Rendering
BY DEF Init, Rendering

LEMMA SegmentTaken ==
    ASSUME Asked, NEW s \in Patterns, NEW t \in SegsOf(s)
    PROVE  t \in Nat \X Nat /\ t # <<>>
<1>1. PICK j \in 1 .. Len(segments) : t = segments[j]
  BY DEF SegsOf, SegmentsOf
<1>2. t \in Nat \X Nat
  BY <1>1 DEF Asked, P!TypeOK
<1>3. PICK a \in Nat, b \in Nat : t = <<a, b>>
  BY <1>2
<1>4. Len(<<a, b>>) = 2 /\ Len(<<>>) = 0
  OBVIOUS
<1> QED BY <1>2, <1>3, <1>4

(* A turn of disassemble_program lengthens the walk; its MATCH makes it a  *)
(* program, which ends where the segment does.                             *)
LEMMA DisassembleWalks ==
    ASSUME Asked, Asked', Taken, Rendering, Disassemble
    PROVE  /\ pc' = "disassemble" =>
                P!IsWalk(code, seg[1], at', Walked') /\ P!IsPlain(code, at', Walked')
           /\ pc' = "idle" => P!IsProgram(code, seg[1], seg[2], Walked')
           /\ pc' \in {"idle", "disassemble"} /\ seg' = seg /\ code' = code
<1>1. /\ phase = "render" /\ pc = "disassemble" /\ seg' = seg /\ UNCHANGED <<code, segments>>
  BY DEF Disassemble, R!DisassembleInstr, R!DisassembleRaise, R!imageVars, R!segVars
<1>3. seg \in Nat \X Nat /\ seg # P!NoSegment
  BY <1>1, SegmentTaken DEF Taken, P!NoSegment
<1>4. ~ R!DisassembleRaise
  BY <1>1, <1>3 DEF R!DisassembleRaise, Asked, P!Disassembling
<1>5. R!DisassembleInstr
  BY <1>4 DEF Disassemble
<1> DEFINE e == P!InstrEnd(code, at)
<1>6. /\ P!Decodes(code, at) /\ out' = Append(out, at) /\ at' = e
      /\ IF P!IsMatch(code, at) THEN pc' = "idle" ELSE pc' = pc
  BY <1>5 DEF R!DisassembleInstr, R!Decodes, P!Decodes, R!InstrEnd, P!InstrEnd, R!IsMatch, P!IsMatch
<1>7. code \in Seq(Byte) /\ seg[1] \in Nat /\ at \in Nat /\ out \in Seq(Nat)
  BY <1>3 DEF Asked, P!TypeOK
<1>8. P!IsWalk(code, seg[1], at, Walked) /\ P!IsPlain(code, at, Walked)
  BY <1>1 DEF Rendering
<1>9. Walked \in SUBSET (seg[1] .. at)
  BY <1>8 DEF P!IsWalk
<1>10. Walked' = Walked \cup {e}
  BY <1>6, <1>7, MembersOfAppend DEF Walked
<1>11. /\ P!IsWalk(code, seg[1], e, Walked \cup {e})
       /\ ~ P!IsMatch(code, at) => P!IsPlain(code, e, Walked \cup {e})
       /\ P!IsMatch(code, at) => P!IsProgram(code, seg[1], e, Walked \cup {e})
  BY <1>6, <1>7, <1>8, <1>9, P!WalkGrows, SectionAssumption
<1>12. pc' = "idle" => at' = seg[2]
  BY <1>1, <1>3 DEF Asked, P!Disassembling
<1> QED BY <1>1, <1>6, <1>10, <1>11, <1>12

(* A program of which every instruction is in reach of a renderer.         *)
LEMMA RenderedExactly ==
    ASSUME Asked, Taken, Rendering, RenderProgram
    PROVE  /\ rendered' = Append(rendered, seg) /\ UNCHANGED warnings
           /\ exact' => exact /\ ExactOps(i, seg)
<1>1. phase = "render" /\ pc = "idle"
  BY DEF RenderProgram
<1>3. seg \in Nat \X Nat /\ seg # P!NoSegment
  BY <1>1, SegmentTaken DEF Taken, P!NoSegment
<1>4. at = seg[2] /\ answer = "program"
  BY <1>1, <1>3 DEF Asked, P!Disassembling
<1>5. /\ rendered' = Append(rendered, seg) /\ UNCHANGED warnings
      /\ exact' = (exact /\ ((IsHex(i) /\ OpsOut \subseteq HexOp) \/ OpsOut \subseteq FoldOp))
  BY <1>4 DEF RenderProgram
<1>6. P!IsProgram(code, seg[1], seg[2], Walked)
  BY <1>1 DEF Rendering
<1>7. R!IsProgram(code, seg[1], seg[2], Walked) /\ Walked \in SUBSET (seg[1] .. seg[2])
  BY <1>6, SameProgram
<1>8. \A o \in Walked \ {seg[2]} : code[o + 1] \in OpsOut \cup {Match}
  BY <1>4 DEF Walked, Members, OpsOut
<1>9. \A X : OpsOut \subseteq X => \A o \in Walked \ {seg[2]} : code[o + 1] \in X \cup {Match}
  BY <1>8
<1>10. ASSUME exact' PROVE ExactOps(i, seg)
  BY <1>5, <1>7, <1>9, <1>10 DEF ExactOps
<1> QED BY <1>5, <1>10

(* What the steps after the collection leave alone.                        *)
LEMMA SegsStay ==
    ASSUME [Next]_vars, phase \notin {"segment", "collect"}
    PROVE  /\ file' = file /\ Patterns' = Patterns /\ UNCHANGED <<code, codeMap, programs, segments>>
           /\ \A s \in Patterns : SegsOf(s)' = SegsOf(s)
           /\ \A s, t : ExactOps(s, t)' <=> ExactOps(s, t)
<1>1. UNCHANGED <<file, code, programs, segments>>
  BY FileStays, SegmentsStay
<1>2. codeMap' = codeMap
  BY MapStays DEF CollectMatch
<1>3. \A s \in Patterns : SegsOf(s)' = SegsOf(s)
  BY <1>1, <1>2 DEF SegsOf, SegmentsOf, R!IsContaining, R!Holds
<1>4. \A s, t : ExactOps(s, t)' <=> ExactOps(s, t)
  BY <1>1 DEF ExactOps, IsHex, R!IsProgram, R!IsWalk, R!Decodes, R!InstrEnd, R!IsMatch
<1> QED BY <1>1, <1>2, <1>3, <1>4 DEF Patterns

LEMMA NextRendering ==
    Asked /\ Asked' /\ P!OneSegment /\ Taken /\ Rendering /\ [Next]_vars => Rendering'
<1> SUFFICES ASSUME Asked, Asked', P!OneSegment, Taken, Rendering, [Next]_vars
             PROVE  Rendering'
  OBVIOUS
<1>1. CASE NoReCode \/ SegmentSection \/ CollectMatch \/ CollectDone
  BY <1>1 DEF NoReCode, SegmentSection, R!SegmentInstr, R!SegmentDone, CollectMatch, CollectDone,
     Rendering, Taken, reVars
<1>2. CASE SkipLiteral \/ NoMatchEntry \/ OutsidePrograms \/ PatternsDone \/ EmitStrings
  BY <1>2 DEF SkipLiteral, NoMatchEntry, OutsidePrograms, PatternsDone, EmitStrings, Rendering,
     reVars
<1>3. CASE FindPrograms
  <2>1. /\ phase = "patterns" /\ phase' = "programs" /\ pc' = pc /\ i' = i /\ i \in Patterns
        /\ segs' = SegsOf(i) /\ segs' # {} /\ todo' = segs' /\ rendered' = <<>>
    BY <1>3 DEF FindPrograms, SegsOf, reVars
  <2>2. Members(rendered)' = {}
    BY <2>1 DEF Members
  <2>3. SegsOf(i)' = SegsOf(i)
    BY <2>1, SegsStay
  <2> QED BY <2>1, <2>2, <2>3 DEF Rendering
<1>4. CASE DisassembleNext
  <2>1. PICK s \in todo : R!LocateProgram(s[1]) /\ todo' = todo \ {s}
    BY <1>4 DEF DisassembleNext
  <2>2. s \in Found /\ seg' = s
    BY <1>4, <2>1, AskedFor DEF Asked, DisassembleNext
  <2>3. /\ phase = "programs" /\ phase' = "render" /\ UNCHANGED <<i, segs, rendered, exact>>
        /\ pc' = "disassemble" /\ out' = <<>>
    BY <1>4, <2>1 DEF DisassembleNext, R!LocateProgram
  <2>4. at' = seg'[1]
    BY <2>1 DEF R!LocateProgram
  <2>5. Walked' = {at'}
    BY <2>3 DEF Walked, Members
  <2>6. at' \in Nat
    BY DEF Asked, P!TypeOK
  <2>7. P!IsWalk(code', seg'[1], at', Walked') /\ P!IsPlain(code', at', Walked')
    BY <2>4, <2>5, <2>6 DEF P!IsWalk, P!IsPlain
  <2>8. Members(rendered)' = Members(rendered) /\ \A t \in Members(rendered) : ExactOps(i, t)' <=> ExactOps(i, t)
    BY <2>3, SegsStay DEF Members
  <2>9. SegsOf(i)' = SegsOf(i) /\ i \in Patterns
    BY <2>3, SegsStay DEF Taken
  <2>10. segs = todo' \cup Members(rendered) \cup {seg'}
    BY <2>1, <2>2, <2>3 DEF Rendering
  <2> QED BY <2>2, <2>3, <2>7, <2>8, <2>9, <2>10 DEF Rendering
<1>5. CASE Disassemble
  <2>1. UNCHANGED linkVars /\ phase = "render"
    BY <1>5 DEF Disassemble
  <2>2. /\ pc' = "disassemble" =>
             P!IsWalk(code, seg[1], at', Walked') /\ P!IsPlain(code, at', Walked')
        /\ pc' = "idle" => P!IsProgram(code, seg[1], seg[2], Walked')
        /\ pc' \in {"idle", "disassemble"} /\ seg' = seg /\ code' = code
    BY <1>5, DisassembleWalks
  <2>3. Members(rendered)' = Members(rendered) /\ \A t \in Members(rendered) : ExactOps(i, t)' <=> ExactOps(i, t)
    BY <2>1, SegsStay DEF linkVars, loopVars, Members
  <2>4. SegsOf(i)' = SegsOf(i) /\ i \in Patterns
    BY <2>1, SegsStay DEF Taken, linkVars
  <2> QED BY <2>1, <2>2, <2>3, <2>4 DEF Rendering, linkVars, loopVars
<1>6. CASE RenderProgram
  <2>1. /\ phase = "render" /\ phase' = "programs" /\ UNCHANGED <<i, segs, todo, seg, pc>>
        /\ pc = "idle"
    BY <1>6 DEF RenderProgram, reVars
  <2>2. /\ rendered' = Append(rendered, seg)
        /\ exact' => exact /\ ExactOps(i, seg)
    BY <1>6, RenderedExactly
  <2>3. i \in Patterns /\ rendered \in Seq(SegsOf(i)) /\ seg \in SegsOf(i)
    BY <2>1 DEF Taken
  <2>4. Members(rendered') = Members(rendered) \cup {seg}
    BY <2>2, <2>3, MembersOfAppend
  <2>5. SegsOf(i)' = SegsOf(i) /\ \A t : ExactOps(i, t)' <=> ExactOps(i, t)
    BY <2>1, <2>3, SegsStay
  <2>6. exact' => \A t \in Members(rendered') : ExactOps(i, t)'
    BY <2>1, <2>2, <2>4, <2>5 DEF Rendering
  <2>7. segs' = SegsOf(i)' /\ segs' # {} /\ segs' = todo' \cup Members(rendered')
    BY <2>1, <2>4, <2>5 DEF Rendering
  <2> QED BY <2>1, <2>6, <2>7 DEF Rendering
<1>7. CASE FinishPattern
  BY <1>7 DEF FinishPattern, Rendering, reVars
<1>8. CASE UNCHANGED vars
  <2>1. Members(rendered)' = Members(rendered) /\ Walked' = Walked
    BY <1>8 DEF vars, reVars, linkVars, loopVars, Members, Walked
  <2>2. phase \in {"programs", "render"} =>
          SegsOf(i)' = SegsOf(i) /\ \A t : ExactOps(i, t)' <=> ExactOps(i, t)
    BY <1>8, SegsStay DEF Taken, vars, linkVars
  <2> QED BY <1>8, <2>1, <2>2 DEF Rendering, vars, reVars, linkVars, loopVars
<1> QED BY <1>1, <1>2, <1>3, <1>4, <1>5, <1>6, <1>7, <1>8 DEF Next

-----------------------------------------------------------------------------
(* A pattern with a text has had a warning, or its plaintext was found, or *)
(* it shows the only program found for it, and exactly.  At the end one    *)
(* without a text has had a warning.                                       *)
WarnedOrExact(s) ==
    \/ result[s].plain \/ Warned(s)
    \/ SegsOf(s) = {result[s].shown} /\ ExactOps(s, result[s].shown)

Settled ==
    /\ \A s \in Patterns : result[s] # NoText => WarnedOrExact(s)
    /\ phase = "done" => \A s \in Patterns : ~ IsLiteral(s) /\ result[s] = NoText => Warned(s)

(* Warnings are never taken back.                                          *)
LEMMA WarningsStay == [Next]_vars => warnings \subseteq warnings' /\ \A s : Warned(s) => Warned(s)'
<1> SUFFICES ASSUME [Next]_vars PROVE warnings \subseteq warnings'
  BY DEF Warned
<1> QED
  BY DEF Next, NoReCode, SegmentSection, CollectMatch, CollectDone, SkipLiteral, NoMatchEntry,
     OutsidePrograms, FindPrograms, DisassembleNext, Disassemble, RenderProgram, FinishPattern,
     Finish, PatternsDone, EmitStrings, Warn, vars, linkVars

LEMMA ResultStays == [Next]_vars /\ ~ FinishPattern => result' = result
BY DEF Next, NoReCode, SegmentSection, CollectMatch, CollectDone, SkipLiteral, NoMatchEntry,
   OutsidePrograms, FindPrograms, DisassembleNext, Disassemble, RenderProgram, PatternsDone,
   EmitStrings, vars, linkVars

(* When the loop is through with a pattern, it has rendered each program   *)
(* that was found for it, and shows the first.                             *)
LEMMA FinishShows ==
    ASSUME Asked, Taken, Rendering, FinishPattern, NEW p, p = i
    PROVE  /\ p \in Patterns /\ phase = "programs" /\ phase' = "patterns" /\ i' = i + 1
           /\ \A s \in Patterns : s # p => result'[s] = result[s]
           /\ SegsOf(p) = Members(rendered)
           /\ \E plain \in BOOLEAN :
                /\ result'[p] = [shown |-> rendered[1], plain |-> plain]
                /\ rendered[1] \in Members(rendered)
                /\ \/ plain \/ Warned(p)'
                   \/ exact /\ Members(rendered) = {rendered[1]}
<1>1. phase = "programs" /\ phase' = "patterns" /\ todo = {} /\ i' = i + 1
  BY DEF FinishPattern
<1>2. i \in Patterns /\ rendered \in Seq(SegsOf(i)) /\ DOMAIN result = Patterns
  BY <1>1 DEF Taken
<1>3. SegsOf(i) = Members(rendered) /\ Members(rendered) # {}
  BY <1>1 DEF Rendering
<1>4. Len(rendered) \in Nat /\ Len(rendered) # 0 /\ rendered # <<>>
  BY <1>2, <1>3 DEF Members
<1>5. PICK plain \in BOOLEAN : Finish(plain)
  BY DEF FinishPattern
<1>6. /\ result' = [result EXCEPT ![i] = [shown |-> rendered[1], plain |-> plain]]
      /\ Warn(IF plain THEN {}
              ELSE (IF IsBase64(i) THEN {"base64"} ELSE {})
                     \cup (IF Len(rendered) > 1 THEN {"several"} ELSE {})
                     \cup (IF exact THEN {} ELSE {"approximate"}))
  BY <1>4, <1>5 DEF Finish
<1>7. rendered[1] \in Members(rendered)
  BY <1>4 DEF Members
<1>8. ASSUME ~ plain, ~ exact \/ Len(rendered) > 1 PROVE Warned(p)'
  <2>1. <<p, "several">> \in warnings' \/ <<p, "approximate">> \in warnings'
    BY <1>6, <1>8 DEF Warn
  <2>2. \E w \in warnings' : w[1] = p
    BY <2>1
  <2> QED BY <2>2 DEF Warned
<1>9. ~ (Len(rendered) > 1) => Members(rendered) = {rendered[1]}
  BY <1>4 DEF Members
<1> QED BY <1>1, <1>2, <1>3, <1>6, <1>7, <1>8, <1>9

LEMMA InitSettled == Init => Settled
BY DEF Init, Settled

LEMMA NextSettled == Asked /\ Taken /\ Rendering /\ Settled /\ [Next]_vars => Settled'
<1> SUFFICES ASSUME Asked, Taken, Rendering, Settled, [Next]_vars PROVE Settled'
  OBVIOUS
<1>0. Patterns' = Patterns /\ file' = file
  BY FileStays DEF Patterns
<1>1. CASE phase \in {"segment", "collect"}
  <2>1. ~ FinishPattern /\ Quiet
    BY <1>1 DEF FinishPattern, Taken
  <2>2. result' = result
    BY <2>1, ResultStays
  <2>3. phase' # "done"
    BY <1>1 DEF Next, NoReCode, SegmentSection, CollectMatch, CollectDone, SkipLiteral,
       NoMatchEntry, OutsidePrograms, FindPrograms, DisassembleNext, Disassemble, RenderProgram,
       FinishPattern, PatternsDone, EmitStrings, vars, linkVars
  <2> QED BY <1>0, <2>1, <2>2, <2>3 DEF Quiet, Settled
<1>2. CASE phase \notin {"segment", "collect"} /\ ~ FinishPattern
  <2>1. result' = result
    BY <1>2, ResultStays
  <2>2. \A s \in Patterns : WarnedOrExact(s) => WarnedOrExact(s)'
    BY <1>2, <2>1, SegsStay, WarningsStay DEF WarnedOrExact
  <2>3. CASE EmitStrings
    <3>1. ASSUME NEW s \in Patterns, ~ IsLiteral(s), result[s] = NoText PROVE Warned(s)'
      <4>1. <<s, "unrecovered">> \in warnings'
        BY <2>3, <3>1 DEF EmitStrings
      <4> QED BY <4>1 DEF Warned
    <3> QED BY <1>0, <2>1, <2>2, <3>1 DEF Settled, IsLiteral
  <2>4. CASE ~ EmitStrings
    <3>1. phase' = "done" => phase = "done"
      BY <2>4 DEF Next, NoReCode, SegmentSection, CollectMatch, CollectDone, SkipLiteral,
         NoMatchEntry, OutsidePrograms, FindPrograms, DisassembleNext, Disassemble, RenderProgram,
         FinishPattern, PatternsDone, vars, linkVars
    <3>2. \A s : Warned(s) => Warned(s)'
      BY WarningsStay
    <3> QED BY <1>0, <2>1, <2>2, <3>1, <3>2 DEF Settled, IsLiteral
  <2> QED BY <2>3, <2>4
<1>3. CASE FinishPattern
  <2>0. PICK p : p = i
    OBVIOUS
  <2>1. /\ p \in Patterns /\ phase = "programs" /\ phase' = "patterns"
        /\ \A s \in Patterns : s # p => result'[s] = result[s]
        /\ SegsOf(p) = Members(rendered)
    BY <1>3, <2>0, FinishShows
  <2>2. PICK plain \in BOOLEAN :
            /\ result'[p] = [shown |-> rendered[1], plain |-> plain]
            /\ rendered[1] \in Members(rendered)
            /\ plain \/ Warned(p)' \/ (exact /\ Members(rendered) = {rendered[1]})
    BY <1>3, <2>0, FinishShows
  <2>3. /\ \A s \in Patterns : SegsOf(s)' = SegsOf(s)
        /\ \A s, t : ExactOps(s, t)' <=> ExactOps(s, t)
        /\ \A s : Warned(s) => Warned(s)'
    BY <2>1, SegsStay, WarningsStay
  <2>4. ASSUME NEW s \in Patterns, s # p, result'[s] # NoText PROVE WarnedOrExact(s)'
    BY <2>1, <2>3, <2>4 DEF Settled, WarnedOrExact
  <2>5. exact => ExactOps(p, rendered[1])
    BY <2>0, <2>1, <2>2 DEF Rendering
  <2>6. WarnedOrExact(p)'
    <3>1. result'[p].shown = rendered[1] /\ result'[p].plain = plain
      BY <2>2
    <3> QED BY <2>1, <2>2, <2>3, <2>5, <3>1 DEF WarnedOrExact
  <2> QED BY <1>0, <2>1, <2>4, <2>6 DEF Settled
<1> QED BY <1>1, <1>2, <1>3

(* Whatever bytes and matches the file holds: a pattern that ends without  *)
(* a warning has a text, and unless that is a recovered plaintext it is of *)
(* the only program found for the pattern and exact.                       *)
NothingLostInSilence ==
    phase = "done" =>
        \A s \in Patterns : ~ IsLiteral(s) /\ ~ Warned(s) =>
            /\ result[s] # NoText
            /\ \/ result[s].plain
               \/ SegsOf(s) = {result[s].shown} /\ ExactOps(s, result[s].shown)

LEMMA LoopInvariants ==
    /\ Spec => P!Spec
    /\ Spec => []Asked
    /\ Spec => []Collected
    /\ Spec => []Taken
    /\ Spec => []Rendering
    /\ Spec => []Settled
<1>1. Spec => P!Spec
  BY ImplementsReSectionHolds, SameSpec, PTL DEF ImplementsReSection
<1>2. P!Spec => []P!OneSegment
  BY SectionAssumption, P!OneSegmentHolds
<1> QED BY <1>1, <1>2, InitAsked, NextAsked, InitCollected, NextCollected, InitTaken, NextTaken,
           InitRendering, NextRendering, InitSettled, NextSettled, PTL DEF Spec

(* No way through the loop over the patterns (its early returns, its       *)
(* `continue's, its refusals) loses something of a pattern in silence,     *)
(* whatever file is read.                                                  *)
THEOREM NothingLostInSilenceHolds == Spec => []NothingLostInSilence
<1>1. Settled => NothingLostInSilence
  BY DEF Settled, WarnedOrExact, NothingLostInSilence
<1> QED BY <1>1, LoopInvariants, PTL

(* In a section of pattern programs the programs of a pattern that an atom *)
(* of it resumes in are the segments found for it.                         *)
LEMMA ForwardIsTaken ==
    ASSUME P!OneSegment, P!EveryProgramSegmented, Collected, pc # "segment",
           NEW s \in Patterns, NEW p \in programs, NEW o \in codeMap[s].forward, R!Holds(p, o)
    PROVE  p \in SegsOf(s)
<1>1. o \in Nat
  BY DEF Collected
<1>2. PICK m \in 1 .. Len(segments) : segments[m] = p
  BY DEF P!EveryProgramSegmented
<1>3. \A j \in 1 .. m - 1 : ~ R!Holds(segments[j], o)
  <2> SUFFICES ASSUME NEW j \in 1 .. m - 1, R!Holds(segments[j], o) PROVE FALSE
    OBVIOUS
  <2>1. j \in 1 .. Len(segments) /\ j # m
    OBVIOUS
  <2> QED BY <1>1, <1>2, <2>1 DEF P!OneSegment, P!Holds, R!Holds
<1> QED BY <1>2, <1>3 DEF SegsOf, SegmentsOf, R!IsContaining

(* A pattern without a warning is faithful: its text stands for the only   *)
(* program the compiler wrote for it that an atom of it resumes in, and    *)
(* says what each instruction of that program does.  The file is one of    *)
(* pattern programs, as for OwnProgramShown.                               *)
THEOREM UnwarnedIsFaithfulHolds ==
    FilesLinked /\ P!OnlyPrograms /\ Spec => []UnwarnedIsFaithful
<1> SUFFICES ASSUME FilesLinked, P!OnlyPrograms PROVE Spec => []UnwarnedIsFaithful
  OBVIOUS
<1>1. P!Spec => []P!OneSegment
  BY SectionAssumption, P!OneSegmentHolds
<1>2. P!Spec => []P!EveryProgramSegmented
  BY SectionAssumption, P!EveryProgramSegmentedHolds
<1>3. Spec => []OwnProgramShown
  BY OwnProgramShownHolds
<1>4. ASSUME P!OneSegment, P!EveryProgramSegmented, Collected, Taken, OwnProgramShown,
             NothingLostInSilence
      PROVE  UnwarnedIsFaithful
  <2> SUFFICES ASSUME phase = "done", NEW s \in Patterns, ~ IsLiteral(s), ~ Warned(s),
                      ~ result[s].plain
               PROVE  /\ result[s] # NoText
                      /\ ForwardOf(s) = {result[s].shown} /\ ExactOps(s, result[s].shown)
    BY <1>4 DEF NothingLostInSilence, UnwarnedIsFaithful
  <2>1. /\ result[s] # NoText
        /\ SegsOf(s) = {result[s].shown} /\ ExactOps(s, result[s].shown)
    BY <1>4 DEF NothingLostInSilence
  <2>2. pc # "segment"
    BY <1>4, <2>1 DEF Taken, Quiet
  <2>3. ForwardOf(s) \subseteq SegsOf(s)
    BY <1>4, <2>2, ForwardIsTaken DEF ForwardOf
  <2>4. result[s].shown \in ForwardOf(s)
    BY <1>4, <2>1 DEF OwnProgramShown
  <2> QED BY <2>1, <2>3, <2>4
<1> QED BY <1>1, <1>2, <1>3, <1>4, LoopInvariants, NothingLostInSilenceHolds, PTL

-----------------------------------------------------------------------------
(* The loop passes over no pattern for which a program was found.          *)
Reached ==
    /\ i \in Nat \ {0}
    /\ phase \in {"segment", "collect"} \/ pc = "segment" => i = 1
    /\ phase = "segment" => \A s \in Patterns : codeMap[s].forward = {}
    /\ \A s \in Patterns : s < i /\ ~ IsLiteral(s) /\ SegsOf(s) # {} => result[s] # NoText
    /\ phase \in {"emit", "done"} =>
         \A s \in Patterns : s < i \/ codeMap[s].forward = {}

LEMMA NothingCollected ==
    ASSUME NEW s, codeMap[s].forward = {} PROVE SegsOf(s) = {}
BY DEF SegsOf, SegmentsOf

LEMMA InitReached == Init => Reached
BY DEF Init, Reached, Patterns

LEMMA NextReached ==
    Asked /\ Collected /\ Taken /\ Rendering /\ Reached /\ [Next]_vars => Reached'
<1> SUFFICES ASSUME Asked, Collected, Taken, Rendering, Reached, [Next]_vars PROVE Reached'
  OBVIOUS
<1>0. /\ Patterns' = Patterns /\ file' = file /\ Patterns \subseteq Nat
      /\ pc' = "segment" => pc = "segment"
  <2>1. pc' = "segment" => pc = "segment"
    BY DEF Next, NoReCode, SegmentSection, CollectMatch, CollectDone, SkipLiteral, NoMatchEntry,
       OutsidePrograms, FindPrograms, DisassembleNext, Disassemble, RenderProgram, FinishPattern,
       PatternsDone, EmitStrings, R!SegmentInstr, R!SegmentDone, R!LocateProgram,
       R!DisassembleInstr, R!DisassembleRaise, vars, reVars
  <2> QED BY <2>1, FileStays DEF Patterns
<1>1. CASE phase \in {"segment", "collect"}
  <2>1. /\ i' = i /\ phase' \in {"segment", "collect", "patterns", "emit"} /\ i = 1
        /\ phase' = "segment" => UNCHANGED <<phase, codeMap>>
        /\ phase' = "emit" => phase = "segment" /\ UNCHANGED codeMap
    BY <1>1 DEF Next, NoReCode, SegmentSection, CollectMatch, CollectDone, SkipLiteral,
       NoMatchEntry, OutsidePrograms, FindPrograms, DisassembleNext, Disassemble, RenderProgram,
       FinishPattern, PatternsDone, EmitStrings, vars, linkVars, Reached
  <2>2. \A s \in Patterns : ~ (s < i)
    BY <1>1 DEF Reached, Patterns
  <2> QED BY <1>0, <1>1, <2>1, <2>2 DEF Reached
<1>2. CASE phase \notin {"segment", "collect"} /\ ~ FinishPattern
  <2>1. result' = result /\ \A s \in Patterns : SegsOf(s)' = SegsOf(s)
    BY <1>2, ResultStays, SegsStay
  <2>2. codeMap' = codeMap
    BY <1>2, MapStays DEF CollectMatch
  <2>3. CASE SkipLiteral \/ NoMatchEntry \/ OutsidePrograms
    <3>1. /\ i' = i + 1 /\ phase' = "patterns" /\ pc # "segment"
          /\ i \in Patterns /\ (IsLiteral(i) \/ SegsOf(i) = {})
      BY <2>3, NothingCollected DEF SkipLiteral, NoMatchEntry, OutsidePrograms, SegsOf, Taken
    <3>2. \A s \in Patterns : s < i + 1 => s < i \/ s = i
      BY <1>0 DEF Reached
    <3> QED BY <1>0, <2>1, <2>2, <3>1, <3>2 DEF Reached, IsLiteral
  <2>4. CASE PatternsDone
    <3>1. i' = i /\ i \notin Patterns /\ phase = "patterns" /\ phase' = "emit"
      BY <2>4 DEF PatternsDone
    <3>2. \A s \in Patterns : s < i
      <4>1. Len(file.strings) \in Nat
        BY PatternLinkAssumption DEF Collected
      <4> QED BY <3>1, <4>1 DEF Patterns, Reached
    <3> QED BY <1>0, <2>1, <2>2, <3>1, <3>2 DEF Reached, IsLiteral
  <2>5. CASE ~ (SkipLiteral \/ NoMatchEntry \/ OutsidePrograms \/ PatternsDone)
    <3>1. /\ i' = i /\ phase' \notin {"segment", "collect"}
          /\ phase' \in {"emit", "done"} => phase \in {"emit", "done"}
      BY <1>2, <2>5 DEF Next, NoReCode, SegmentSection, CollectMatch, CollectDone, FindPrograms,
         DisassembleNext, Disassemble, RenderProgram, EmitStrings, vars, linkVars
    <3> QED BY <1>0, <2>1, <2>2, <3>1 DEF Reached, IsLiteral
  <2> QED BY <2>3, <2>4, <2>5
<1>3. CASE FinishPattern
  <2>0. PICK p : p = i
    OBVIOUS
  <2>1. /\ p \in Patterns /\ phase = "programs" /\ phase' = "patterns" /\ i' = i + 1
        /\ \A s \in Patterns : s # p => result'[s] = result[s]
        /\ SegsOf(p) = Members(rendered)
    BY <1>3, <2>0, FinishShows
  <2>2. result'[p] # NoText
    <3>1. PICK plain \in BOOLEAN :
              /\ result'[p] = [shown |-> rendered[1], plain |-> plain]
              /\ rendered[1] \in Members(rendered)
      BY <1>3, <2>0, FinishShows
    <3> QED BY <2>1, <3>1, SegmentTaken DEF NoText
  <2>3. \A s \in Patterns : SegsOf(s)' = SegsOf(s)
    BY <2>1, SegsStay
  <2>4. \A s \in Patterns : s < i + 1 => s < i \/ s = p
    BY <1>0, <2>0 DEF Reached
  <2>5. pc # "segment"
    BY <2>1 DEF Taken
  <2> QED BY <1>0, <2>1, <2>2, <2>3, <2>4, <2>5 DEF Reached, IsLiteral
<1> QED BY <1>1, <1>2, <1>3

(* In a file of pattern programs each pattern that a match links to a      *)
(* program of it ends with a text: the segment around an atom is always    *)
(* found, always decodes, and something is always written for it.          *)
THEOREM EveryLinkedPatternRenderedHolds ==
    FilesLinked /\ P!OnlyPrograms /\ Spec => []EveryLinkedPatternRendered
<1> SUFFICES ASSUME FilesLinked, P!OnlyPrograms PROVE Spec => []EveryLinkedPatternRendered
  OBVIOUS
<1>1. P!Spec => []P!OneSegment
  BY SectionAssumption, P!OneSegmentHolds
<1>2. P!Spec => []P!EveryProgramSegmented
  BY SectionAssumption, P!EveryProgramSegmentedHolds
<1>3. Collected /\ Linked /\ [Next]_vars => Linked'
  BY NextLinked
<1>4. ASSUME P!OneSegment, P!EveryProgramSegmented, Collected, Linked, Reached
      PROVE  EveryLinkedPatternRendered
  <2> SUFFICES ASSUME phase = "done", NEW s \in Patterns, ~ IsLiteral(s),
                      codeMap[s].forward # {}
               PROVE  result[s] # NoText
    BY DEF EveryLinkedPatternRendered
  <2>1. PICK o \in codeMap[s].forward, p \in programs : R!Holds(p, o)
    BY <1>4 DEF Linked
  <2>2. pc # "segment"
    BY <1>4 DEF Reached, Patterns
  <2>3. p \in SegsOf(s)
    BY <1>4, <2>1, <2>2, ForwardIsTaken
  <2> QED BY <1>4, <2>3 DEF Reached
<1> QED BY <1>1, <1>2, <1>3, <1>4, LoopInvariants, InitCollected, InitReached, NextReached,
           PTL DEF Spec

-----------------------------------------------------------------------------
(* The type invariant, of which the counters have to be kept within the    *)
(* lists they count, and the texts within the segments.                    *)
Phase == {"segment", "collect", "patterns", "programs", "render", "emit", "done"}
Kind  == {"not linked", "outside", "decode", "base64", "several", "approximate", "unrecovered"}

Typed ==
    /\ phase \in Phase /\ k \in 1 .. Len(file.pool) + 1
    /\ i \in 1 .. Len(file.strings) + 1
    /\ segs \in SUBSET (Nat \X Nat) /\ todo \subseteq segs
    /\ rendered \in Seq(segs) /\ exact \in BOOLEAN
    /\ result \in [Patterns -> [shown : (Nat \X Nat) \cup {<<>>}, plain : BOOLEAN]]
    /\ warnings \subseteq Patterns \X Kind

LEMMA InitTyped == Init => Typed
<1> SUFFICES ASSUME Init PROVE Typed
  OBVIOUS
<1>1. Len(file.pool) \in Nat /\ Len(file.strings) \in Nat
  BY PatternLinkAssumption DEF Init
<1> QED BY <1>1 DEF Init, Typed, NoText, Phase

LEMMA WarnTyped ==
    ASSUME Typed, i \in Patterns, NEW kinds \in SUBSET Kind, Warn(kinds), Patterns' = Patterns
    PROVE  warnings' \subseteq Patterns' \X Kind
BY DEF Warn, Typed

LEMMA NextTyped == Asked /\ Collected /\ Taken /\ Rendering /\ Typed /\ [Next]_vars => Typed'
<1> SUFFICES ASSUME Asked, Collected, Taken, Rendering, Typed, [Next]_vars PROVE Typed'
  OBVIOUS
<1>0. /\ Patterns' = Patterns /\ file' = file /\ Patterns = 1 .. Len(file.strings)
      /\ Len(file.pool) \in Nat /\ Len(file.strings) \in Nat
  BY FileStays, PatternLinkAssumption DEF Patterns, Collected
<1>1. CASE NoReCode \/ SegmentSection \/ CollectDone \/ SkipLiteral \/ PatternsDone
  BY <1>0, <1>1 DEF NoReCode, SegmentSection, CollectDone, SkipLiteral, PatternsDone, Typed,
     loopVars, Phase
<1>2. CASE CollectMatch
  <2>1. k' \in 1 .. Len(file.pool) + 1
    BY <1>0, <1>2 DEF CollectMatch, Typed
  <2> QED BY <1>0, <1>2, <2>1 DEF CollectMatch, Typed, loopVars
<1>3. CASE NoMatchEntry \/ OutsidePrograms
  <2>1. i \in Patterns /\ (Warn({"not linked"}) \/ Warn({"outside"}))
    BY <1>3 DEF NoMatchEntry, OutsidePrograms
  <2>2. {"not linked"} \in SUBSET Kind /\ {"outside"} \in SUBSET Kind
    BY DEF Kind
  <2>3. warnings' \subseteq Patterns' \X Kind
    BY <1>0, <2>1, <2>2, WarnTyped
  <2>4. i' = i + 1 /\ UNCHANGED <<phase, k, result, segs, todo, rendered, exact>>
    BY <1>3 DEF NoMatchEntry, OutsidePrograms, loopVars
  <2>5. i' \in 1 .. Len(file.strings) + 1
    <3>1. i \in 1 .. Len(file.strings) /\ i' = i + 1
      BY <1>0, <2>1, <2>4
    <3> QED BY <1>0, <3>1
  <2> QED BY <1>0, <2>3, <2>4, <2>5 DEF Typed
<1>4. CASE FindPrograms
  <2>1. i \in Patterns /\ segs' = SegsOf(i) /\ todo' = segs' /\ rendered' = <<>>
    BY <1>4 DEF FindPrograms, SegsOf
  <2>2. segs' \in SUBSET (Nat \X Nat) /\ rendered' \in Seq(segs')
    BY <2>1, SegmentTaken
  <2> QED BY <1>0, <1>4, <2>1, <2>2 DEF FindPrograms, Typed, Phase
<1>5. CASE DisassembleNext
  BY <1>0, <1>5 DEF DisassembleNext, Typed, Phase
<1>6. CASE Disassemble
  BY <1>0, <1>6 DEF Disassemble, Typed, linkVars, loopVars
<1>7. CASE RenderProgram
  <2>1. rendered' = Append(rendered, seg) /\ UNCHANGED warnings /\ phase = "render"
    BY <1>7, RenderedExactly DEF RenderProgram
  <2>2. seg \in segs /\ rendered \in Seq(segs)
    BY <2>1 DEF Rendering, Typed
  <2>3. rendered' \in Seq(segs)
    BY <2>1, <2>2
  <2>4. exact' \in BOOLEAN
    BY <1>7 DEF RenderProgram, Typed
  <2> QED BY <1>0, <1>7, <2>1, <2>3, <2>4 DEF RenderProgram, Typed, Phase
<1>8. CASE FinishPattern
  <2>1. PICK plain \in BOOLEAN : Finish(plain)
    BY <1>8 DEF FinishPattern
  <2>2. i \in Patterns /\ rendered \in Seq(SegsOf(i)) /\ segs # {} /\ segs = Members(rendered)
    BY <1>8 DEF FinishPattern, Taken, Rendering
  <2>3. Len(rendered) \in Nat /\ rendered # <<>>
    BY <2>2 DEF Members
  <2>4. rendered[1] \in Nat \X Nat
    BY <2>3 DEF Typed
  <2>5. [shown |-> rendered[1], plain |-> plain] \in
          [shown : (Nat \X Nat) \cup {<<>>}, plain : BOOLEAN]
    BY <2>4
  <2>6. result' = [result EXCEPT ![i] = [shown |-> rendered[1], plain |-> plain]]
    BY <2>1, <2>3 DEF Finish
  <2>7. result' \in [Patterns -> [shown : (Nat \X Nat) \cup {<<>>}, plain : BOOLEAN]]
    BY <2>5, <2>6 DEF Typed
  <2>8. \E kinds \in SUBSET Kind : Warn(kinds)
    BY <2>1 DEF Finish, Kind
  <2>9. warnings' \subseteq Patterns' \X Kind
    BY <1>0, <2>2, <2>8, WarnTyped
  <2> QED BY <1>0, <1>8, <2>2, <2>7, <2>9 DEF FinishPattern, Typed, loopVars, Phase
<1>9. CASE EmitStrings
  <2> DEFINE Bare == {p \in Patterns : ~ IsLiteral(p) /\ result[p] = NoText}
  <2>1. warnings' \subseteq Patterns \X Kind
    <3>1. warnings' = warnings \cup {<<s, "unrecovered">> : s \in Bare} /\ Bare \subseteq Patterns
      BY <1>9 DEF EmitStrings
    <3> HIDE DEF Bare
    <3>2. "unrecovered" \in Kind
      BY DEF Kind
    <3>3. {<<s, "unrecovered">> : s \in Bare} \subseteq Patterns \X Kind
      BY <3>1, <3>2
    <3> QED BY <3>1, <3>3 DEF Typed
  <2> QED BY <1>0, <1>9, <2>1 DEF EmitStrings, Typed, loopVars, Phase
<1>10. CASE UNCHANGED vars
  BY <1>0, <1>10 DEF vars, linkVars, loopVars, Typed
<1> QED BY <1>1, <1>2, <1>3, <1>4, <1>5, <1>6, <1>7, <1>8, <1>9, <1>10 DEF Next

(* The state of the loop has its shape in every run: in particular only    *)
(* segments are disassembled, rendered and shown.                          *)
THEOREM TypeOKHolds == Spec => []TypeOK
<1>1. Collected /\ Typed => TypeOK
  BY DEF Collected, Typed, TypeOK, Phase, Kind
<1> QED BY <1>1, LoopInvariants, InitTyped, NextTyped, PTL DEF Spec
=============================================================================
