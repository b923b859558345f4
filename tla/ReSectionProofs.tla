--------------------------- MODULE ReSectionProofs ---------------------------
(***************************************************************************)
(* What holds of the two walks of ReSection for every section, every set   *)
(* of opcodes and every table of instruction widths.                       *)
(***************************************************************************)
EXTENDS ReSection, TLAPS

USE DEF NoSegment

(* An instruction that decodes ends beyond its offset, in the section.     *)
LEMMA DecodeFacts ==
    ASSUME NEW c \in Seq(Byte), NEW o \in Nat, Decodes(c, o)
    PROVE  /\ InstrEnd(c, o) \in Nat
           /\ o < InstrEnd(c, o)
           /\ InstrEnd(c, o) <= Len(c)
  <1>1. Width[c[o + 1]] \in Nat \ {0}
    BY ReSectionAssumption DEF Decodes
  <1>. QED  BY <1>1 DEF Decodes, InstrEnd

(* Appending to a sequence: its type, its length and its elements.         *)
LEMMA AppendFacts ==
    ASSUME NEW T, NEW s \in Seq(T), NEW e \in T
    PROVE  /\ Append(s, e) \in Seq(T)
           /\ Len(Append(s, e)) = Len(s) + 1
           /\ \A i \in 1 .. Len(s) : Append(s, e)[i] = s[i]
           /\ Append(s, e)[Len(s) + 1] = e
  OBVIOUS

-----------------------------------------------------------------------------
(* Every variable keeps its type: in particular the offset of either walk  *)
(* is never negative and the segments are pairs of offsets.                *)
LEMMA InitType == Init => TypeOK
  BY ReSectionAssumption DEF Init, WalksInit, TypeOK

LEMMA NextType == TypeOK /\ [Next]_reVars => TypeOK'
<1> SUFFICES ASSUME TypeOK, [Next]_reVars PROVE TypeOK'
  OBVIOUS
<1> USE DEF TypeOK
<1>1. CASE SegmentInstr
  <2>1. InstrEnd(code, off) \in Nat
    BY <1>1, DecodeFacts DEF SegmentInstr
  <2>2. <<start, InstrEnd(code, off)>> \in Nat \X Nat
    BY <2>1
  <2>3. Append(segments, <<start, InstrEnd(code, off)>>) \in Seq(Nat \X Nat)
    BY <2>2, AppendFacts
  <2>. QED  BY <1>1, <2>1, <2>3 DEF SegmentInstr, imageVars, disVars
<1>2. CASE SegmentDone
  BY <1>2 DEF SegmentDone, imageVars, segVars, disVars
<1>3. CASE DisassembleInstr
  <2>1. InstrEnd(code, at) \in Nat
    BY <1>3, DecodeFacts DEF DisassembleInstr
  <2>. QED  BY <1>3, <2>1 DEF DisassembleInstr, imageVars, segVars
<1>4. CASE DisassembleRaise
  BY <1>4 DEF DisassembleRaise, imageVars, segVars
<1>5. ASSUME NEW o \in 0 .. Len(code), LocateProgram(o) PROVE TypeOK'
  <2>1. PICK i \in 1 .. Len(segments) : seg' = segments[i] /\ at' = segments[i][1]
    BY <1>5 DEF LocateProgram
  <2>2. segments[i] \in Nat \X Nat
    BY <2>1
  <2>. QED  BY <1>5, <2>1, <2>2 DEF LocateProgram, imageVars, segVars
<1>6. ASSUME NEW o \in 0 .. Len(code), LocateNothing(o) PROVE TypeOK'
  BY <1>6 DEF LocateNothing, imageVars, segVars
<1>7. ASSUME NEW o \in 0 .. Len(code), MatchesOperand(o) PROVE TypeOK'
  BY <1>7, ReSectionAssumption DEF MatchesOperand, imageVars, segVars
<1>8. CASE UNCHANGED reVars
  BY <1>8 DEF reVars, imageVars, segVars, disVars
<1>. QED  BY <1>1, <1>2, <1>3, <1>4, <1>5, <1>6, <1>7, <1>8 DEF Next, Walk, Request

(* For every section, whatever is asked of the walks, their offsets stay   *)
(* in the section (segment_programs, disassemble_program).                 *)
THEOREM TypeCorrect == Spec => []TypeOK
  BY InitType, NextType, PTL DEF Spec

-----------------------------------------------------------------------------
(* What the loop of segment_programs has between two turns: the offset it  *)
(* has reached is at the end of a run of instructions, none of them MATCH, *)
(* that began at `start'.                                                  *)
Walking ==
    \E B \in SUBSET (start .. off) : IsWalk(code, start, off, B) /\ IsPlain(code, off, B)

(* What disassemble_program has when it was sent to a segment: an offset   *)
(* that is an instruction of that segment's program, or its end.           *)
Disassembling ==
    seg # NoSegment =>
        \E B \in SUBSET (seg[1] .. seg[2]) :
            /\ IsProgram(code, seg[1], seg[2], B)
            /\ pc = "disassemble" => at \in B \ {seg[2]}
            /\ pc = "idle" => at = seg[2] /\ answer = "program"
            /\ pc # "segment"

SegInv == SegmentsTile /\ Walking /\ SegmentsArePrograms

(* Going one instruction further keeps a walk a walk.                      *)
LEMMA WalkGrows ==
    ASSUME NEW c \in Seq(Byte), NEW a \in Nat, NEW o \in Nat,
           NEW B \in SUBSET (a .. o), IsWalk(c, a, o, B), IsPlain(c, o, B),
           Decodes(c, o)
    PROVE  LET e == InstrEnd(c, o)
           IN  /\ a < e
               /\ B \cup {e} \in SUBSET (a .. e)
               /\ IsWalk(c, a, e, B \cup {e})
               /\ ~ IsMatch(c, o) => IsPlain(c, e, B \cup {e})
               /\ IsMatch(c, o) => IsProgram(c, a, e, B \cup {e})
<1> DEFINE e == InstrEnd(c, o)
<1> DEFINE D == B \cup {e}
<1>1. e \in Nat /\ o < e
  BY DecodeFacts
<1>2. a <= o /\ o \in B /\ a \in B
  BY DEF IsWalk
<1>3. D \in SUBSET (a .. e) /\ a < e
  <2>1. a < e
    BY <1>1, <1>2
  <2>2. \A x \in D : x \in a .. e
    BY <1>1, <2>1
  <2>. QED  BY <2>1, <2>2
<1>4. \A x \in D \ {e} : x \in B /\ x <= o
  BY <1>1
<1>5. \A x \in D \ {e} : Decodes(c, x) /\ InstrEnd(c, x) \in D
  BY <1>4 DEF IsWalk
<1>6. IsWalk(c, a, e, D)
  BY <1>2, <1>3, <1>5 DEF IsWalk
<1>7. ~ IsMatch(c, o) => IsPlain(c, e, D)
  BY <1>4 DEF IsPlain
<1>8. ASSUME IsMatch(c, o) PROVE IsProgram(c, a, e, D)
  <2>1. ASSUME NEW x \in D \ {e} PROVE IsMatch(c, x) <=> InstrEnd(c, x) = e
    <3>1. CASE x = o
      BY <1>8, <3>1
    <3>2. CASE x # o
      <4>1. x \in B \ {o} /\ ~ IsMatch(c, x)
        BY <1>4, <3>2 DEF IsPlain
      <4>2. InstrEnd(c, x) \in B /\ InstrEnd(c, x) # e
        BY <4>1, <1>1 DEF IsWalk
      <4>. QED  BY <4>1, <4>2
    <3>. QED  BY <3>1, <3>2
  <2>. QED  BY <1>3, <1>6, <2>1 DEF IsProgram
<1> HIDE DEF e
<1>. QED  BY <1>3, <1>6, <1>7, <1>8 DEF e

LEMMA InitSeg == Init => SegInv
<1> SUFFICES ASSUME Init PROVE SegInv
  OBVIOUS
<1>1. SegmentsTile /\ SegmentsArePrograms
  BY DEF Init, WalksInit, SegmentsTile, SegmentsArePrograms
<1>2. {0} \in SUBSET (start .. off) /\ IsWalk(code, start, off, {0}) /\ IsPlain(code, off, {0})
  BY DEF Init, WalksInit, IsWalk, IsPlain
<1>. QED  BY <1>1, <1>2 DEF SegInv, Walking

(* The step that goes one instruction further in segment_programs.         *)
LEMMA SegmentStep == TypeOK /\ SegInv /\ SegmentInstr => SegInv'
<1> SUFFICES ASSUME TypeOK, SegInv, SegmentInstr PROVE SegInv'
  OBVIOUS
<1> DEFINE e == InstrEnd(code, off)
           n == Len(segments)
<1>1. code' = code /\ off' = e /\ e \in Nat /\ Decodes(code, off)
  BY DecodeFacts DEF SegmentInstr, TypeOK, imageVars
<1>2. PICK B \in SUBSET (start .. off) :
          IsWalk(code, start, off, B) /\ IsPlain(code, off, B)
  BY DEF SegInv, Walking
<1>3. /\ start < e
      /\ B \cup {e} \in SUBSET (start .. e)
      /\ IsWalk(code, start, e, B \cup {e})
      /\ ~ IsMatch(code, off) => IsPlain(code, e, B \cup {e})
      /\ IsMatch(code, off) => IsProgram(code, start, e, B \cup {e})
  BY <1>1, <1>2, WalkGrows DEF TypeOK
<1>4. CASE ~ IsMatch(code, off)
  <2>1. segments' = segments /\ start' = start
    BY <1>4 DEF SegmentInstr
  <2>2. Walking'
    BY <1>1, <1>3, <1>4, <2>1 DEF Walking
  <2>. QED  BY <1>1, <2>1, <2>2 DEF SegInv, SegmentsTile, SegmentsArePrograms
<1>5. CASE IsMatch(code, off)
  <2>1. segments' = Append(segments, <<start, e>>) /\ start' = e
    BY <1>5 DEF SegmentInstr
  <2>2. /\ segments' \in Seq(Nat \X Nat) /\ Len(segments') = n + 1 /\ n \in Nat
        /\ \A i \in 1 .. n : segments'[i] = segments[i]
        /\ segments'[n + 1] = <<start, e>>
    <3>1. <<start, e>> \in Nat \X Nat /\ segments \in Seq(Nat \X Nat)
      BY <1>1 DEF TypeOK
    <3>. QED  BY <3>1, <2>1, AppendFacts
  <2>3. Walking'
    <3>1. {e} \in SUBSET (e .. e) /\ IsWalk(code, e, e, {e}) /\ IsPlain(code, e, {e})
      BY <1>1 DEF IsWalk, IsPlain
    <3>. QED  BY <1>1, <2>1, <3>1 DEF Walking
  <2>4. SegmentsTile'
    <3>1. start' = IF segments' = <<>> THEN 0 ELSE segments'[Len(segments')][2]
      BY <2>1, <2>2
    <3>2. ASSUME NEW i \in 1 .. Len(segments')
          PROVE  /\ segments'[i][1] = IF i = 1 THEN 0 ELSE segments'[i - 1][2]
                 /\ segments'[i][1] < segments'[i][2]
      <4>1. CASE i \in 1 .. n
        <5>0. i # 1 => i - 1 \in 1 .. n
          BY <4>1, <2>2
        <5>1. segments'[i] = segments[i] /\ (i # 1 => segments'[i - 1] = segments[i - 1])
          BY <4>1, <5>0, <2>2
        <5>. QED  BY <4>1, <5>1 DEF SegInv, SegmentsTile
      <4>2. CASE i = n + 1
        <5>1. n # 0 => segments'[i - 1] = segments[n]
          BY <4>2, <2>2
        <5>2. start = IF n = 0 THEN 0 ELSE segments[n][2]
          BY DEF SegInv, SegmentsTile, TypeOK
        <5>. QED  BY <4>2, <5>1, <5>2, <2>2, <1>3
      <4>. QED  BY <4>1, <4>2, <2>2
    <3>. QED  BY <3>1, <3>2 DEF SegmentsTile
  <2>5. SegmentsArePrograms'
    <3>1. ProgramAt(code, <<start, e>>)
      BY <1>3, <1>5 DEF ProgramAt
    <3>2. ASSUME NEW i \in 1 .. Len(segments') PROVE ProgramAt(code, segments'[i])
      <4>1. CASE i \in 1 .. n
        BY <4>1, <2>2 DEF SegInv, SegmentsArePrograms
      <4>2. CASE i = n + 1
        BY <4>2, <2>2, <3>1
      <4>. QED  BY <4>1, <4>2, <2>2
    <3>. QED  BY <3>2, <1>1 DEF SegmentsArePrograms
  <2>. QED  BY <2>3, <2>4, <2>5 DEF SegInv
<1>. QED  BY <1>4, <1>5

(* No other step moves what SegInv speaks of.                              *)
LEMMA NextSeg == TypeOK /\ SegInv /\ [Next]_reVars => SegInv'
<1> SUFFICES ASSUME TypeOK, SegInv, [Next]_reVars PROVE SegInv'
  OBVIOUS
<1>1. CASE SegmentInstr
  BY <1>1, SegmentStep
<1>2. CASE ~ SegmentInstr
  <2>1. UNCHANGED <<code, off, start, segments>>
    BY <1>2 DEF Next, Walk, Request, SegmentDone, LocateProgram, LocateNothing, MatchesOperand,
                DisassembleInstr, DisassembleRaise, reVars, imageVars, segVars
  <2>. QED  BY <2>1 DEF SegInv, SegmentsTile, Walking, SegmentsArePrograms
<1>. QED  BY <1>1, <1>2

(* The segments partition the walked part of the section, in order:        *)
(* SegmentsTile.                                                           *)
THEOREM SegmentsTileHolds == Spec => []SegmentsTile
<1>1. TypeOK /\ SegInv => SegmentsTile
  BY DEF SegInv
<1>. QED  BY <1>1, InitType, NextType, InitSeg, NextSeg, PTL DEF Spec

(* Whatever bytes the section holds, each segment is one whole program     *)
(* whose only MATCH instruction is its last: SegmentsArePrograms.          *)
THEOREM SegmentsAreProgramsHolds == Spec => []SegmentsArePrograms
<1>1. TypeOK /\ SegInv => SegmentsArePrograms
  BY DEF SegInv
<1>. QED  BY <1>1, InitType, NextType, InitSeg, NextSeg, PTL DEF Spec

(* Tiles are apart.  It follows from SegmentsTile by induction on their    *)
(* number; here it is an invariant of its own.                             *)
Apart ==
    /\ \A i \in 1 .. Len(segments) : segments[i][2] <= start
    /\ \A i, j \in 1 .. Len(segments) : i < j => segments[i][2] <= segments[j][1]

LEMMA LastOrBefore ==
    ASSUME NEW n \in Nat, NEW i \in 1 .. n + 1, NEW j \in 1 .. n + 1, i < j
    PROVE  i \in 1 .. n /\ (j \in 1 .. n \/ j = n + 1)
  OBVIOUS

LEMMA InitApart == Init => Apart
  BY DEF Init, WalksInit, Apart

LEMMA NextApart == TypeOK /\ SegInv /\ Apart /\ [Next]_reVars => Apart'
<1> SUFFICES ASSUME TypeOK, SegInv, Apart, [Next]_reVars PROVE Apart'
  OBVIOUS
<1>1. CASE SegmentInstr /\ IsMatch(code, off)
  <2> DEFINE e == InstrEnd(code, off)
             n == Len(segments)
  <2>1. e \in Nat /\ off < e /\ segments' = Append(segments, <<start, e>>) /\ start' = e
    BY <1>1, DecodeFacts DEF SegmentInstr, TypeOK
  <2>2. start <= off
    <3>1. PICK B \in SUBSET (start .. off) : start \in B
      BY DEF SegInv, Walking, IsWalk
    <3>. QED  BY <3>1 DEF TypeOK
  <2>3. /\ segments' \in Seq(Nat \X Nat) /\ Len(segments') = n + 1 /\ n \in Nat
        /\ \A i \in 1 .. n : segments'[i] = segments[i]
        /\ segments'[n + 1] = <<start, e>>
    <3>1. <<start, e>> \in Nat \X Nat /\ segments \in Seq(Nat \X Nat)
      BY <2>1 DEF TypeOK
    <3>. QED  BY <3>1, <2>1, AppendFacts
  <2>4. start \in Nat /\ off \in Nat /\ \A i \in 1 .. n : segments[i][2] \in Nat
    BY DEF TypeOK
  <2>5. \A i \in 1 .. n : segments'[i][2] <= start
    BY <2>3 DEF Apart
  <2>6. \A i \in 1 .. Len(segments') : segments'[i][2] <= start'
    BY <2>1, <2>2, <2>3, <2>4, <2>5
  <2>7. \A i, j \in 1 .. Len(segments') : i < j => segments'[i][2] <= segments'[j][1]
    <3>1. \A i, j \in 1 .. n : i < j => segments'[i][2] <= segments'[j][1]
      BY <2>3 DEF Apart
    <3>2. \A i \in 1 .. n : segments'[i][2] <= segments'[n + 1][1]
      BY <2>3, <2>5
    <3>3. ASSUME NEW i \in 1 .. n + 1, NEW j \in 1 .. n + 1, i < j
          PROVE  i \in 1 .. n /\ (j \in 1 .. n \/ j = n + 1)
      BY <3>3, LastOrBefore, <2>3
    <3>4. ASSUME NEW i \in 1 .. n + 1, NEW j \in 1 .. n + 1, i < j
          PROVE  segments'[i][2] <= segments'[j][1]
      BY <3>1, <3>2, <3>3, <3>4
    <3>. QED  BY <2>3, <3>4
  <2>. QED  BY <2>6, <2>7 DEF Apart
<1>2. CASE ~ (SegmentInstr /\ IsMatch(code, off))
  <2>1. UNCHANGED <<start, segments>>
    BY <1>2 DEF Next, Walk, Request, SegmentInstr, SegmentDone, LocateProgram, LocateNothing,
                MatchesOperand, DisassembleInstr, DisassembleRaise, reVars, segVars
  <2>. QED  BY <2>1 DEF Apart
<1>. QED  BY <1>1, <1>2

(* An offset is in one segment at most: that program_containing takes the  *)
(* first one it finds never matters.                                       *)
OneSegment ==
    \A i, j \in 1 .. Len(segments) : \A o \in Nat :
        Holds(segments[i], o) /\ Holds(segments[j], o) => i = j

(* It holds of every section and at every moment of the walk.              *)
THEOREM OneSegmentHolds == Spec => []OneSegment
<1>1. ASSUME TypeOK, Apart PROVE OneSegment
  <2> SUFFICES ASSUME NEW i \in 1 .. Len(segments), NEW j \in 1 .. Len(segments), NEW o \in Nat,
                      Holds(segments[i], o), Holds(segments[j], o)
               PROVE  i = j
    BY DEF OneSegment
  <2>1. segments[i] \in Nat \X Nat /\ segments[j] \in Nat \X Nat /\ i \in Nat /\ j \in Nat
    BY <1>1 DEF TypeOK
  <2>2. ~ (i < j)
    BY <1>1, <2>1 DEF Apart, Holds
  <2>3. ~ (j < i)
    BY <1>1, <2>1 DEF Apart, Holds
  <2>. QED  BY <2>1, <2>2, <2>3
<1>. QED  BY <1>1, InitType, NextType, InitSeg, NextSeg, InitApart, NextApart, PTL DEF Spec

-----------------------------------------------------------------------------
(* A program that begins at a has its next instruction inside it, and the  *)
(* one that is MATCH, and only that one, at its end.                       *)
LEMMA ProgramStep ==
    ASSUME NEW c, NEW a, NEW b, NEW B, IsProgram(c, a, b, B), NEW o \in B \ {b}
    PROVE  /\ Decodes(c, o)
           /\ InstrEnd(c, o) \in B
           /\ IsMatch(c, o) <=> InstrEnd(c, o) = b
  BY DEF IsProgram, IsWalk

LEMMA InitDis == Init => Disassembling
  BY DEF Init, WalksInit, Disassembling

LEMMA NextDis == TypeOK /\ SegInv /\ Disassembling /\ [Next]_reVars => Disassembling'
<1> SUFFICES ASSUME TypeOK, SegInv, Disassembling, [Next]_reVars, (seg # NoSegment)'
             PROVE  (\E B \in SUBSET (seg[1] .. seg[2]) :
                       /\ IsProgram(code, seg[1], seg[2], B)
                       /\ pc = "disassemble" => at \in B \ {seg[2]}
                       /\ pc = "idle" => at = seg[2] /\ answer = "program"
                       /\ pc # "segment")'
  BY DEF Disassembling
<1>1. CASE SegmentInstr \/ SegmentDone
  BY <1>1 DEF SegmentInstr, SegmentDone, disVars, Disassembling
<1>2. CASE DisassembleInstr \/ DisassembleRaise
  <2>1. seg' = seg /\ code' = code /\ pc = "disassemble" /\ seg # NoSegment
    BY <1>2 DEF DisassembleInstr, DisassembleRaise, imageVars
  <2>2. PICK B \in SUBSET (seg[1] .. seg[2]) :
            IsProgram(code, seg[1], seg[2], B) /\ at \in B \ {seg[2]}
    BY <2>1 DEF Disassembling
  <2>3. /\ Decodes(code, at) /\ InstrEnd(code, at) \in B
        /\ IsMatch(code, at) <=> InstrEnd(code, at) = seg[2]
    BY <2>2, ProgramStep
  <2>4. DisassembleInstr
    BY <1>2, <2>3 DEF DisassembleRaise
  <2>. QED  BY <2>1, <2>2, <2>3, <2>4 DEF DisassembleInstr
<1>3. ASSUME NEW o \in 0 .. Len(code), LocateProgram(o)
      PROVE  (\E B \in SUBSET (seg[1] .. seg[2]) :
                /\ IsProgram(code, seg[1], seg[2], B)
                /\ pc = "disassemble" => at \in B \ {seg[2]}
                /\ pc = "idle" => at = seg[2] /\ answer = "program"
                /\ pc # "segment")'
  <2>1. PICK i \in 1 .. Len(segments) : seg' = segments[i] /\ at' = segments[i][1]
    BY <1>3 DEF LocateProgram
  <2>2. PICK B \in SUBSET (segments[i][1] .. segments[i][2]) :
            IsProgram(code, segments[i][1], segments[i][2], B)
    BY DEF SegInv, SegmentsArePrograms, ProgramAt
  <2>3. segments[i] \in Nat \X Nat
    BY DEF TypeOK
  <2>4. segments[i][1] \in B \ {segments[i][2]}
    BY <2>2, <2>3 DEF IsProgram, IsWalk
  <2>5. code' = code /\ pc' = "disassemble"
    BY <1>3 DEF LocateProgram, imageVars
  <2>. QED  BY <2>1, <2>2, <2>4, <2>5
<1>4. ASSUME NEW o \in 0 .. Len(code), LocateNothing(o) \/ MatchesOperand(o) PROVE FALSE
  BY <1>4 DEF LocateNothing, MatchesOperand
<1>5. CASE UNCHANGED reVars
  BY <1>5 DEF reVars, imageVars, segVars, disVars, Disassembling
<1>. QED  BY <1>1, <1>2, <1>3, <1>4, <1>5 DEF Next, Walk, Request

(* Sent to a segment, disassemble_program never raises and ends exactly at *)
(* the segment's end, for every section: DisassemblyStaysInSegment.        *)
THEOREM DisassemblyStaysInSegmentHolds == Spec => []DisassemblyStaysInSegment
<1>1. ASSUME TypeOK, Disassembling PROVE DisassemblyStaysInSegment
  <2> SUFFICES ASSUME seg # NoSegment
               PROVE  /\ answer = "error" => pc = "disassemble"
                      /\ pc = "disassemble" => Decodes(code, at) /\ InstrEnd(code, at) <= seg[2]
                      /\ pc = "idle" => at = seg[2]
    BY DEF DisassemblyStaysInSegment
  <2>1. PICK B \in SUBSET (seg[1] .. seg[2]) :
            /\ IsProgram(code, seg[1], seg[2], B)
            /\ pc = "disassemble" => at \in B \ {seg[2]}
            /\ pc = "idle" => at = seg[2] /\ answer = "program"
            /\ pc # "segment"
    BY <1>1 DEF Disassembling
  <2>0. seg[1] \in Nat /\ seg[2] \in Nat
    BY <1>1 DEF TypeOK
  <2>2. CASE pc = "disassemble"
    <3>1. Decodes(code, at) /\ InstrEnd(code, at) \in B
      BY <2>1, <2>2, ProgramStep
    <3>2. \A x \in B : x <= seg[2]
      BY <2>0
    <3>. QED  BY <2>2, <3>1, <3>2
  <2>3. CASE pc = "idle"
    BY <2>1, <2>3
  <2>. QED  BY <1>1, <2>1, <2>2, <2>3 DEF TypeOK
<1>. QED  BY <1>1, InitType, NextType, InitSeg, NextSeg, InitDis, NextDis, PTL DEF Spec

-----------------------------------------------------------------------------
(* The completeness of the segmentation needs what the compiler promises   *)
(* of the section when it writes pattern programs only.                    *)
OnlyPrograms ==
    \A image \in Images : image.programs = {} \/ LaidOut(image.code, image.programs)

(* Between two turns of the loop, `start' is one of its cuts, the     *)
(* instruction reached is one of the program that begins there, and every  *)
(* program before `start' has been listed.                                 *)
WalkedTo(c, P, C, a, o) ==
    \E b \in C : \E B \in SUBSET (a .. b) :
        /\ IsProgram(c, a, b, B)
        /\ \A x \in C : x <= a \/ b <= x
        /\ \A p \in P : p[1] = a => p = <<a, b>>
        /\ o \in B \ {b}

InLayout(C) ==
    /\ IsLayout(code, programs, C)
    /\ start \in C
    /\ \A p \in programs : p[1] < start => \E i \in 1 .. Len(segments) : segments[i] = p
    /\ start = Len(code) => off = start
    /\ start # Len(code) => WalkedTo(code, programs, C, start, off)
    /\ pc # "segment" => start = Len(code)

Laid == programs = {} \/ \E C \in SUBSET (0 .. Len(code)) : InLayout(C)

(* At a cut, the layout gives the program to walk next.                    *)
LEMMA NextProgram ==
    ASSUME NEW c, NEW P, NEW C, IsLayout(c, P, C), NEW a \in C, a # Len(c)
    PROVE  WalkedTo(c, P, C, a, a)
<1>1. PICK b \in C :
          /\ ProgramAt(c, <<a, b>>)
          /\ \A x \in C : x <= a \/ b <= x
          /\ \A p \in P : p[1] = a => p = <<a, b>>
  BY DEF IsLayout
<1>2. PICK B \in SUBSET (a .. b) : IsProgram(c, a, b, B)
  BY <1>1 DEF ProgramAt
<1>3. a \in 0 .. Len(c) /\ b \in 0 .. Len(c)
  BY DEF IsLayout
<1>4. a \in B \ {b}
  BY <1>2, <1>3 DEF IsProgram, IsWalk
<1>. QED  BY <1>1, <1>2, <1>4 DEF WalkedTo

LEMMA InitLaid == OnlyPrograms /\ Init => Laid
<1> SUFFICES ASSUME OnlyPrograms, Init, programs # {} PROVE Laid
  BY DEF Laid
<1>1. LaidOut(code, programs)
  BY DEF Init, WalksInit, OnlyPrograms
<1>2. PICK C \in SUBSET (0 .. Len(code)) : IsLayout(code, programs, C)
  BY <1>1 DEF LaidOut
<1>3. start = 0 /\ off = 0 /\ 0 \in C /\ pc = "segment"
  BY <1>2 DEF Init, WalksInit, IsLayout
<1>4. \A p \in programs : ~ (p[1] < start)
  <2>1. \A p \in programs : p[1] \in 0 .. Len(code)
    BY <1>2 DEF IsLayout
  <2>. QED  BY <1>3, <2>1
<1>5. start # Len(code) => WalkedTo(code, programs, C, start, off)
  BY <1>2, <1>3, NextProgram
<1>. QED  BY <1>2, <1>3, <1>4, <1>5 DEF Laid, InLayout

LEMMA NextLaid == TypeOK /\ Laid /\ [Next]_reVars => Laid'
<1> SUFFICES ASSUME TypeOK, Laid, [Next]_reVars PROVE Laid'
  OBVIOUS
<1>1. code' = code /\ programs' = programs
  BY DEF Next, Walk, Request, SegmentInstr, SegmentDone, LocateProgram, LocateNothing,
         MatchesOperand, DisassembleInstr, DisassembleRaise, reVars, imageVars
<1>2. CASE programs = {}
  BY <1>1, <1>2 DEF Laid
<1>3. CASE programs # {}
  <2>1. PICK C \in SUBSET (0 .. Len(code)) : InLayout(C)
    BY <1>3 DEF Laid
  <2> SUFFICES InLayout(C)'
    BY <1>1 DEF Laid
  <2>2. IsLayout(code, programs, C) /\ start \in C /\ start <= Len(code)
    BY <2>1 DEF InLayout, TypeOK
  <2>3. CASE SegmentInstr
    <3>1. start # Len(code)
      BY <2>1, <2>3 DEF InLayout, SegmentInstr, Decodes
    <3>2. PICK b \in C : \E B \in SUBSET (start .. b) :
              /\ IsProgram(code, start, b, B)
              /\ \A x \in C : x <= start \/ b <= x
              /\ \A p \in programs : p[1] = start => p = <<start, b>>
              /\ off \in B \ {b}
      BY <2>1, <3>1 DEF InLayout, WalkedTo
    <3>3. PICK B \in SUBSET (start .. b) :
              /\ IsProgram(code, start, b, B)
              /\ \A x \in C : x <= start \/ b <= x
              /\ \A p \in programs : p[1] = start => p = <<start, b>>
              /\ off \in B \ {b}
      BY <3>2
    <3>4. /\ InstrEnd(code, off) \in B
          /\ IsMatch(code, off) <=> InstrEnd(code, off) = b
      BY <3>3, ProgramStep
    <3>5. pc = "segment" /\ pc' = pc /\ off' = InstrEnd(code, off)
      BY <2>3 DEF SegmentInstr
    <3>6. CASE ~ IsMatch(code, off)
      <4>1. start' = start /\ segments' = segments
        BY <2>3, <3>6 DEF SegmentInstr
      <4>2. WalkedTo(code, programs, C, start, off')
        BY <3>3, <3>4, <3>5, <3>6 DEF WalkedTo
      <4>. QED  BY <1>1, <2>1, <2>2, <3>1, <3>5, <4>1, <4>2 DEF InLayout
    <3>7. CASE IsMatch(code, off)
      <4>1. start' = b /\ off' = b /\ segments' = Append(segments, <<start, b>>)
        BY <2>3, <3>4, <3>5, <3>7 DEF SegmentInstr
      <4>2. b \in Nat /\ start \in Nat /\ start < b
        BY <2>2, <3>3 DEF IsProgram, TypeOK
      <4>3. /\ Len(segments') = Len(segments) + 1 /\ Len(segments) \in Nat
            /\ \A i \in 1 .. Len(segments) : segments'[i] = segments[i]
            /\ segments'[Len(segments) + 1] = <<start, b>>
        <5>1. <<start, b>> \in Nat \X Nat /\ segments \in Seq(Nat \X Nat)
          BY <4>2 DEF TypeOK
        <5>. QED  BY <4>1, <5>1, AppendFacts
      <4>4. ASSUME NEW p \in programs, p[1] < b
            PROVE  \E i \in 1 .. Len(segments') : segments'[i] = p
        <5>1. p[1] \in C /\ p[1] \in Nat
          BY <2>2 DEF IsLayout, TypeOK
        <5>2. p[1] <= start
          BY <3>3, <4>2, <4>4, <5>1
        <5>3. CASE p[1] = start
          <6>1. segments'[Len(segments) + 1] = p
            BY <3>3, <4>3, <5>3
          <6>2. Len(segments) + 1 \in 1 .. Len(segments')
            BY <4>3
          <6>. QED  BY <6>1, <6>2
        <5>4. CASE p[1] < start
          <6>1. PICK i \in 1 .. Len(segments) : segments[i] = p
            BY <2>1, <5>4 DEF InLayout
          <6>. QED  BY <4>3, <6>1
        <5>. QED  BY <4>2, <5>1, <5>2, <5>3, <5>4
      <4>5. b # Len(code) => WalkedTo(code, programs, C, b, b)
        BY <2>2, <3>2, NextProgram
      <4>. QED  BY <1>1, <2>2, <3>2, <3>5, <4>1, <4>4, <4>5 DEF InLayout
    <3>. QED  BY <3>6, <3>7
  <2>4. CASE SegmentDone
    <3>1. start = Len(code)
      <4> SUFFICES ASSUME start # Len(code) PROVE FALSE
        OBVIOUS
      <4>1. PICK b \in C : \E B \in SUBSET (start .. b) :
                IsProgram(code, start, b, B) /\ off \in B \ {b}
        BY <2>1 DEF InLayout, WalkedTo
      <4>2. PICK B \in SUBSET (start .. b) :
                IsProgram(code, start, b, B) /\ off \in B \ {b}
        BY <4>1
      <4>. QED  BY <2>4, <4>2, ProgramStep DEF SegmentDone
    <3>. QED  BY <1>1, <2>1, <2>4, <3>1 DEF InLayout, SegmentDone, segVars
  <2>5. CASE ~ SegmentInstr /\ ~ SegmentDone
    <3>1. UNCHANGED <<off, start, segments>> /\ (pc = "segment" => pc' = "segment")
      BY <2>5 DEF Next, Walk, Request, LocateProgram, LocateNothing, MatchesOperand,
                  DisassembleInstr, DisassembleRaise, reVars, segVars
    <3>. QED  BY <1>1, <2>1, <3>1 DEF InLayout
  <2>. QED  BY <2>3, <2>4, <2>5
<1>. QED  BY <1>2, <1>3

(* In a section that holds pattern programs and nothing else, no program   *)
(* is missing from the segments: EveryProgramSegmented.  The assumption is *)
(* what a matches operand breaks: its flags word is no program.            *)
THEOREM EveryProgramSegmentedHolds == OnlyPrograms /\ Spec => []EveryProgramSegmented
<1>1. ASSUME TypeOK, Laid PROVE EveryProgramSegmented
  <2> SUFFICES ASSUME pc # "segment", NEW p \in programs
               PROVE  \E i \in 1 .. Len(segments) : segments[i] = p
    BY DEF EveryProgramSegmented
  <2>1. PICK C \in SUBSET (0 .. Len(code)) : InLayout(C)
    BY <1>1 DEF Laid
  <2>2. p[1] \in 0 .. Len(code) /\ p[1] # Len(code) /\ start = Len(code)
    BY <2>1 DEF InLayout, IsLayout
  <2>. QED  BY <2>1, <2>2 DEF InLayout
<1>. QED  BY <1>1, InitType, NextType, InitLaid, NextLaid, PTL DEF Spec

-----------------------------------------------------------------------------
(* The list of segments grows at its end and settles before the first      *)
(* request: SegmentsSettle.                                                *)
THEOREM SegmentsSettleHolds == Spec => SegmentsSettle
<1>1. ASSUME TypeOK, [Next]_reVars
      PROVE  [/\ Len(segments) <= Len(segments')
              /\ \A i \in 1 .. Len(segments) : segments'[i] = segments[i]
              /\ pc # "segment" => segments' = segments]_reVars
  <2>1. segments \in Seq(Nat \X Nat) /\ Len(segments) \in Nat
    BY <1>1 DEF TypeOK
  <2>2. CASE SegmentInstr /\ IsMatch(code, off)
    <3>1. <<start, InstrEnd(code, off)>> \in Nat \X Nat
      BY <1>1, <2>2, DecodeFacts DEF SegmentInstr, TypeOK
    <3>2. segments' = Append(segments, <<start, InstrEnd(code, off)>>) /\ pc = "segment"
      BY <2>2 DEF SegmentInstr
    <3>. QED  BY <2>1, <3>1, <3>2, AppendFacts
  <2>3. CASE ~ (SegmentInstr /\ IsMatch(code, off))
    <3>1. segments' = segments
      BY <1>1, <2>3 DEF Next, Walk, Request, SegmentInstr, SegmentDone, LocateProgram,
                  LocateNothing, MatchesOperand, DisassembleInstr, DisassembleRaise,
                  reVars, segVars
    <3>. QED  BY <2>1, <3>1
  <2>. QED  BY <2>2, <2>3
<1>. QED  BY <1>1, InitType, NextType, PTL DEF Spec, SegmentsSettle
=============================================================================
