--------------------------- MODULE DecompileProofs ---------------------------
(***************************************************************************)
(* Theorems about main and decompile, for every file and every invocation: *)
(* no instruction gets into the bodies of two rules (BodiesDisjoint); the  *)
(* exit status tells whether a text was delivered whole (StatusTells); a   *)
(* rule is written once, after those it refers to and with the condition   *)
(* of its own code (EachRuleItsCondition, ReferencesPrecede); and a rule   *)
(* that lost its condition is named by a warning (NoSilentLoss).           *)
(***************************************************************************)
EXTENDS CommandLine, FiniteSetTheorems, CommonLemmas

-----------------------------------------------------------------------------
(* The disassembly: what is decoded is the beginning of the code, and all  *)
(* of it, or all up to a HALT, when the walk has left the code.            *)
Complete == Len(instrs) = Len(file.code) \/ (instrs # <<>> /\ instrs[Len(instrs)].op = "HALT")

Decoded ==
    /\ file \in Files
    /\ off \in Nat \ {0}
    /\ instrs \in Seq(Instr) /\ Len(instrs) <= Len(file.code)
    /\ \A k \in 1 .. Len(instrs) : instrs[k] = file.code[k]
    /\ phase = "decode" => IF off <= Len(file.code) THEN off = Len(instrs) + 1 ELSE Complete
    /\ stage \in {"open", "disassemble"} =>
         phase \in {"decode", "raised"} \/ (phase = "emit" /\ Complete)

LEMMA InitDecoded == MainInit => Decoded
<1> SUFFICES ASSUME MainInit PROVE Decoded
  OBVIOUS
<1> USE DEF MainInit, Init
<1>1. file \in Files /\ file.code \in Seq(Instr)
  BY DecompileAssumption
<1>2. instrs = <<>> /\ off = 1 /\ Len(file.code) \in Nat
  BY <1>1
<1>3. phase = "emit" => Complete
  BY <1>1, <1>2 DEF Complete
<1>4. phase = "decode" => off <= Len(file.code) /\ off = Len(instrs) + 1
  BY <1>1, <1>2
<1> QED BY <1>1, <1>2, <1>3, <1>4 DEF Decoded

LEMMA DecodeKeepsDecoded ==
    ASSUME Decoded, DecodeInstr, stage' = stage
    PROVE  Decoded'
<1> USE DEF DecodeInstr, Here, Decoded
<1>1. file.code \in Seq(Instr) /\ file' = file /\ phase' = phase /\ phase = "decode"
  BY DecompileAssumption
<1>2. off = Len(instrs) + 1 /\ off \in 1 .. Len(file.code) /\ file.code[off] \in Instr
  BY <1>1
<1>3. /\ instrs' \in Seq(Instr) /\ Len(instrs') = Len(instrs) + 1 /\ instrs' # <<>>
      /\ \A k \in 1 .. Len(instrs') : instrs'[k] = file.code[k]
  BY <1>1, <1>2
<1>4. off' \in Nat \ {0}
  BY <1>1, <1>2
<1>5. IF off' <= Len(file.code) THEN off' = Len(instrs') + 1 ELSE Complete'
  <2>1. CASE file.code[off].op = "HALT"
    BY <2>1, <1>1, <1>2, <1>3 DEF Complete
  <2>2. CASE file.code[off].op # "HALT"
    BY <2>2, <1>1, <1>2, <1>3 DEF Complete
  <2> QED BY <2>1, <2>2
<1> QED BY <1>1, <1>2, <1>3, <1>4, <1>5

LEMMA StepDecoded == Decoded /\ [MainNext]_allVars => Decoded'
<1> SUFFICES ASSUME Decoded, [MainNext]_allVars PROVE Decoded'
  OBVIOUS
<1>1. CASE Disassemble
  BY <1>1, DecodeKeepsDecoded DEF Disassemble, mainVars
<1>2. CASE RaiseDisassembling
  BY <1>2 DEF RaiseDisassembling, DecodeRaise, mainVars, Decoded
<1>3. CASE Decompiling
  <2>1. stage = "decompile" /\ stage' = "decompile"
    BY <1>3 DEF Decompiling, mainVars
  <2>2. CASE DecodeInstr
    BY <2>1, <2>2, DecodeKeepsDecoded
  <2>3. CASE RecoverImports
    BY <2>1, <2>3 DEF RecoverImports, Decoded
  <2>4. CASE DecodeRaise \/ SplitDone \/ RecoverCondition \/ ConditionsDone \/ WriteRule \/ WriteDone
    BY <2>1, <2>4 DEF DecodeRaise, SplitDone, RecoverCondition, ConditionsDone, WriteRule,
       WriteDone, Decoded
  <2>5. CASE InitRule \/ MatchRule \/ BodyInstr
    BY <2>1, <2>5 DEF InitRule, MatchRule, BodyInstr, Cut, Splitting, Decoded
  <2> QED BY <1>3, <2>2, <2>3, <2>4, <2>5 DEF Decompiling, Next
<1>4. CASE UNCHANGED vars /\ (stage' \in {"open", "disassemble"} => stage \in {"open", "disassemble"})
  BY <1>4 DEF vars, Decoded, Complete
<1>5. CASE Open \/ Refuse \/ Info \/ Disassembled \/ Decompiled \/ Traceback \/ Deliver
           \/ BrokenPipe \/ Unwritable \/ Warn
  BY <1>4, <1>5 DEF Open, Refuse, Info, Disassembled, Decompiled, Traceback, Deliver,
     BrokenPipe, Unwritable, Warn, Make, Exit
<1>6. CASE UNCHANGED allVars
  BY <1>4, <1>6 DEF allVars, mainVars
<1> QED BY <1>1, <1>2, <1>3, <1>5, <1>6 DEF MainNext

-----------------------------------------------------------------------------
(* The bodies: each consists of instructions that lie before the next to   *)
(* be sorted, and no two share one; nor does the open one with any other   *)
(* than that of the same rule, which it will replace.                      *)
FromCode(seq, is, o) ==
    /\ seq \in Seq(Instr)
    /\ \A k \in 1 .. Len(seq) :
         /\ seq[k].op \notin Markers
         /\ \E j \in 1 .. Len(is) : j < o /\ seq[k] = is[j]

Apart(s, t) == \A a \in 1 .. Len(s), b \in 1 .. Len(t) : s[a] # t[b]

AllApart(bs, is, o) ==
    /\ \A n \in DOMAIN bs : FromCode(bs[n], is, o)
    /\ \A n, m \in DOMAIN bs : n # m => Apart(bs[n], bs[m])

Sorted ==
    /\ phase = "decode" => bodies = <<>> /\ buf = <<>>
    /\ FromCode(buf, instrs, off)
    /\ AllApart(bodies, instrs, off)
    /\ \A n \in DOMAIN bodies \ {current} : Apart(bodies[n], buf)

LEMMA InitSorted == MainInit => Sorted
<1> SUFFICES ASSUME MainInit PROVE Sorted
  OBVIOUS
<1>1. bodies = <<>> /\ buf = <<>> /\ DOMAIN bodies = {}
  BY DEF MainInit, Init
<1> QED BY <1>1 DEF Sorted, FromCode, AllApart

(* Saving the open body keeps them apart.                                  *)
LEMMA SavedApart ==
    ASSUME Sorted
    PROVE  AllApart(Saved, instrs, off) /\ \A n \in DOMAIN Saved \ {current} : Apart(Saved[n], buf)
<1>1. CASE current = None
  BY <1>1 DEF Saved, Sorted
<1>2. CASE current # None
  <2>1. DOMAIN Saved = DOMAIN bodies \cup {current}
    BY <1>2 DEF Saved
  <2>2. \A n \in DOMAIN Saved : Saved[n] = IF n = current THEN buf ELSE bodies[n]
    BY <1>2, <2>1 DEF Saved
  <2> HIDE DEF Saved
  <2>3. \A n \in DOMAIN Saved : FromCode(Saved[n], instrs, off)
    BY <2>1, <2>2 DEF Sorted, AllApart
  <2>4. \A n \in DOMAIN Saved \ {current} : Apart(Saved[n], buf)
    BY <2>1, <2>2 DEF Sorted
  <2>5. \A s, t : Apart(s, t) => Apart(t, s)
    BY DEF Apart
  <2>6. ASSUME NEW n \in DOMAIN Saved, NEW m \in DOMAIN Saved, n # m
        PROVE  Apart(Saved[n], Saved[m])
    <3>1. CASE n = current
      BY <3>1, <2>2, <2>4, <2>5, <2>6
    <3>2. CASE m = current
      BY <3>2, <2>2, <2>4, <2>6
    <3>3. CASE n # current /\ m # current
      BY <3>3, <2>1, <2>2, <2>6 DEF Sorted, AllApart
    <3> QED BY <3>1, <3>2, <3>3
  <2> QED BY <2>3, <2>4, <2>6 DEF AllApart
<1> QED BY <1>1, <1>2

(* An instruction that is met next is in none of them.                     *)
LEMMA NextIsNew ==
    ASSUME Decoded, off <= Len(instrs),
           NEW seq, FromCode(seq, instrs, off), NEW k \in 1 .. Len(seq)
    PROVE  seq[k] # instrs[off]
<1>1. PICK j \in 1 .. Len(instrs) : j < off /\ seq[k] = instrs[j]
  BY DEF FromCode
<1>2. Len(instrs) \in Nat /\ Len(file.code) \in Nat /\ off \in 1 .. Len(instrs)
  BY DecompileAssumption DEF Decoded
<1>3. instrs[j] = file.code[j] /\ instrs[off] = file.code[off]
  BY <1>1, <1>2 DEF Decoded
<1>4. j \in 1 .. Len(file.code) /\ off \in 1 .. Len(file.code)
  BY <1>2 DEF Decoded
<1>5. file.code[j].at < file.code[off].at
  BY <1>1, <1>2, <1>4, DecompileAssumption DEF Decoded
<1>6. file.code[j].at \in Nat /\ file.code[off].at \in Nat
  <2>1. file.code \in Seq(Instr)
    BY DecompileAssumption DEF Decoded
  <2>2. file.code[j] \in Instr /\ file.code[off] \in Instr
    BY <1>4, <2>1
  <2> QED BY <2>2 DEF Instr
<1> QED BY <1>1, <1>3, <1>5, <1>6

(* Moving on along the code keeps what is from the code.                   *)
LEMMA MovingOn ==
    ASSUME Decoded, off' = off + 1, instrs' = instrs, NEW seq, FromCode(seq, instrs, off)
    PROVE  FromCode(seq, instrs', off')
<1>1. off \in Nat
  BY DEF Decoded
<1> QED BY <1>1 DEF FromCode

LEMMA CutKeepsSorted ==
    ASSUME Decoded, Sorted, Splitting, NEW next, Cut(next)
    PROVE  Sorted'
<1>1. bodies' = Saved /\ buf' = <<>> /\ off' = off + 1 /\ instrs' = instrs /\ phase' = "split"
  BY DEF Cut, Splitting
<1>2. AllApart(Saved, instrs, off)
  BY SavedApart
<1>3. \A n \in DOMAIN bodies' : FromCode(bodies'[n], instrs', off')
  BY <1>1, <1>2, MovingOn DEF AllApart
<1>4. \A n, m \in DOMAIN bodies' : n # m => Apart(bodies'[n], bodies'[m])
  BY <1>1, <1>2 DEF AllApart
<1>5. FromCode(buf', instrs', off')
  BY <1>1 DEF FromCode
<1>6. \A n \in DOMAIN bodies' : Apart(bodies'[n], buf')
  BY <1>1 DEF Apart
<1> QED BY <1>1, <1>3, <1>4, <1>5, <1>6 DEF Sorted, AllApart, Apart

LEMMA BodyKeepsSorted ==
    ASSUME Decoded, Sorted, BodyInstr
    PROVE  Sorted'
<1> DEFINE x == instrs[off]
<1>1. /\ off' = off + 1 /\ instrs' = instrs /\ phase' = "split" /\ bodies' = bodies
      /\ current' = current /\ x.op \notin Markers /\ off \in 1 .. Len(instrs) /\ x \in Instr
  BY DEF BodyInstr, Splitting, Markers, Decoded
<1>2. AllApart(bodies', instrs', off') /\ FromCode(buf, instrs, off) /\ AllApart(bodies, instrs, off)
  BY <1>1, MovingOn DEF AllApart, Sorted, Apart
<1>3. CASE current = None
  <2>1. buf' = buf
    BY <1>3 DEF BodyInstr
  <2> QED BY <2>1, <1>1, <1>2, MovingOn DEF Sorted, Apart
<1>4. CASE current # None
  <2>1. buf \in Seq(Instr) /\ buf' = Append(buf, x)
    BY <1>2, <1>4 DEF FromCode, BodyInstr
  <2>2. /\ buf' \in Seq(Instr) /\ Len(buf') = Len(buf) + 1 /\ Len(buf) \in Nat
        /\ \A k \in 1 .. Len(buf') : buf'[k] = IF k = Len(buf) + 1 THEN x ELSE buf[k]
    BY <2>1, <1>1
  <2>3. FromCode(buf', instrs', off')
    <3> SUFFICES ASSUME NEW k \in 1 .. Len(buf')
                 PROVE  /\ buf'[k].op \notin Markers
                        /\ \E j \in 1 .. Len(instrs') : j < off' /\ buf'[k] = instrs'[j]
      BY <2>2 DEF FromCode
    <3>1. CASE k = Len(buf) + 1
      BY <3>1, <2>2, <1>1
    <3>2. CASE k # Len(buf) + 1
      <4>1. k \in 1 .. Len(buf) /\ buf'[k] = buf[k]
        BY <3>2, <2>2
      <4>2. PICK j \in 1 .. Len(instrs) : j < off /\ buf[k] = instrs[j]
        BY <4>1, <1>2 DEF FromCode
      <4> QED BY <4>1, <4>2, <1>1, <1>2 DEF FromCode
    <3> QED BY <3>1, <3>2
  <2>4. ASSUME NEW n \in DOMAIN bodies \ {current} PROVE Apart(bodies[n], buf')
    <3> SUFFICES ASSUME NEW a \in 1 .. Len(bodies[n]), NEW b \in 1 .. Len(buf')
                 PROVE  bodies[n][a] # buf'[b]
      BY DEF Apart
    <3>1. FromCode(bodies[n], instrs, off) /\ Apart(bodies[n], buf)
      BY <1>2 DEF AllApart, Sorted
    <3>2. bodies[n][a] # x
      BY <3>1, <1>1, NextIsNew
    <3>3. b # Len(buf) + 1 => b \in 1 .. Len(buf)
      BY <2>2
    <3> QED BY <3>1, <3>2, <3>3, <2>2 DEF Apart
  <2> QED BY <2>3, <2>4, <1>1, <1>2 DEF Sorted
<1> QED BY <1>3, <1>4

LEMMA StepSorted == Decoded /\ Sorted /\ [MainNext]_allVars => Sorted'
<1> SUFFICES ASSUME Decoded, Sorted, [MainNext]_allVars PROVE Sorted'
  OBVIOUS
<1>1. ASSUME phase = "decode", UNCHANGED <<bodies, buf>> PROVE Sorted'
  <2>1. bodies' = <<>> /\ buf' = <<>> /\ DOMAIN bodies' = {}
    BY <1>1 DEF Sorted
  <2> QED BY <2>1 DEF Sorted, FromCode, AllApart
<1>2. ASSUME UNCHANGED <<bodies, buf, current, instrs, off>>, phase' # "decode" \/ phase' = phase
      PROVE  Sorted'
  BY <1>2 DEF Sorted, FromCode, AllApart, Apart
<1>3. CASE Disassemble \/ RaiseDisassembling
  BY <1>1, <1>3 DEF Disassemble, RaiseDisassembling, DecodeInstr, DecodeRaise
<1>4. CASE Decompiling
  <2>1. CASE DecodeInstr \/ DecodeRaise \/ RecoverImports
    BY <1>1, <2>1 DEF DecodeInstr, DecodeRaise, RecoverImports
  <2>2. CASE InitRule \/ MatchRule
    BY <2>2, CutKeepsSorted DEF InitRule, MatchRule
  <2>3. CASE BodyInstr
    BY <2>3, BodyKeepsSorted
  <2>4. CASE SplitDone
    <3>1. /\ bodies' = Saved /\ phase' = "conditions"
          /\ UNCHANGED <<buf, current, instrs, off>>
      BY <2>4 DEF SplitDone
    <3>2. AllApart(bodies', instrs', off')
      BY <3>1, SavedApart
    <3> QED BY <3>1, <3>2, SavedApart DEF Sorted
  <2>5. CASE RecoverCondition \/ ConditionsDone \/ WriteRule \/ WriteDone
    BY <1>2, <2>5 DEF RecoverCondition, ConditionsDone, WriteRule, WriteDone
  <2> QED BY <1>4, <2>1, <2>2, <2>3, <2>4, <2>5 DEF Decompiling, Next
<1>5. CASE UNCHANGED vars
  BY <1>2, <1>5 DEF vars
<1>6. CASE Open \/ Refuse \/ Info \/ Disassembled \/ Decompiled \/ Traceback \/ Deliver
           \/ BrokenPipe \/ Unwritable \/ Warn
  BY <1>5, <1>6 DEF Open, Refuse, Info, Disassembled, Decompiled, Traceback, Deliver,
     BrokenPipe, Unwritable, Warn, Make
<1> QED BY <1>3, <1>4, <1>5, <1>6 DEF MainNext, allVars

LEMMA SortedIsDisjoint == Sorted => BodiesDisjoint
<1> SUFFICES ASSUME Sorted, NEW n \in DOMAIN bodies
             PROVE  /\ \A k \in DOMAIN bodies[n] : bodies[n][k].op \notin Markers
                    /\ \A m \in DOMAIN bodies \ {n} :
                         ToSet(bodies[n]) \cap ToSet(bodies[m]) = {}
  BY DEF BodiesDisjoint, Markers
<1>1. \A m \in DOMAIN bodies : FromCode(bodies[m], instrs, off) /\ DOMAIN bodies[m] = 1 .. Len(bodies[m])
  BY DEF Sorted, AllApart, FromCode
<1>2. \A m \in DOMAIN bodies \ {n} : Apart(bodies[n], bodies[m])
  BY DEF Sorted, AllApart
<1>3. \A m \in DOMAIN bodies : ToSet(bodies[m]) = {bodies[m][k] : k \in 1 .. Len(bodies[m])}
  BY <1>1 DEF ToSet
<1>4. ASSUME NEW m \in DOMAIN bodies \ {n} PROVE ToSet(bodies[n]) \cap ToSet(bodies[m]) = {}
  BY <1>2, <1>3 DEF Apart
<1>5. \A k \in DOMAIN bodies[n] : bodies[n][k].op \notin Markers
  BY <1>1 DEF FromCode
<1> QED BY <1>4, <1>5

(* Whatever the code, compiled or not, no instruction is in the bodies of  *)
(* two rules, and none of a body is a marker (split_rule_bodies).          *)
THEOREM BodiesDisjointHolds == MainSpec => []BodiesDisjoint
<1>1. MainInit => Decoded /\ Sorted
  BY InitDecoded, InitSorted
<1>2. Decoded /\ Sorted /\ [MainNext]_allVars => Decoded' /\ Sorted'
  BY StepDecoded, StepSorted
<1>3. Sorted => BodiesDisjoint
  BY SortedIsDisjoint
<1> QED BY <1>1, <1>2, <1>3, PTL DEF MainSpec

-----------------------------------------------------------------------------
(* A text that was made is whole, nothing is delivered before it is made,  *)
(* and the writing of the rules does not end before the last of them.      *)
AtExit ==
    /\ status # 0 => shown = Blank /\ told = <<>>
    /\ status = 0 /\ args.sink = "open" => shown # Blank /\ WholeText(shown)

Reported ==
    /\ OwnSeq(written)
    /\ phase = "done" => Len(written) = Len(file.rules)
    /\ stage = "decompile" => Decompiles
    /\ stage = "disassemble" => ~ Decompiles
    /\ stage \in {"open", "disassemble", "decompile", "deliver"} => shown = Blank
    /\ stage # "exit" => told = <<>>
    /\ stage \in {"deliver", "warn"} => output # Blank /\ WholeText(output)
    /\ stage = "warn" /\ args.sink = "open" => shown = output
    /\ stage = "exit" => AtExit

LEMMA InitReported == MainInit => Reported
<1> SUFFICES ASSUME MainInit PROVE Reported
  OBVIOUS
<1>1. written = <<>> /\ phase # "done" /\ stage = "open" /\ shown = Blank /\ told = <<>>
  BY DEF MainInit, Init
<1> QED BY <1>1 DEF Reported, OwnSeq

(* What decompile does to the rules written.                               *)
LEMMA NextKeepsWritten ==
    ASSUME OwnSeq(written), phase = "done" => Len(written) = Len(file.rules), Next
    PROVE  OwnSeq(written') /\ (phase' = "done" => Len(written') = Len(file'.rules))
<1>1. CASE WriteRule
  <2>1. \E x : written' = Append(written, x)
    BY <1>1 DEF WriteRule
  <2> QED BY <1>1, <2>1, AppendOwn DEF WriteRule
<1>2. CASE WriteDone
  BY <1>2 DEF WriteDone
<1>3. CASE DecodeInstr \/ DecodeRaise \/ RecoverImports \/ SplitDone \/ RecoverCondition \/ ConditionsDone
  BY <1>3 DEF DecodeInstr, DecodeRaise, RecoverImports, SplitDone, RecoverCondition, ConditionsDone
<1>4. CASE InitRule \/ MatchRule \/ BodyInstr
  BY <1>4 DEF InitRule, MatchRule, BodyInstr, Cut, Splitting
<1> QED BY <1>1, <1>2, <1>3, <1>4 DEF Next

(* The texts that are made are whole.                                      *)
LEMMA ListingWhole ==
    ASSUME Decoded, Disassembled, ~ Decompiles
    PROVE  WholeText(Text("disasm", <<>>, instrs, <<>>))
<1>0. file.code \in Seq(Instr)
  BY DecompileAssumption DEF Decoded
<1>1. Complete /\ Len(instrs) \in Nat /\ Len(file.code) \in Nat /\ Len(instrs) <= Len(file.code)
  BY <1>0 DEF Decoded, Disassembled
<1>2. IsPrefix(instrs, file.code)
  BY <1>0, <1>1 DEF IsPrefix, Decoded
<1>3. instrs = file.code \/ Last(instrs).op = "HALT"
  BY <1>0, <1>1 DEF Complete, Last, Decoded
<1> QED BY <1>2, <1>3 DEF WholeText, Text

LEMMA RulesWhole ==
    ASSUME Decoded, Reported, Decompiled
    PROVE  output' # Blank /\ WholeText(output')
<1>1. file \in Files /\ file.rules \in Seq(RuleEntry) /\ Decompiles /\ Len(written) = Len(file.rules)
  BY DecompileAssumption DEF Decoded, Reported, Decompiled
<1>2. Len(SourceRules) = Len(written)
  BY <1>1, LenByDomain DEF Reported, OwnSeq, SourceRules
<1>3. Len(JsonRules) = Len(file.rules)
  BY <1>1, LenByDomain DEF JsonRules
<1>4. output' = Text("json", JsonRules, <<>>, warnings) \/ output' = Text("yara", SourceRules, <<>>, <<>>)
  BY DEF Decompiled, Make
<1>5. output' # Blank /\ Len(output'.rules) = Len(file.rules)
  BY <1>1, <1>2, <1>3, <1>4 DEF Text, Blank
<1> QED BY <1>1, <1>5 DEF WholeText, Decompiles

LEMMA StepReported == Decoded /\ Reported /\ [MainNext]_allVars => Reported'
<1> SUFFICES ASSUME Decoded, Reported, [MainNext]_allVars PROVE Reported'
  OBVIOUS
<1> USE DEF Reported
<1>1. CASE Disassemble \/ RaiseDisassembling \/ Decompiling
  <2>1. UNCHANGED mainVars /\ UNCHANGED file /\ stage \in {"disassemble", "decompile"} /\ Next
    BY <1>1 DEF Disassemble, RaiseDisassembling, Decompiling, Next, DecodeInstr, DecodeRaise,
       RecoverImports, InitRule, MatchRule, BodyInstr, SplitDone, RecoverCondition,
       ConditionsDone, WriteRule, WriteDone, Cut
  <2>2. OwnSeq(written)' /\ (phase' = "done" => Len(written') = Len(file'.rules))
    BY <2>1, NextKeepsWritten DEF OwnSeq
  <2> QED BY <2>1, <2>2 DEF mainVars, Decompiles
<1>2. ASSUME UNCHANGED <<vars, args>> PROVE OwnSeq(written)' /\ (phase' = "done" => Len(written') = Len(file'.rules))
  BY <1>2 DEF vars, OwnSeq
<1>3. ASSUME UNCHANGED <<vars, args>>, NEW text, WholeText(text) PROVE \A t : t = text => WholeText(t)'
  BY <1>3 DEF vars, WholeText, Decompiles
<1>4. CASE Refuse \/ Traceback
  <2>1. stage' = "exit" /\ status' # 0 /\ shown' = Blank /\ told' = <<>> /\ UNCHANGED <<vars, args>>
    BY <1>4 DEF Refuse, Traceback, Exit, StatusOf, Uncaught
  <2> QED BY <2>1, <1>2 DEF AtExit
<1>5. CASE Open
  BY <1>5, <1>2 DEF Open, Decompiles
<1>6. CASE Info
  <2>1. WholeText(Text("info", <<>>, <<>>, <<>>))
    BY <1>6 DEF Info, WholeText, Decompiles
  <2>2. output' = Text("info", <<>>, <<>>, <<>>) /\ output' # Blank
    BY <1>6 DEF Info, Make, Text, Blank
  <2> QED BY <1>6, <2>1, <2>2, <1>2, <1>3 DEF Info, Make
<1>7. CASE Disassembled
  <2>1. WholeText(Text("disasm", <<>>, instrs, <<>>))
    BY <1>7, ListingWhole DEF Disassembled
  <2>2. output' = Text("disasm", <<>>, instrs, <<>>) /\ output' # Blank
    BY <1>7 DEF Disassembled, Make, Text, Blank
  <2> QED BY <1>7, <2>1, <2>2, <1>2, <1>3 DEF Disassembled, Make
<1>8. CASE Decompiled
  <2>1. output' # Blank /\ WholeText(output')
    BY <1>8, RulesWhole
  <2> QED BY <1>8, <2>1, <1>2, <1>3 DEF Decompiled, Make
<1>9. CASE Deliver
  BY <1>9, <1>2, <1>3 DEF Deliver
<1>10. CASE BrokenPipe
  BY <1>10, <1>2 DEF BrokenPipe, Exit, AtExit
<1>11. CASE Unwritable
  BY <1>11, <1>2 DEF Unwritable, Exit, AtExit, Uncaught
<1>12. CASE Warn
  <2>1. stage' = "exit" /\ status' = 0 /\ UNCHANGED <<vars, args, output, shown>>
    BY <1>12 DEF Warn, Exit
  <2>2. args.sink = "open" => shown # Blank /\ WholeText(shown)
    BY <1>12 DEF Warn
  <2> QED BY <2>1, <2>2, <1>2, <1>3 DEF AtExit
<1>13. CASE UNCHANGED allVars
  BY <1>13, <1>2, <1>3 DEF allVars, mainVars, AtExit, Decompiles
<1> QED BY <1>1, <1>4, <1>5, <1>6, <1>7, <1>8, <1>9, <1>10, <1>11, <1>12, <1>13 DEF MainNext

(* Whatever the file and the flags, a text is delivered whole with status  *)
(* 0, to whoever reads it, or not at all (main).                           *)
THEOREM StatusTellsHolds == MainSpec => []StatusTells
<1>1. MainInit => Decoded /\ Reported
  BY InitDecoded, InitReported
<1>2. Decoded /\ Reported /\ [MainNext]_allVars => Decoded' /\ Reported'
  BY StepDecoded, StepReported
<1>3. Reported => StatusTells
  BY DEF Reported, StatusTells, AtExit
<1> QED BY <1>1, <1>2, <1>3, PTL DEF MainSpec

-----------------------------------------------------------------------------
(* The loop over the rules and the emission: each rule done has its        *)
(* condition, a rule is written once, after all that come before it, and   *)
(* the warnings are of rules without a condition, of each that is written. *)
CondOf(cs, n) == IF n <= Len(cs) THEN cs[n] ELSE None

Counted ==
    /\ OwnSeq(conditions) /\ Len(conditions) <= Len(file.rules)
    /\ phase \in {"decode", "split", "raised"} => conditions = <<>>
    /\ phase \in {"decode", "split", "conditions", "raised"} => written = <<>>

Entered(k) ==
    /\ written[k].rule \in DOMAIN file.rules
    /\ written[k].condition = CondOf(conditions, written[k].rule)
    /\ \A j \in DOMAIN written : written[j].rule = written[k].rule => j = k
    /\ \A m \in DOMAIN file.rules : Before(m, written[k].rule) => \E j \in 1 .. k - 1 : written[j].rule = m

Emitted == OwnSeq(written) /\ \A k \in DOMAIN written : Entered(k)

Warned ==
    /\ OwnSeq(warnings)
    /\ phase \in {"decode", "split", "raised"} => warnings = <<>>
    /\ phase = "conditions" => \A k \in DOMAIN warnings : warnings[k].rule <= Len(conditions)
    /\ \A k \in DOMAIN warnings :
         warnings[k].rule \in Nat \ {0} /\ CondOf(conditions, warnings[k].rule) = None
    /\ \A k \in DOMAIN written :
         written[k].condition = None => NamedIn(written[k].rule, warnings)

(* In compiled code the open body is the code since the rule's INIT_RULE,  *)
(* and it is saved at the rule's MATCH_RULE and stays as it is.            *)
Within(n, i, j) ==
    /\ i < off /\ off <= j => current = n /\ buf = SubSeq(file.code, i + 1, off - 1)
    /\ j < off => current # n /\ BodyOf(n) = file.body[n]

Bodied ==
    file.body # <<>> =>
        /\ phase = "split" =>
             /\ Len(instrs) = Len(file.code)
             /\ \A n \in DOMAIN file.rules : \A i, j \in DOMAIN file.code :
                  BodyAt(file, n, i, j) => Within(n, i, j)
        /\ phase \in {"conditions", "emit", "done"} => \A n \in DOMAIN file.rules : BodyOf(n) = file.body[n]
        /\ \A n \in DOMAIN conditions : conditions[n] = ConditionOf(file.body[n]).text
        /\ phase \in {"emit", "done"} => Len(conditions) = Len(file.rules)

(* A step of main is one of decompile, or leaves its state alone.          *)
LEMMA MainStep == [MainNext]_allVars => [Next]_vars
<1> USE DEF MainNext, allVars
<1>1. Disassemble \/ RaiseDisassembling \/ Decompiling => Next
  BY DEF Disassemble, RaiseDisassembling, Decompiling, Next
<1>2. Refuse \/ Open \/ Info \/ Disassembled \/ Decompiled \/ Traceback \/ Deliver \/ BrokenPipe
        \/ Unwritable \/ Warn => UNCHANGED vars
  BY DEF Refuse, Open, Info, Disassembled, Decompiled, Traceback, Deliver, BrokenPipe, Unwritable,
     Warn, Make
<1> QED BY <1>1, <1>2

LEMMA InitCounted == MainInit => Counted /\ Emitted /\ Warned
<1> SUFFICES ASSUME MainInit PROVE Counted /\ Emitted /\ Warned
  OBVIOUS
<1>1. /\ conditions = <<>> /\ warnings = <<>> /\ written = <<>>
      /\ phase \in {"decode", "emit"} /\ file \in Files
  BY DEF MainInit, Init
<1>2. OwnSeq(<<>>) /\ DOMAIN <<>> = {} /\ Len(<<>>) = 0
  BY DEF OwnSeq
<1>3. file.rules \in Seq(RuleEntry)
  BY <1>1, DecompileAssumption
<1>4. Len(file.rules) \in Nat
  BY <1>3
<1> QED BY <1>1, <1>2, <1>4 DEF Counted, Emitted, Warned

-----------------------------------------------------------------------------
(* What the recovery of a condition answers with: its notes are a list.    *)
NotesAreLists == \A body \in Seq(Instr) : Len(ConditionOf(body).notes) \in Nat

LEMMA BodyIsCode ==
    ASSUME Sorted, NEW n
    PROVE  BodyOf(n) \in Seq(Instr)
BY DEF Sorted, AllApart, FromCode, BodyOf

LEMMA NotesFacts ==
    ASSUME NotesAreLists, NEW n, NEW body \in Seq(Instr)
    PROVE  LET notes == Notes(n, ConditionOf(body).notes)
           IN OwnSeq(notes) /\ \A k \in DOMAIN notes : notes[k].rule = n
<1> DEFINE size == Len(ConditionOf(body).notes)
           notes == Notes(n, ConditionOf(body).notes)
<1>1. size \in Nat
  BY DEF NotesAreLists
<1>2. /\ DOMAIN notes = 1 .. size /\ notes = [k \in 1 .. size |-> notes[k]]
      /\ \A k \in 1 .. size : notes[k].rule = n
  BY DEF Notes
<1>3. notes \in [1 .. size -> {notes[k] : k \in DOMAIN notes}]
  <2> HIDE DEF notes, size
  <2> QED BY <1>2
<1>4. OwnSeq(notes)
  <2> HIDE DEF notes, size
  <2> QED BY <1>1, <1>3 DEF OwnSeq
<1> QED BY <1>2, <1>4

LEMMA RecoverKeepsCounted ==
    ASSUME Decoded, Counted, RecoverCondition
    PROVE  /\ Counted' /\ phase = "conditions" /\ phase' = phase /\ file' = file
           /\ written = <<>> /\ written' = <<>>
           /\ Len(conditions) \in Nat /\ Len(conditions') = Len(conditions) + 1
           /\ \A k \in 1 .. Len(conditions) + 1 :
                conditions'[k] = IF k <= Len(conditions) THEN conditions[k]
                                 ELSE ConditionOf(BodyOf(Len(conditions) + 1)).text
<1> DEFINE n == Len(conditions) + 1
           text == ConditionOf(BodyOf(n)).text
<1>1. /\ phase = "conditions" /\ phase' = phase /\ file' = file /\ written' = written
      /\ conditions' = Append(conditions, text) /\ Len(conditions) < Len(file.rules)
  BY DEF RecoverCondition
<1>2. OwnSeq(conditions) /\ Len(conditions) \in Nat
  BY OwnFacts DEF Counted
<1>3. /\ OwnSeq(conditions') /\ Len(conditions') = n
      /\ \A k \in 1 .. n : conditions'[k] = IF k <= Len(conditions) THEN conditions[k] ELSE text
  BY <1>1, <1>2, AppendOwn, AppendIs
<1>4. Len(file.rules) \in Nat
  BY DecompileAssumption DEF Decoded
<1>5. Len(conditions') <= Len(file'.rules)
  BY <1>1, <1>2, <1>3, <1>4
<1>6. OwnSeq(conditions)' /\ written = <<>>
  BY <1>1, <1>3 DEF OwnSeq, Counted
<1> HIDE DEF text
<1>7. Counted'
  BY <1>1, <1>5, <1>6 DEF Counted
<1> QED BY <1>1, <1>2, <1>3, <1>6, <1>7 DEF text

LEMMA RecoverKeepsWarned ==
    ASSUME NotesAreLists, Decoded, Sorted, Counted, Warned, RecoverCondition
    PROVE  Warned'
<1> DEFINE n == Len(conditions) + 1
           result == ConditionOf(BodyOf(n))
           notes == Notes(n, result.notes)
<1>1. /\ phase = "conditions" /\ phase' = phase /\ written' = <<>>
      /\ warnings' = IF result.text = None THEN warnings \o notes ELSE warnings
  BY RecoverKeepsCounted DEF RecoverCondition
<1>2. /\ OwnSeq(notes) /\ \A k \in DOMAIN notes : notes[k].rule = n
  BY BodyIsCode, NotesFacts
<1>3. /\ OwnSeq(warnings) /\ Len(conditions) \in Nat /\ Len(warnings) \in Nat
      /\ DOMAIN warnings = 1 .. Len(warnings)
  BY OwnFacts, RecoverKeepsCounted DEF Warned
<1>4. /\ Len(conditions') = n /\ n \in Nat
      /\ \A k \in 1 .. n : conditions'[k] = IF k < n THEN conditions[k] ELSE result.text
  BY <1>3, RecoverKeepsCounted
<1> HIDE DEF n, notes
<1>6. ASSUME NEW k \in Nat \ {0}, k <= Len(conditions), CondOf(conditions, k) = None
      PROVE  k <= n /\ CondOf(conditions', k) = None
  <2>1. k \in 1 .. n /\ k < n /\ conditions[k] = None
    BY <1>3, <1>6 DEF n, CondOf
  <2> QED BY <2>1, <1>4 DEF CondOf
<1>7. ASSUME NEW k \in DOMAIN warnings'
      PROVE  warnings'[k].rule \in Nat \ {0} /\ warnings'[k].rule <= n /\ CondOf(conditions', warnings'[k].rule) = None
  <2>1. CASE k \in DOMAIN warnings /\ warnings'[k] = warnings[k]
    <3>1. /\ warnings[k].rule \in Nat \ {0} /\ warnings[k].rule <= Len(conditions)
          /\ CondOf(conditions, warnings[k].rule) = None
      BY <2>1, <1>1 DEF Warned
    <3> QED BY <2>1, <3>1, <1>6
  <2>2. CASE warnings'[k].rule = n /\ result.text = None
    <3>1. n \in Nat \ {0} /\ n <= n /\ conditions'[n] = result.text
      BY <1>3, <1>4 DEF n
    <3>2. CondOf(conditions', n) = None
      BY <2>2, <3>1, <1>4 DEF CondOf
    <3> QED BY <2>2, <3>1, <3>2
  <2>3. CASE result.text # None
    BY <2>1, <2>3, <1>1
  <2>4. CASE result.text = None
    <3>1. /\ warnings' = warnings \o notes /\ OwnSeq(warnings') /\ Len(notes) \in Nat
          /\ DOMAIN notes = 1 .. Len(notes) /\ Len(warnings') = Len(warnings) + Len(notes)
          /\ \A p \in 1 .. Len(warnings) + Len(notes) :
               warnings'[p] = IF p <= Len(warnings) THEN warnings[p] ELSE notes[p - Len(warnings)]
      BY <1>1, <1>2, <1>3, <2>4, ConcatIs, OwnFacts
    <3>2. k \in 1 .. Len(warnings) + Len(notes)
      BY <3>1, OwnFacts
    <3>3. CASE k <= Len(warnings)
      BY <3>1, <3>2, <3>3, <1>3, <2>1
    <3>4. CASE ~ (k <= Len(warnings))
      <4>1. k - Len(warnings) \in DOMAIN notes
        BY <3>1, <3>2, <3>4, <1>3
      <4>2. warnings'[k] = notes[k - Len(warnings)]
        BY <3>1, <3>2, <3>4
      <4> QED BY <4>1, <4>2, <1>2, <2>2, <2>4
    <3> QED BY <3>3, <3>4
  <2> QED BY <2>3, <2>4
<1>8. OwnSeq(warnings')
  BY <1>1, <1>2, <1>3, ConcatIs
<1>9. OwnSeq(warnings)'
  BY <1>8 DEF OwnSeq
<1>10. DOMAIN written' = {}
  BY <1>1
<1> HIDE DEF result
<1> QED BY <1>1, <1>4, <1>7, <1>9, <1>10 DEF Warned

(* The steps that do not write.                                            *)
MovesOn(from, to) ==
    \/ to = from
    \/ from = "decode" /\ to \in {"split", "raised"}
    \/ from = "split" /\ to = "conditions"
    \/ from = "conditions" /\ to = "emit"
    \/ from = "emit" /\ to = "done"

LEMMA BeforeSame ==
    ASSUME file' = file, NEW m, NEW n
    PROVE  Before(m, n)' <=> Before(m, n)
BY DEF Before, FirstOf

LEMMA QuietKeeps ==
    ASSUME Counted, Emitted, file' = file, conditions' = conditions, written' = written,
           MovesOn(phase, phase')
    PROVE  Counted' /\ Emitted' /\ (Warned /\ warnings' = warnings => Warned')
<1>1. Counted'
  BY DEF Counted, OwnSeq, MovesOn
<1>2. Emitted'
  BY BeforeSame DEF Emitted, Entered, OwnSeq
<1>3. Warned /\ warnings' = warnings => Warned'
  BY DEF Warned, OwnSeq, MovesOn, NamedIn
<1> QED BY <1>1, <1>2, <1>3

(* The place of a namespace is that of its first rule.                     *)
LEMMA FirstIsPlace ==
    ASSUME file \in Files, NEW n \in DOMAIN file.rules
    PROVE  /\ n \in Nat \ {0} /\ FirstOf(n) \in 1 .. n
           /\ file.rules[FirstOf(n)].ns = file.rules[n].ns
           /\ \A m \in 1 .. n : file.rules[m].ns = file.rules[n].ns => FirstOf(n) <= m
<1> DEFINE S == {m \in 1 .. n : file.rules[m].ns = file.rules[n].ns}
<1>1. file.rules \in Seq(RuleEntry)
  BY DecompileAssumption
<1>2. n \in Nat \ {0} /\ n \in S /\ S \subseteq Nat /\ S # {} /\ S \subseteq 1 .. n
  BY <1>1
<1>3. Min(S) \in S /\ \A y \in S : Min(S) <= y
  <2> HIDE DEF S
  <2> QED BY <1>2, MinOfPlaces
<1> QED BY <1>2, <1>3 DEF FirstOf

LEMMA WriteKeepsEmitted ==
    ASSUME Decoded, Counted, Emitted, WriteRule
    PROVE  Counted' /\ Emitted'
<1>1. PICK n \in Unwritten :
        /\ Foremost(n)
        /\ written' = Append(written, [rule |-> n, condition |-> CondOf(conditions, n)])
  BY DEF WriteRule, Condition, CondOf
<1> DEFINE entry == [rule |-> n, condition |-> CondOf(conditions, n)]
           size == Len(written)
<1>2. phase = "emit" /\ phase' = "emit" /\ file' = file /\ conditions' = conditions
  BY DEF WriteRule
<1>3. OwnSeq(written) /\ size \in Nat /\ DOMAIN written = 1 .. size
  BY OwnFacts DEF Emitted
<1>4. /\ OwnSeq(written') /\ DOMAIN written' = 1 .. size + 1
      /\ \A k \in 1 .. size + 1 : written'[k] = IF k <= size THEN written[k] ELSE entry
  BY <1>1, <1>3, AppendOwn, AppendIs
<1>5. n \in DOMAIN file.rules /\ \A k \in 1 .. size : written[k].rule # n
  BY <1>3 DEF Unwritten
<1>6. Counted'
  BY <1>2 DEF Counted, OwnSeq
<1>7. ASSUME NEW m \in DOMAIN file.rules, Before(m, n)
      PROVE  \E j \in 1 .. size : written[j].rule = m
  <2>1. ~ Before(n, m) /\ m # n
    <3>1. FirstOf(m) \in Nat /\ FirstOf(n) \in Nat /\ m \in Nat /\ n \in Nat
      BY <1>5, FirstIsPlace DEF Decoded
    <3> HIDE DEF FirstOf
    <3> QED BY <3>1, <1>7 DEF Before
  <2>2. m \notin Unwritten
    BY <1>1, <2>1 DEF Foremost
  <2> QED BY <2>2, <1>3 DEF Unwritten
<1>8. ASSUME NEW k \in DOMAIN written' PROVE Entered(k)'
  <2>1. CASE k \in 1 .. size
    <3>1. written'[k] = written[k] /\ Entered(k)
      BY <2>1, <1>3, <1>4 DEF Emitted
    <3>2. ASSUME NEW j \in DOMAIN written', written'[j].rule = written'[k].rule PROVE j = k
      <4>1. CASE j \in 1 .. size
        <5>1. written'[j] = written[j] /\ j \in DOMAIN written
          BY <4>1, <1>3, <1>4
        <5> QED BY <5>1, <3>1, <3>2 DEF Entered
      <4>2. CASE j = size + 1
        BY <4>2, <2>1, <3>1, <3>2, <1>3, <1>4, <1>5
      <4> QED BY <4>1, <4>2, <1>3, <1>4
    <3>3. ASSUME NEW m \in DOMAIN file.rules, Before(m, written'[k].rule)
          PROVE  \E j \in 1 .. k - 1 : written'[j].rule = m
      <4>1. PICK j \in 1 .. k - 1 : written[j].rule = m
        BY <3>1, <3>3 DEF Entered
      <4>2. written'[j] = written[j]
        BY <1>3, <1>4, <2>1
      <4> QED BY <4>1, <4>2
    <3>4. written'[k].rule \in DOMAIN file.rules /\ written'[k].condition = CondOf(conditions, written'[k].rule)
      BY <3>1 DEF Entered
    <3> QED BY <3>2, <3>3, <3>4, <1>2, BeforeSame DEF Entered
  <2>2. CASE k = size + 1
    <3>1. written'[k] = entry /\ written'[k].rule = n /\ written'[k].condition = CondOf(conditions, n)
      BY <2>2, <1>3, <1>4
    <3>2. ASSUME NEW j \in DOMAIN written', written'[j].rule = written'[k].rule PROVE j = k
      <4>1. CASE j \in 1 .. size
        BY <4>1, <3>1, <3>2, <1>4, <1>3, <1>5
      <4> QED BY <4>1, <2>2, <1>3, <1>4
    <3>3. ASSUME NEW m \in DOMAIN file.rules, Before(m, written'[k].rule)
          PROVE  \E j \in 1 .. k - 1 : written'[j].rule = m
      <4>1. PICK j \in 1 .. size : written[j].rule = m
        BY <3>1, <3>3, <1>7
      <4>2. written'[j] = written[j] /\ j \in 1 .. k - 1
        BY <1>3, <1>4, <2>2
      <4> QED BY <4>1, <4>2
    <3>4. written'[k].rule \in DOMAIN file.rules /\ written'[k].condition = CondOf(conditions, written'[k].rule)
      BY <3>1, <1>5
    <3> HIDE DEF entry
    <3> QED BY <3>2, <3>3, <3>4, <1>2, BeforeSame DEF Entered
  <2> QED BY <2>1, <2>2, <1>3, <1>4
<1> QED BY <1>4, <1>6, <1>8 DEF Emitted, OwnSeq

(* A rule that is written without its condition gets its warning.          *)
LEMMA WriteKeepsWarned ==
    ASSUME Decoded, Emitted, Warned, WriteRule
    PROVE  Warned'
<1>1. PICK n \in Unwritten :
        /\ written' = Append(written, [rule |-> n, condition |-> CondOf(conditions, n)])
        /\ warnings' = IF CondOf(conditions, n) # None THEN warnings
                       ELSE Append(warnings, [rule |-> n, note |-> "placeholder"])
  BY DEF WriteRule, Condition, CondOf
<1> DEFINE entry == [rule |-> n, condition |-> CondOf(conditions, n)]
           note == [rule |-> n, note |-> "placeholder"]
<1>2. /\ phase = "emit" /\ phase' = "emit" /\ file' = file /\ conditions' = conditions
      /\ n \in Nat \ {0}
  BY FirstIsPlace DEF WriteRule, Unwritten, Decoded
<1>3. /\ OwnSeq(written) /\ Len(written) \in Nat /\ DOMAIN written = 1 .. Len(written)
      /\ OwnSeq(warnings) /\ Len(warnings) \in Nat /\ DOMAIN warnings = 1 .. Len(warnings)
  BY OwnFacts DEF Emitted, Warned
<1>4. \A k \in DOMAIN written' : (k \in DOMAIN written /\ written'[k] = written[k]) \/ written'[k] = entry
  <2>1. /\ DOMAIN written' = 1 .. Len(written) + 1
        /\ \A k \in 1 .. Len(written) + 1 : written'[k] = IF k <= Len(written) THEN written[k] ELSE entry
    BY <1>1, <1>3, AppendIs
  <2> QED BY <2>1, <1>3
<1>5. /\ OwnSeq(warnings')
      /\ \A k \in DOMAIN warnings : k \in DOMAIN warnings' /\ warnings'[k] = warnings[k]
      /\ \A k \in DOMAIN warnings' : (k \in DOMAIN warnings /\ warnings'[k] = warnings[k]) \/
            (CondOf(conditions, n) = None /\ warnings'[k].rule = n)
      /\ CondOf(conditions, n) = None => \E k \in DOMAIN warnings' : warnings'[k].rule = n
  <2>1. CASE CondOf(conditions, n) # None
    <3>1. warnings' = warnings
      BY <2>1, <1>1
    <3> QED BY <2>1, <3>1, <1>3
  <2>2. CASE CondOf(conditions, n) = None
    <3>1. warnings' = Append(warnings, note) /\ note.rule = n
      BY <2>2, <1>1
    <3> HIDE DEF note
    <3>2. OwnSeq(warnings') /\ DOMAIN warnings' = 1 .. Len(warnings) + 1
          /\ \A k \in 1 .. Len(warnings) + 1 : warnings'[k] = IF k <= Len(warnings) THEN warnings[k] ELSE note
      BY <3>1, <1>3, AppendOwn, AppendIs
    <3>3. Len(warnings) + 1 \in DOMAIN warnings' /\ warnings'[Len(warnings) + 1] = note
      BY <3>2, <1>3
    <3>4. \A k \in DOMAIN warnings' :
            (k \in DOMAIN warnings /\ warnings'[k] = warnings[k]) \/ warnings'[k] = note
      BY <3>2, <1>3
    <3>5. \A k \in DOMAIN warnings : k \in DOMAIN warnings' /\ warnings'[k] = warnings[k]
      BY <3>2, <1>3
    <3> QED BY <3>1, <3>2, <3>3, <3>4, <3>5, <2>2
  <2> QED BY <2>1, <2>2
<1>6. ASSUME NEW k \in DOMAIN warnings'
      PROVE  warnings'[k].rule \in Nat \ {0} /\ CondOf(conditions, warnings'[k].rule) = None
  <2>1. CASE k \in DOMAIN warnings /\ warnings'[k] = warnings[k]
    BY <2>1 DEF Warned
  <2>2. CASE CondOf(conditions, n) = None /\ warnings'[k].rule = n
    BY <2>2, <1>2
  <2> QED BY <2>1, <2>2, <1>5
<1>7. ASSUME NEW k \in DOMAIN written', written'[k].condition = None
      PROVE  NamedIn(written'[k].rule, warnings')
  <2>1. CASE k \in DOMAIN written /\ written'[k] = written[k]
    <3>1. NamedIn(written[k].rule, warnings)
      BY <2>1, <1>7 DEF Warned
    <3> QED BY <2>1, <3>1, <1>5 DEF NamedIn
  <2>2. CASE written'[k] = entry
    <3>1. written'[k].rule = n /\ CondOf(conditions, n) = None
      BY <2>2, <1>7
    <3> QED BY <3>1, <1>5 DEF NamedIn
  <2> QED BY <2>1, <2>2, <1>4
<1>8. OwnSeq(warnings)'
  BY <1>5 DEF OwnSeq
<1> HIDE DEF note, entry
<1> QED BY <1>2, <1>6, <1>7, <1>8 DEF Warned

LEMMA StepCounted ==
    ASSUME Decoded, Counted, Emitted, [Next]_vars
    PROVE  /\ Counted' /\ Emitted' /\ file' = file
           /\ NotesAreLists /\ Sorted /\ Warned => Warned'
<1>1. CASE RecoverCondition
  <2>1. /\ Counted' /\ phase = "conditions" /\ phase' = phase /\ written = <<>> /\ written' = <<>>
        /\ file' = file
    BY <1>1, RecoverKeepsCounted
  <2>2. Emitted'
    <3>1. OwnSeq(<<>>) /\ DOMAIN <<>> = {}
      BY DEF OwnSeq
    <3> QED BY <2>1, <3>1 DEF Emitted
  <2> QED BY <1>1, <2>1, <2>2, RecoverKeepsWarned
<1>2. CASE WriteRule
  <2>1. file' = file
    BY <1>2 DEF WriteRule
  <2> QED BY <1>2, <2>1, WriteKeepsEmitted, WriteKeepsWarned
<1>3. CASE DecodeInstr \/ DecodeRaise \/ RecoverImports \/ SplitDone \/ ConditionsDone \/ WriteDone
  <2>1. /\ file' = file /\ conditions' = conditions /\ warnings' = warnings /\ written' = written
        /\ MovesOn(phase, phase')
    BY <1>3 DEF DecodeInstr, DecodeRaise, RecoverImports, SplitDone, ConditionsDone, WriteDone, MovesOn
  <2> QED BY <2>1, QuietKeeps
<1>4. CASE InitRule \/ MatchRule \/ BodyInstr
  <2>1. /\ file' = file /\ conditions' = conditions /\ warnings' = warnings /\ written' = written
        /\ MovesOn(phase, phase')
    BY <1>4 DEF InitRule, MatchRule, BodyInstr, Cut, MovesOn
  <2> QED BY <2>1, QuietKeeps
<1>5. CASE UNCHANGED vars
  <2>1. /\ file' = file /\ conditions' = conditions /\ warnings' = warnings /\ written' = written
        /\ MovesOn(phase, phase')
    BY <1>5 DEF vars, MovesOn
  <2> QED BY <2>1, QuietKeeps
<1> QED BY <1>1, <1>2, <1>3, <1>4, <1>5 DEF Next

-----------------------------------------------------------------------------
(* The bodies of compiled code.                                            *)
LEMMA LaidFacts ==
    ASSUME Decoded, file.body # <<>>
    PROVE  /\ Laid(file) /\ file.code \in Seq(Instr)
           /\ Len(file.code) \in Nat /\ DOMAIN file.code = 1 .. Len(file.code)
           /\ Len(file.rules) \in Nat \ {0} /\ DOMAIN file.rules = 1 .. Len(file.rules)
           /\ DOMAIN file.rules \subseteq Nat \ {0} /\ file.code # <<>>
<1>1. /\ Laid(file) /\ file.code \in Seq(Instr) /\ file.rules \in Seq(RuleEntry)
      /\ file.body \in Seq(Seq(Instr))
  BY DecompileAssumption, CompilerAssumption DEF Decoded
<1>2. Len(file.rules) \in Nat \ {0}
  BY <1>1 DEF Laid
<1>3. 1 \in DOMAIN file.rules
  BY <1>1, <1>2
<1>4. \E i \in DOMAIN file.code : TRUE
  BY <1>1, <1>3 DEF Laid
<1> QED BY <1>1, <1>2, <1>4

LEMMA InitBodied == MainInit => Bodied
<1> SUFFICES ASSUME MainInit, file.body # <<>> PROVE Bodied
  BY DEF Bodied
<1>1. Decoded
  BY InitDecoded
<1>2. file.code # <<>>
  BY <1>1, LaidFacts
<1>3. phase = "decode" /\ conditions = <<>>
  BY <1>2 DEF MainInit, Init
<1> QED BY <1>3 DEF Bodied

LEMMA SavedBody ==
    ASSUME NEW n \in Nat
    PROVE  /\ current # n => (IF n \in DOMAIN Saved THEN Saved[n] ELSE <<>>) = BodyOf(n)
           /\ current = n => (IF n \in DOMAIN Saved THEN Saved[n] ELSE <<>>) = buf
BY DecompileAssumption DEF Saved, BodyOf

LEMMA CutKeepsBodied ==
    ASSUME Decoded, Bodied, file.body # <<>>, InitRule \/ MatchRule
    PROVE  Bodied'
<1> DEFINE next == IF instrs[off].op = "INIT_RULE" THEN instrs[off].arg ELSE None
<1>1. /\ phase = "split" /\ off \in 1 .. Len(instrs) /\ Cut(next)
      /\ instrs[off].op \in {"INIT_RULE", "MATCH_RULE"}
  BY DEF InitRule, MatchRule, Splitting, Decoded
<1>2. /\ phase' = "split" /\ file' = file /\ instrs' = instrs /\ conditions' = conditions
      /\ off' = off + 1 /\ current' = next /\ buf' = <<>> /\ bodies' = Saved
  BY <1>1 DEF Cut
<1>3. /\ Len(instrs) = Len(file.code) /\ off \in 1 .. Len(file.code) /\ off \in Nat
      /\ instrs[off] = file.code[off]
  BY <1>1 DEF Bodied, Decoded
<1> HIDE DEF next
<1>4. ASSUME NEW n \in DOMAIN file.rules, NEW i \in DOMAIN file.code, NEW j \in DOMAIN file.code,
             BodyAt(file, n, i, j)
      PROVE  Within(n, i, j)'
  <2>0. Within(n, i, j)
    BY <1>1, <1>4 DEF Bodied
  <2>1. /\ i \in Nat \ {0} /\ j \in Nat /\ i < j /\ n \in Nat /\ None # n /\ off \in DOMAIN file.code
        /\ Within(n, i, j)
    BY <1>3, <1>4, <2>0, LaidFacts, DecompileAssumption DEF BodyAt
  <2>2. \A k \in DOMAIN file.code : Inits(file, n, k) => k = i
    BY <1>4, LaidFacts DEF Laid, BodyAt
  <2>3. CASE i = off
    <3>1. next = n
      BY <1>3, <1>4, <2>3 DEF next, BodyAt, Inits
    <3>2. SubSeq(file.code, i + 1, off' - 1) = <<>>
      BY <1>2, <2>1, <2>3, LaidFacts
    <3> QED BY <1>2, <2>1, <2>3, <3>1, <3>2 DEF Within
  <2>4. CASE i < off /\ off < j
    <3>1. file.code[off].op \notin Markers
      <4>1. off \in i + 1 .. j - 1
        BY <1>3, <2>1, <2>4
      <4> QED BY <1>4, <4>1 DEF BodyAt
    <3> QED BY <1>1, <1>3, <3>1 DEF Markers
  <2>5. CASE off = j
    <3>1. next = None /\ current = n /\ buf = file.body[n]
      BY <1>3, <1>4, <2>1, <2>5 DEF next, BodyAt, Within
    <3>2. BodyOf(n)' = file.body[n]
      BY <1>2, <2>1, <3>1, SavedBody DEF BodyOf
    <3> QED BY <1>2, <2>1, <2>5, <3>1, <3>2 DEF Within
  <2>6. CASE j < off
    <3>1. current # n /\ BodyOf(n) = file.body[n]
      BY <2>1, <2>6 DEF Within
    <3>2. BodyOf(n)' = file.body[n]
      BY <1>2, <2>1, <3>1, SavedBody DEF BodyOf
    <3>3. next # n
      BY <1>3, <2>1, <2>2, <2>6 DEF next, Inits
    <3> QED BY <1>2, <1>3, <2>1, <2>6, <3>2, <3>3 DEF Within
  <2>7. CASE off < i
    BY <1>2, <1>3, <2>1, <2>7 DEF Within
  <2> QED BY <1>3, <2>1, <2>3, <2>4, <2>5, <2>6, <2>7
<1> QED BY <1>2, <1>3, <1>4 DEF Bodied

LEMMA InstrKeepsBodied ==
    ASSUME Decoded, Bodied, file.body # <<>>, BodyInstr
    PROVE  Bodied'
<1>1. /\ phase = "split" /\ off \in 1 .. Len(instrs) /\ instrs[off].op \notin Markers
      /\ phase' = "split" /\ file' = file /\ instrs' = instrs /\ conditions' = conditions
      /\ off' = off + 1 /\ current' = current /\ bodies' = bodies
      /\ buf' = IF current = None THEN buf ELSE Append(buf, instrs[off])
  BY DEF BodyInstr, Splitting, Decoded
<1>2. /\ Len(instrs) = Len(file.code) /\ off \in 1 .. Len(file.code) /\ off \in Nat
      /\ instrs[off] = file.code[off]
  BY <1>1 DEF Bodied, Decoded
<1>3. ASSUME NEW n \in DOMAIN file.rules, NEW i \in DOMAIN file.code, NEW j \in DOMAIN file.code,
             BodyAt(file, n, i, j)
      PROVE  Within(n, i, j)'
  <2>0. Within(n, i, j)
    BY <1>1, <1>3 DEF Bodied
  <2>1. /\ i \in Nat \ {0} /\ j \in Nat /\ i < j /\ n \in Nat /\ None # n /\ Within(n, i, j)
        /\ i <= Len(file.code) /\ j <= Len(file.code)
    BY <1>3, <2>0, LaidFacts, DecompileAssumption DEF BodyAt
  <2>2. off # i /\ off # j
    BY <1>1, <1>2, <1>3 DEF BodyAt, Inits, Markers
  <2>3. CASE i < off /\ off < j
    <3>1. current = n /\ buf = SubSeq(file.code, i + 1, off - 1)
      BY <1>2, <2>1, <2>3 DEF Within
    <3>2. buf' = Append(SubSeq(file.code, i + 1, off - 1), file.code[off])
      BY <1>1, <1>2, <2>1, <3>1
    <3>3. Append(SubSeq(file.code, i + 1, off - 1), file.code[off]) = SubSeq(file.code, i + 1, off)
      <4>1. i + 1 \in Nat \ {0} /\ i + 1 <= off /\ file.code \in Seq(Instr)
        BY <1>2, <2>1, <2>3, LaidFacts
      <4> QED BY <1>2, <4>1, SubSeqGrows
    <3>4. off' - 1 = off /\ off' <= j /\ i < off' /\ ~ (j < off')
      BY <1>1, <1>2, <2>1, <2>3
    <3> QED BY <1>1, <3>1, <3>2, <3>3, <3>4 DEF Within
  <2>4. CASE j < off
    <3>1. current # n /\ BodyOf(n)' = file.body[n]
      BY <1>1, <2>1, <2>4 DEF Within, BodyOf
    <3> QED BY <1>1, <1>2, <2>1, <2>4, <3>1 DEF Within
  <2>5. CASE off < i
    BY <1>1, <1>2, <2>1, <2>5 DEF Within
  <2> QED BY <1>2, <2>1, <2>2, <2>3, <2>4, <2>5
<1> QED BY <1>1, <1>2, <1>3 DEF Bodied

LEMMA DoneKeepsBodied ==
    ASSUME Decoded, Bodied, file.body # <<>>, SplitDone
    PROVE  Bodied'
<1>1. /\ phase = "split" /\ phase' = "conditions" /\ file' = file /\ conditions' = conditions
      /\ bodies' = Saved /\ off \in Nat /\ (off <= Len(instrs) => instrs[off].op = "HALT")
      /\ Len(instrs) = Len(file.code)
      /\ \A k \in 1 .. Len(instrs) : instrs[k] = file.code[k]
  BY DEF SplitDone, Bodied, Decoded
<1>2. ASSUME NEW n \in DOMAIN file.rules PROVE BodyOf(n)' = file.body[n]
  <2>1. PICK i \in DOMAIN file.code, j \in DOMAIN file.code : BodyAt(file, n, i, j)
    BY LaidFacts DEF Laid
  <2>2. i \in Nat /\ j \in Nat /\ n \in Nat /\ j <= Len(file.code) /\ off \in Nat \ {0}
    BY LaidFacts DEF Decoded
  <2>3. j < off
    <3>1. CASE off <= Len(instrs)
      <4>1. off \in DOMAIN file.code /\ file.code[off].op = "HALT"
        BY <1>1, <2>2, <3>1, LaidFacts
      <4>2. off = Len(file.code)
        BY <4>1, LaidFacts DEF Laid
      <4>3. off # j
        BY <2>1, <4>1 DEF BodyAt
      <4> QED BY <2>2, <4>2, <4>3, LaidFacts
    <3>2. CASE ~ (off <= Len(instrs))
      BY <1>1, <2>2, <3>2, LaidFacts
    <3> QED BY <3>1, <3>2
  <2>4. current # n /\ BodyOf(n) = file.body[n]
    BY <1>1, <2>1, <2>3 DEF Bodied, Within
  <2> QED BY <1>1, <2>2, <2>4, SavedBody DEF BodyOf
<1> QED BY <1>1, <1>2 DEF Bodied

LEMMA RecoverKeepsBodied ==
    ASSUME Decoded, Counted, Bodied, file.body # <<>>, RecoverCondition
    PROVE  Bodied'
<1> DEFINE n == Len(conditions) + 1
           text == ConditionOf(BodyOf(n)).text
<1>1. /\ phase = "conditions" /\ phase' = phase /\ file' = file /\ bodies' = bodies
      /\ conditions' = Append(conditions, text) /\ Len(conditions) < Len(file.rules)
  BY DEF RecoverCondition
<1>2. OwnSeq(conditions) /\ Len(conditions) \in Nat /\ DOMAIN conditions = 1 .. Len(conditions)
  BY OwnFacts DEF Counted
<1>3. /\ DOMAIN conditions' = 1 .. n
      /\ \A k \in 1 .. n : conditions'[k] = IF k <= Len(conditions) THEN conditions[k] ELSE text
  BY <1>1, <1>2, AppendIs
<1>4. n \in DOMAIN file.rules
  BY <1>1, <1>2, LaidFacts
<1>5. text = ConditionOf(file.body[n]).text
  BY <1>1, <1>4 DEF Bodied
<1>6. ASSUME NEW k \in DOMAIN conditions' PROVE conditions'[k] = ConditionOf(file.body[k]).text
  <2> HIDE DEF text
  <2>1. CASE k = n
    BY <2>1, <1>2, <1>3, <1>5
  <2>2. CASE k \in DOMAIN conditions
    BY <2>2, <1>2, <1>3 DEF Bodied
  <2> QED BY <2>1, <2>2, <1>2, <1>3
<1>7. \A k \in DOMAIN file.rules : BodyOf(k)' = file.body[k]
  BY <1>1 DEF Bodied, BodyOf
<1> QED BY <1>1, <1>6, <1>7 DEF Bodied

LEMMA StepBodied ==
    ASSUME Decoded, Counted, Bodied, [Next]_vars
    PROVE  Bodied'
<1> SUFFICES ASSUME file'.body # <<>> PROVE Bodied'
  BY DEF Bodied
<1>0. file' = file /\ file.body # <<>>
  BY DEF Next, vars, DecodeInstr, DecodeRaise, RecoverImports, InitRule, MatchRule, BodyInstr,
     SplitDone, RecoverCondition, ConditionsDone, WriteRule, WriteDone, Cut
<1>1. CASE InitRule \/ MatchRule
  BY <1>0, <1>1, CutKeepsBodied
<1>2. CASE BodyInstr
  BY <1>0, <1>2, InstrKeepsBodied
<1>3. CASE SplitDone
  BY <1>0, <1>3, DoneKeepsBodied
<1>4. CASE RecoverCondition
  BY <1>0, <1>4, RecoverKeepsBodied
<1>5. CASE DecodeInstr \/ DecodeRaise
  BY <1>0, <1>5 DEF DecodeInstr, DecodeRaise, Bodied
<1>6. CASE RecoverImports
  <2>1. /\ phase = "decode" /\ phase' = "split" /\ off' = 1 /\ instrs' = instrs
        /\ conditions' = conditions /\ off > Len(file.code)
    BY <1>6 DEF RecoverImports
  <2>2. Len(instrs) = Len(file.code)
    <3>1. Complete /\ instrs \in Seq(Instr) /\ Len(instrs) <= Len(file.code) /\ off \in Nat
          /\ \A k \in 1 .. Len(instrs) : instrs[k] = file.code[k]
      BY <2>1, <1>0, LaidFacts DEF Decoded
    <3>2. CASE instrs # <<>> /\ instrs[Len(instrs)].op = "HALT"
      <4>1. Len(instrs) \in 1 .. Len(instrs) /\ Len(instrs) \in DOMAIN file.code
        BY <1>0, <3>1, <3>2, LaidFacts
      <4>2. file.code[Len(instrs)].op = "HALT"
        BY <3>1, <3>2, <4>1
      <4> QED BY <1>0, <4>1, <4>2, LaidFacts DEF Laid
    <3> QED BY <3>1, <3>2 DEF Complete
  <2>3. ASSUME NEW i \in DOMAIN file.code, NEW j \in DOMAIN file.code, NEW n PROVE Within(n, i, j)'
    BY <1>0, <2>1, LaidFacts DEF Within
  <2> QED BY <1>0, <2>1, <2>2, <2>3 DEF Bodied
<1>7. CASE ConditionsDone \/ WriteRule \/ WriteDone
  <2>1. /\ bodies' = bodies /\ conditions' = conditions /\ phase \in {"conditions", "emit"}
        /\ phase' \in {"emit", "done"}
        /\ phase = "conditions" => Len(conditions) = Len(file.rules)
    BY <1>7 DEF ConditionsDone, WriteRule, WriteDone
  <2>2. \A n \in DOMAIN file.rules : BodyOf(n)' = file.body[n]
    BY <1>0, <2>1 DEF Bodied, BodyOf
  <2> QED BY <1>0, <2>1, <2>2 DEF Bodied
<1>8. CASE UNCHANGED vars
  BY <1>0, <1>8 DEF vars, Bodied, Within, BodyOf
<1> QED BY <1>1, <1>2, <1>3, <1>4, <1>5, <1>6, <1>7, <1>8 DEF Next

-----------------------------------------------------------------------------
(* The rules written are, in the end, all: as many as there are, and none  *)
(* twice.                                                                  *)
Once(s, n) == Cardinality({k \in DOMAIN s : s[k].rule = n}) = 1

LEMMA AllWritten ==
    ASSUME Decoded, Emitted, Len(written) = Len(file.rules), NEW n \in DOMAIN file.rules
    PROVE  Once(written, n) /\ \E k \in DOMAIN written : written[k].rule = n
<1> DEFINE N == Len(file.rules)
           f == [k \in 1 .. N |-> written[k].rule]
<1>1. file.rules \in Seq(RuleEntry) /\ N \in Nat /\ DOMAIN file.rules = 1 .. N
  BY DecompileAssumption DEF Decoded
<1>2. DOMAIN written = 1 .. N
  BY OwnFacts DEF Emitted
<1>3. \A k \in 1 .. N : Entered(k)
  BY <1>2 DEF Emitted
<1>4. f \in Injection(1 .. N, 1 .. N)
  <2>1. f \in [1 .. N -> 1 .. N]
    BY <1>1, <1>3 DEF Entered
  <2>2. \A a, b \in 1 .. N : f[a] = f[b] => a = b
    BY <1>2, <1>3 DEF Entered
  <2> HIDE DEF f, N
  <2> QED BY <2>1, <2>2 DEF Injection, IsInjective
<1>5. IsFiniteSet(1 .. N)
  BY <1>1, FS_Interval
<1>6. f \in Surjection(1 .. N, 1 .. N)
  <2> HIDE DEF f, N
  <2> QED BY <1>4, <1>5, FS_Injection
<1>7. PICK k \in 1 .. N : f[k] = n
  <2> HIDE DEF f
  <2> QED BY <1>1, <1>6 DEF Surjection
<1>8. k \in DOMAIN written /\ written[k].rule = n
  BY <1>2, <1>7
<1>9. {j \in DOMAIN written : written[j].rule = n} = {k}
  BY <1>2, <1>3, <1>8 DEF Entered
<1> QED BY <1>8, <1>9, FS_Singleton DEF Once

Pipeline == Decoded /\ Reported /\ Counted /\ Emitted /\ Bodied

LEMMA InitPipeline == MainInit => Pipeline
BY InitDecoded, InitReported, InitCounted, InitBodied DEF Pipeline

LEMMA StepPipeline == Pipeline /\ [MainNext]_allVars => Pipeline'
BY StepDecoded, StepReported, StepCounted, StepBodied, MainStep DEF Pipeline

(* For every file: a rule is written once; if the code is compiled, with   *)
(* the condition recovered from its own body (split_rule_bodies, the loop  *)
(* of decompile, render_all).                                              *)
THEOREM EachRuleItsConditionHolds == MainSpec => []EachRuleItsCondition
<1>1. Pipeline => EachRuleItsCondition
  <2> SUFFICES ASSUME Pipeline, phase = "done", file.body # <<>>
               PROVE  /\ \A n \in 1 .. Len(file.rules) : Once(written, n)
                      /\ \A k \in DOMAIN written :
                           written[k].condition = ConditionOf(file.body[written[k].rule]).text
    BY DEF EachRuleItsCondition, Once
  <2> USE DEF Pipeline
  <2>1. DOMAIN file.rules = 1 .. Len(file.rules) /\ DOMAIN file.rules \subseteq Nat
    BY LaidFacts
  <2>2. \A n \in 1 .. Len(file.rules) : Once(written, n)
    BY <2>1, AllWritten DEF Reported
  <2>3. ASSUME NEW k \in DOMAIN written
        PROVE  written[k].condition = ConditionOf(file.body[written[k].rule]).text
    <3>1. written[k].rule \in DOMAIN file.rules /\ written[k].condition = CondOf(conditions, written[k].rule)
      BY DEF Emitted, Entered
    <3>2. Len(conditions) = Len(file.rules) /\ DOMAIN conditions = 1 .. Len(file.rules)
      BY OwnFacts DEF Counted, Bodied
    <3>3. written[k].rule \in DOMAIN conditions /\ written[k].rule <= Len(conditions)
      BY <2>1, <3>1, <3>2
    <3> QED BY <3>1, <3>3 DEF CondOf, Bodied
  <2> QED BY <2>2, <2>3
<1> QED BY <1>1, InitPipeline, StepPipeline, PTL DEF MainSpec

LEMMA RefsBefore ==
    ASSUME Decoded, NEW n \in DOMAIN file.rules, NEW m \in file.rules[n].refs
    PROVE  m \in DOMAIN file.rules /\ Before(m, n)
<1>1. m \in 1 .. n - 1 /\ file.rules[m].ns = file.rules[n].ns
  BY CompilerAssumption DEF Decoded
<1>2. file.rules \in Seq(RuleEntry)
  BY DecompileAssumption DEF Decoded
<1>3. m \in DOMAIN file.rules /\ n \in Nat /\ m < n /\ m \in 1 .. n
  BY <1>1, <1>2
<1>4. /\ FirstOf(n) \in 1 .. n /\ FirstOf(m) \in 1 .. m
      /\ file.rules[FirstOf(n)].ns = file.rules[n].ns /\ file.rules[FirstOf(m)].ns = file.rules[m].ns
      /\ \A p \in 1 .. n : file.rules[p].ns = file.rules[n].ns => FirstOf(n) <= p
      /\ \A p \in 1 .. m : file.rules[p].ns = file.rules[m].ns => FirstOf(m) <= p
  BY <1>3, FirstIsPlace DEF Decoded
<1>5. FirstOf(n) <= m /\ FirstOf(n) \in 1 .. m
  BY <1>1, <1>3, <1>4
<1>6. FirstOf(m) <= FirstOf(n) /\ FirstOf(n) <= FirstOf(m)
  BY <1>1, <1>3, <1>4, <1>5
<1>7. FirstOf(m) = FirstOf(n)
  BY <1>4, <1>6
<1> QED BY <1>3, <1>7 DEF Before

(* For every file: a rule is written after those that it refers to, which  *)
(* stand before it in its namespace (render_all).                          *)
THEOREM ReferencesPrecedeHolds == MainSpec => []ReferencesPrecede
<1>1. Pipeline => ReferencesPrecede
  <2> SUFFICES ASSUME Pipeline, NEW k \in DOMAIN written, NEW m \in file.rules[written[k].rule].refs
               PROVE  \E j \in 1 .. k - 1 : written[j].rule = m
    BY DEF ReferencesPrecede
  <2>1. Entered(k)
    BY DEF Pipeline, Emitted
  <2> QED BY <2>1, RefsBefore DEF Entered, Pipeline
<1> QED BY <1>1, InitPipeline, StepPipeline, PTL DEF MainSpec

-----------------------------------------------------------------------------
(* _recover_imports: the list is a list, and names no module twice.        *)
Singles == {s \in Seq(Nat) : \A a, b \in DOMAIN s : s[a] = s[b] => a = b}

ImportStep(is, n, known) == IF Named(is[n], known) THEN Append(known, is[n].arg) ELSE known

LEMMA ImportStepIn ==
    ASSUME instrs \in Seq(Instr), NEW n \in 1 .. Len(instrs), NEW known \in Singles
    PROVE  ImportStep(instrs, n, known) \in Singles
<1> DEFINE x == instrs[n].arg
<1>1. instrs[n] \in Instr
  OBVIOUS
<1>2. x \in Nat
  BY <1>1 DEF Instr
<1>3. CASE Named(instrs[n], known)
  <2>1. x \notin {known[k] : k \in DOMAIN known}
    BY <1>3 DEF Named, ToSet
  <2> HIDE DEF x
  <2>2. known \in Seq(Nat) /\ \A a, b \in DOMAIN known : known[a] = known[b] => a = b
    BY DEF Singles
  <2> DEFINE t == Append(known, x)
  <2>3. /\ t \in Seq(Nat) /\ DOMAIN t = 1 .. Len(known) + 1 /\ Len(known) \in Nat
        /\ \A k \in 1 .. Len(known) + 1 : t[k] = IF k <= Len(known) THEN known[k] ELSE x
    BY <1>2, <2>2
  <2>4. DOMAIN known = 1 .. Len(known)
    BY <2>2
  <2> HIDE DEF t
  <2>5. \A a, b \in DOMAIN t : t[a] = t[b] => a = b
    BY <2>1, <2>2, <2>3, <2>4
  <2>6. t \in Singles
    BY <2>3, <2>5 DEF Singles
  <2> QED BY <1>3, <2>6 DEF ImportStep, t, x
<1>4. CASE ~ Named(instrs[n], known)
  BY <1>4 DEF ImportStep
<1> QED BY <1>3, <1>4

LEMMA ImportsIn ==
    ASSUME instrs \in Seq(Instr)
    PROVE  Imports \in Singles
<1> DEFINE N == Len(instrs)
           G == [n \in 1 .. N |-> [t \in Singles |-> ImportStep(instrs, n, t)]]
<1>1. N \in Nat
  OBVIOUS
<1>2. G \in [1 .. N -> [Singles -> Singles]]
  BY ImportStepIn
<1>3. ASSUME NEW t \in Singles, NEW n \in 1 .. N PROVE G[n][t] = ImportStep(instrs, n, t)
  OBVIOUS
<1> HIDE DEF N, G
<1> DEFINE z == <<>>
<1>4. z \in Singles
  BY DEF Singles
<1> HIDE DEF z
<1>5. PICK f : Stepwise(Singles, z, G, N, f)
  BY <1>1, <1>2, <1>4, StepsExist
<1> DEFINE Step(u, n) == IF n = 0 THEN <<>> ELSE ImportStep(instrs, n, u[n - 1])
<1>6. f = [n \in 0 .. N |-> Step(f, n)]
  <2>1. ASSUME NEW n \in 0 .. N PROVE f[n] = Step(f, n)
    <3>1. CASE n = 0
      BY <1>5, <3>1 DEF z, Stepwise
    <3>2. CASE n \in 1 .. N
      <4>1. f[n - 1] \in Singles
        BY <1>1, <1>5, <3>2 DEF Stepwise
      <4>2. f[n] = ImportStep(instrs, n, f[n - 1])
        BY <1>3, <1>5, <3>2, <4>1 DEF Stepwise
      <4> QED BY <1>1, <3>2, <4>2
    <3> QED BY <1>1, <3>1, <3>2
  <2> HIDE DEF Step
  <2> QED BY <1>5, <2>1 DEF Stepwise
<1> DEFINE u == CHOOSE u : u = [n \in 0 .. N |-> Step(u, n)]
<1>7. \A n \in 0 .. N : u[n] = Step(u, n)
  <2> HIDE DEF Step
  <2> QED BY <1>6
<1>8. Imports = u[N]
  BY DEF Imports, ImportStep, N
<1> HIDE DEF u
<1>9. u[0] \in Singles
  BY <1>1, <1>4, <1>7 DEF z
<1>10. ASSUME NEW n \in 1 .. N, u[n - 1] \in Singles PROVE u[n] \in Singles
  <2>1. u[n] = ImportStep(instrs, n, u[n - 1])
    BY <1>1, <1>7
  <2> QED BY <1>10, <2>1, ImportStepIn DEF N
<1>11. \A n \in 0 .. N : u[n] \in Singles
  BY <1>1, <1>9, <1>10, StaysIn
<1> QED BY <1>1, <1>8, <1>11

-----------------------------------------------------------------------------
(* The types.                                                              *)
Imported == imports \in Singles

StatusTyped ==
    /\ stage \in {"open", "disassemble", "decompile", "deliver", "warn", "exit"}
    /\ status \in {None, 0, 1, 2, 3} /\ (stage = "exit" <=> status # None)
    /\ shown \in {Blank, output}
    /\ stage \in {"open", "disassemble", "decompile", "deliver"} => shown = Blank

LEMMA InitTyped == MainInit => TypeOK /\ Imported /\ StatusTyped
<1> SUFFICES ASSUME MainInit PROVE TypeOK /\ Imported /\ StatusTyped
  OBVIOUS
<1>1. file \in Files /\ file.code \in Seq(Instr) /\ file.rules \in Seq(RuleEntry)
  BY DecompileAssumption DEF MainInit, Init
<1>2. Len(file.code) \in Nat /\ Len(file.rules) \in Nat
  BY <1>1
<1>3. TypeOK
  BY <1>1, <1>2 DEF MainInit, Init, TypeOK
<1>4. Imported
  BY DEF MainInit, Init, Imported, Singles
<1>5. StatusTyped
  BY DEF MainInit, StatusTyped
<1> QED BY <1>3, <1>4, <1>5

LEMMA StepStatus == StatusTyped /\ [MainNext]_allVars => StatusTyped'
<1> SUFFICES ASSUME StatusTyped, [MainNext]_allVars PROVE StatusTyped'
  OBVIOUS
<1>0. None \notin Nat
  BY DecompileAssumption
<1>1. CASE Disassemble \/ RaiseDisassembling \/ Decompiling \/ UNCHANGED allVars
  BY <1>1 DEF Disassemble, RaiseDisassembling, Decompiling, allVars, mainVars, StatusTyped
<1>2. CASE Refuse \/ Traceback \/ BrokenPipe \/ Unwritable
  BY <1>0, <1>2 DEF Refuse, Traceback, BrokenPipe, Unwritable, Exit, StatusOf, Uncaught, StatusTyped
<1>3. CASE Warn
  BY <1>0, <1>3 DEF Warn, Exit, StatusTyped
<1>4. CASE Open \/ Info \/ Disassembled \/ Decompiled
  BY <1>4 DEF Open, Info, Disassembled, Decompiled, Make, StatusTyped
<1>5. CASE Deliver
  BY <1>5 DEF Deliver, StatusTyped
<1> QED BY <1>1, <1>2, <1>3, <1>4, <1>5 DEF MainNext

LEMMA SavedTyped ==
    ASSUME TypeOK
    PROVE  DOMAIN Saved \subseteq Nat /\ \A n \in DOMAIN Saved : Saved[n] \in Seq(Instr)
BY DEF TypeOK, Saved

LEMMA StepTyped ==
    ASSUME Decoded, Counted, Emitted, TypeOK, Imported, [Next]_vars
    PROVE  TypeOK' /\ Imported'
<1>0. /\ file.code \in Seq(Instr) /\ Len(file.code) \in Nat /\ off \in Nat \ {0}
      /\ instrs \in Seq(Instr) /\ Len(instrs) \in Nat /\ Len(instrs) <= Len(file.code)
  BY DecompileAssumption DEF Decoded
<1>1. CASE DecodeInstr
  <2>1. Here \in Instr /\ off + 1 \in 1 .. Len(file.code) + 1 /\ Len(file.code) + 1 \in 1 .. Len(file.code) + 1
    BY <1>0, <1>1 DEF DecodeInstr, Here
  <2> QED BY <1>0, <1>1, <2>1 DEF DecodeInstr, TypeOK, Imported
<1>2. CASE RecoverImports
  <2>1. imports' \in Singles /\ off' = 1
    BY <1>0, <1>2, ImportsIn DEF RecoverImports
  <2>2. imports' \in Seq(Nat) /\ off' \in 1 .. Len(file.code) + 1
    BY <1>0, <2>1 DEF Singles
  <2> QED BY <1>2, <2>1, <2>2 DEF RecoverImports, TypeOK, Imported
<1>3. CASE InitRule \/ MatchRule
  <2>1. off \in 1 .. Len(instrs) /\ instrs[off] \in Instr
    BY <1>0, <1>3 DEF InitRule, MatchRule, Splitting
  <2>2. \E next \in Nat \cup {None} : Cut(next)
    BY <1>3, <2>1 DEF InitRule, MatchRule, Instr
  <2>3. off' \in 1 .. Len(file.code) + 1
    BY <1>0, <2>1, <2>2 DEF Cut
  <2> QED BY <2>2, <2>3, SavedTyped DEF Cut, TypeOK, Imported
<1>4. CASE BodyInstr
  <2>1. off \in 1 .. Len(instrs) /\ instrs[off] \in Instr
    BY <1>0, <1>4 DEF BodyInstr, Splitting
  <2>2. off' \in 1 .. Len(file.code) + 1
    BY <1>0, <1>4, <2>1 DEF BodyInstr
  <2>3. buf' \in Seq(Instr)
    BY <1>4, <2>1 DEF BodyInstr, TypeOK
  <2> QED BY <1>4, <2>2, <2>3 DEF BodyInstr, TypeOK, Imported
<1>5. CASE SplitDone
  BY <1>5, SavedTyped DEF SplitDone, TypeOK, Imported
<1>6. CASE RecoverCondition
  <2>1. written = <<>> /\ written' = <<>> /\ Counted'
    BY <1>6, RecoverKeepsCounted
  <2>2. Len(conditions') <= Len(file'.rules)
    BY <2>1 DEF Counted
  <2>3. UNCHANGED <<file, phase, off, instrs, imports, current, buf, bodies>>
    BY <1>6 DEF RecoverCondition
  <2> QED BY <2>1, <2>2, <2>3 DEF TypeOK, Imported
<1>7. CASE WriteRule
  <2> DEFINE T == [rule : 1 .. Len(file.rules), condition : {conditions[n] : n \in DOMAIN conditions} \cup {None}]
  <2>1. PICK n \in Unwritten : written' = Append(written, [rule |-> n, condition |-> Condition(n)])
    BY <1>7 DEF WriteRule
  <2>2. n \in 1 .. Len(file.rules)
    <3>1. file.rules \in Seq(RuleEntry)
      BY DecompileAssumption DEF Decoded
    <3> QED BY <3>1 DEF Unwritten
  <2>3. Condition(n) \in {conditions[m] : m \in DOMAIN conditions} \cup {None}
    <3>1. n \in Nat \ {0} /\ Len(conditions) \in Nat /\ DOMAIN conditions = 1 .. Len(conditions)
      BY <2>2, OwnFacts DEF Counted
    <3> QED BY <3>1 DEF Condition
  <2>4. written' \in Seq(T)
    BY <2>1, <2>2, <2>3 DEF TypeOK
  <2>5. UNCHANGED <<file, phase, off, instrs, imports, current, buf, bodies, conditions>>
    BY <1>7 DEF WriteRule
  <2> QED BY <2>4, <2>5 DEF TypeOK, Imported
<1>8. CASE DecodeRaise \/ ConditionsDone \/ WriteDone
  BY <1>8 DEF DecodeRaise, ConditionsDone, WriteDone, TypeOK, Imported
<1>9. CASE UNCHANGED vars
  BY <1>9 DEF vars, TypeOK, Imported
<1> QED BY <1>1, <1>2, <1>3, <1>4, <1>5, <1>6, <1>7, <1>8, <1>9 DEF Next

(* Every variable of main and of decompile keeps its type, whatever the    *)
(* file and the invocation.                                                *)
THEOREM MainTypeOKHolds == MainSpec => []MainTypeOK
<1> DEFINE I == Pipeline /\ TypeOK /\ Imported /\ StatusTyped
<1>1. MainInit => I
  BY InitPipeline, InitTyped
<1>2. I /\ [MainNext]_allVars => I'
  BY StepPipeline, StepTyped, StepStatus, MainStep DEF Pipeline
<1>3. I => MainTypeOK
  BY DEF MainTypeOK, StatusTyped
<1> QED BY <1>1, <1>2, <1>3, PTL DEF MainSpec

(* Whatever the code, no module is named twice in the list of imports      *)
(* (_recover_imports, "name not in out").                                  *)
THEOREM ImportedOnce == MainSpec => [](\A a, b \in DOMAIN imports : imports[a] = imports[b] => a = b)
<1> DEFINE I == Pipeline /\ TypeOK /\ Imported
           Single == \A a, b \in DOMAIN imports : imports[a] = imports[b] => a = b
<1>1. MainInit => I
  BY InitPipeline, InitTyped
<1>2. I /\ [MainNext]_allVars => I'
  BY StepPipeline, StepTyped, MainStep DEF Pipeline
<1>3. I => Single
  BY DEF Imported, Singles
<1> QED BY <1>1, <1>2, <1>3, PTL DEF MainSpec

-----------------------------------------------------------------------------
(* What is delivered is the text of the rules written, or of the table,    *)
(* and with it what is told are the warnings.                              *)
TheText ==
    IF args.format = "json" THEN Text("json", JsonRules, <<>>, warnings)
                            ELSE Text("yara", SourceRules, <<>>, <<>>)

Delivered ==
    Decompiles =>
        /\ stage \in {"deliver", "warn"} => phase = "done" /\ output = TheText
        /\ stage = "warn" => shown \in {Blank, output}
        /\ stage = "exit" /\ shown # Blank =>
             /\ phase = "done" /\ shown = TheText
             /\ told = IF args.format = "yara" /\ ~ args.quiet THEN warnings ELSE <<>>

LEMMA InitDelivered == MainInit => Delivered
BY DEF MainInit, Delivered

LEMMA TextSame ==
    ASSUME UNCHANGED <<vars, args>>
    PROVE  TheText' = TheText /\ Decompiles' = Decompiles
BY DEF vars, TheText, Text, Decompiles, JsonRules, SourceRules, Listing, Condition, BodyOf

LEMMA StepDelivered == Reported /\ Delivered /\ [MainNext]_allVars => Delivered'
<1> SUFFICES ASSUME Reported, Delivered, [MainNext]_allVars PROVE Delivered'
  OBVIOUS
<1>1. CASE Disassemble \/ RaiseDisassembling \/ Decompiling
  <2>1. stage' \in {"disassemble", "decompile"}
    BY <1>1 DEF Disassemble, RaiseDisassembling, Decompiling, mainVars
  <2> QED BY <2>1 DEF Delivered
<1>2. CASE Refuse \/ Traceback \/ BrokenPipe \/ Unwritable
  <2>1. stage' = "exit" /\ shown' = Blank
    BY <1>2 DEF Refuse, Traceback, BrokenPipe, Unwritable, Exit, Reported
  <2> QED BY <2>1 DEF Delivered
<1>3. CASE Open
  BY <1>3 DEF Open, Delivered
<1>4. CASE Info \/ Disassembled
  <2>1. ~ Decompiles /\ args' = args
    BY <1>4 DEF Info, Disassembled, Decompiles, Make, Reported
  <2> QED BY <2>1 DEF Delivered, Decompiles
<1>5. CASE Decompiled
  <2>1. stage' = "deliver" /\ phase = "done" /\ output' = TheText /\ UNCHANGED <<vars, args>>
    BY <1>5 DEF Decompiled, Make, TheText
  <2>2. phase' = "done"
    BY <2>1 DEF vars
  <2> QED BY <2>1, <2>2, TextSame DEF Delivered
<1>6. CASE Deliver
  <2>1. stage = "deliver" /\ stage' = "warn" /\ shown' \in {Blank, output} /\ output' = output
        /\ UNCHANGED <<vars, args>>
    BY <1>6 DEF Deliver
  <2>2. phase' = phase
    BY <2>1 DEF vars
  <2> QED BY <2>1, <2>2, TextSame DEF Delivered
<1>7. CASE Warn
  <2>1. /\ stage = "warn" /\ stage' = "exit" /\ shown' = shown /\ UNCHANGED <<vars, args>>
        /\ told' = IF args.format = "yara" /\ ~ args.quiet THEN warnings ELSE told
        /\ told = <<>>
    BY <1>7 DEF Warn, Exit, Reported
  <2>2. phase' = phase /\ warnings' = warnings /\ args' = args
    BY <2>1 DEF vars
  <2> QED BY <2>1, <2>2, TextSame DEF Delivered
<1>8. CASE UNCHANGED allVars
  <2>1. UNCHANGED <<vars, args>> /\ UNCHANGED <<stage, shown, told, output>>
    BY <1>8 DEF allVars, mainVars
  <2>2. phase' = phase /\ warnings' = warnings
    BY <2>1 DEF vars
  <2> QED BY <2>1, <2>2, TextSame DEF Delivered
<1> QED BY <1>1, <1>2, <1>3, <1>4, <1>5, <1>6, <1>7, <1>8 DEF MainNext

(* A rule lacks its condition just when a warning names it.                *)
LEMMA WarnedJust ==
    ASSUME Pipeline, Warned, phase = "done", NEW n \in DOMAIN file.rules
    PROVE  CondOf(conditions, n) = None <=> NamedIn(n, warnings)
<1>1. CASE CondOf(conditions, n) = None
  <2>1. PICK k \in DOMAIN written : written[k].rule = n
    BY AllWritten DEF Pipeline, Reported
  <2>2. written[k].condition = None
    BY <1>1, <2>1 DEF Pipeline, Emitted, Entered
  <2> QED BY <1>1, <2>1, <2>2 DEF Warned
<1>2. CASE NamedIn(n, warnings)
  BY <1>2 DEF NamedIn, Warned
<1> QED BY <1>1, <1>2

LEMMA DeliveredIsAccount ==
    ASSUME Pipeline, Warned, Delivered, stage = "exit", shown # Blank, Decompiles
    PROVE  /\ \A n \in DOMAIN file.rules : Once(shown.rules, n)
           /\ \A k \in DOMAIN shown.rules : Account(shown.rules[k])
<1> USE DEF Pipeline
<1>1. /\ phase = "done" /\ shown = TheText
      /\ told = IF args.format = "yara" /\ ~ args.quiet THEN warnings ELSE <<>>
  BY DEF Delivered
<1>2. \A n : Condition(n) = CondOf(conditions, n)
  BY DEF Condition, CondOf
<1>3. \A n \in DOMAIN file.rules : CondOf(conditions, n) = None <=> NamedIn(n, warnings)
  BY <1>1, WarnedJust
<1>4. warnings \o <<>> = warnings /\ <<>> \o warnings = warnings
  BY NoneBefore DEF Warned
<1>5. CASE args.format = "json"
  <2>1. shown.form = "json" /\ shown.rules = JsonRules /\ told \o shown.warnings = warnings
    BY <1>1, <1>4, <1>5 DEF TheText, Text
  <2>2. DOMAIN JsonRules = DOMAIN file.rules
    BY DEF JsonRules
  <2>3. \A n \in DOMAIN file.rules : JsonRules[n].rule = n /\ JsonRules[n].condition = CondOf(conditions, n)
    BY <1>2 DEF JsonRules
  <2>4. ASSUME NEW n \in DOMAIN file.rules PROVE Once(JsonRules, n)
    <3>1. {k \in DOMAIN JsonRules : JsonRules[k].rule = n} = {n}
      BY <2>2, <2>3
    <3> QED BY <3>1, FS_Singleton DEF Once
  <2> QED BY <2>1, <2>2, <2>3, <2>4, <1>3 DEF Account
<1>6. CASE args.format = "yara"
  <2>1. /\ shown.form = "yara" /\ shown.rules = SourceRules
        /\ ~ args.quiet => told \o shown.warnings = warnings
    BY <1>1, <1>4, <1>6 DEF TheText, Text
  <2>2. DOMAIN SourceRules = DOMAIN written
    BY DEF SourceRules
  <2>3. \A k \in DOMAIN written :
          /\ SourceRules[k].rule = written[k].rule /\ SourceRules[k].condition = written[k].condition
          /\ SourceRules[k].listing = Listing(written[k].rule)
    BY DEF SourceRules
  <2>4. \A k \in DOMAIN written : written[k].rule \in DOMAIN file.rules
                                  /\ written[k].condition = CondOf(conditions, written[k].rule)
    BY DEF Emitted, Entered
  <2>5. ASSUME NEW n \in DOMAIN file.rules PROVE Once(SourceRules, n)
    <3>1. {k \in DOMAIN SourceRules : SourceRules[k].rule = n} = {k \in DOMAIN written : written[k].rule = n}
      BY <2>2, <2>3
    <3>2. Once(written, n)
      BY <1>1, AllWritten DEF Reported
    <3> QED BY <3>1, <3>2 DEF Once
  <2>6. ASSUME NEW k \in DOMAIN written PROVE Account(SourceRules[k])
    <3> DEFINE n == written[k].rule
    <3>1. n \in DOMAIN file.rules /\ SourceRules[k].rule = n /\ SourceRules[k].condition = CondOf(conditions, n)
          /\ SourceRules[k].listing = Listing(n)
      BY <2>3, <2>4
    <3> HIDE DEF n
    <3>2. ASSUME args.listing, CondOf(conditions, n) = None, file.body # <<>>
          PROVE  Listing(n) = file.body[n]
      <4>1. BodyOf(n) = file.body[n]
        BY <1>1, <3>1, <3>2 DEF Bodied
      <4> QED BY <1>2, <3>2, <4>1 DEF Listing
    <3> QED BY <1>3, <2>1, <3>1, <3>2 DEF Account
  <2> QED BY <2>1, <2>2, <2>5, <2>6
<1> QED BY <1>5, <1>6 DEF Decompiles

(* In what is delivered each rule stands once; one without its condition   *)
(* is named by a warning, and no other; and the listing in the place of a  *)
(* condition is of the rule's own code (decompile, render_all, main).      *)
THEOREM NoSilentLossHolds == NotesAreLists => (MainSpec => []NoSilentLoss)
<1> SUFFICES ASSUME NotesAreLists PROVE MainSpec => []NoSilentLoss
  OBVIOUS
<1> DEFINE I == Pipeline /\ Sorted /\ Warned /\ Delivered
<1>1. MainInit => I
  BY InitPipeline, InitSorted, InitCounted, InitDelivered
<1>2. I /\ [MainNext]_allVars => I'
  BY StepPipeline, StepSorted, StepCounted, StepDelivered, MainStep DEF Pipeline
<1>3. I => NoSilentLoss
  BY DeliveredIsAccount DEF NoSilentLoss, Once
<1> QED BY <1>1, <1>2, <1>3, PTL DEF MainSpec
=============================================================================
