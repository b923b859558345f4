------------------------------ MODULE Decompile ------------------------------
(***************************************************************************)
(* From a compiled file to source text, rule by rule: decompile            *)
(* (decompile.py) with disassemble and split_rule_bodies (code.py) and     *)
(* render_all (emit.py).  CommandLine puts main (cli.py) around it.        *)
(*                                                                         *)
(* The code section is disassembled, cut into the bodies of the rules at   *)
(* INIT_RULE and MATCH_RULE, and each rule's body is handed to the         *)
(* condition recovery.  The rules are then written by namespace.  Here the *)
(* instructions are units (decode's widths are in ReSection's style), and  *)
(* what the condition recovery (module Condition) returns for a body is    *)
(* the operator ConditionOf.                                               *)
(***************************************************************************)
EXTENDS Naturals, Sequences, FiniteSets, SequencesExt

CONSTANTS
    ConditionOf(_),  \* body -> [text, notes], text = None if it is not recovered
    None,            \* Python's None
    Files            \* the files a run starts from

(* A file is its code, the rules of its table in order, with the namespace *)
(* of each and the rules that it refers to, and, for the checks only, the  *)
(* body that each rule was compiled to.  Rules are numbered from 1.        *)
(* An instruction is its opcode, an operand and its offset; UNKNOWN stands *)
(* for bytes that decode raises on, an opcode that does not exist or an    *)
(* operand cut short.                                                      *)
Instr == [op : STRING, arg : Nat, at : Nat]
RuleEntry == [name : STRING, ns : STRING, refs : SUBSET Nat]

ASSUME DecompileAssumption ==
    /\ None \notin Nat
    /\ \A f \in Files :
        /\ f.code \in Seq(Instr) /\ f.rules \in Seq(RuleEntry)
        /\ f.body \in Seq(Seq(Instr))
        /\ \A a, b \in DOMAIN f.code : a < b => f.code[a].at < f.code[b].at

(* What the compiler guarantees: a rule refers only to rules before it in  *)
(* its namespace; and if the code is compiled (there is a body for each    *)
(* rule), a rule's body stands between its INIT_RULE, the only one, and    *)
(* the next MATCH_RULE, and the code decodes and ends at its first HALT.   *)
Markers == {"INIT_RULE", "MATCH_RULE", "HALT"}

Inits(f, n, i) == f.code[i].op = "INIT_RULE" /\ f.code[i].arg = n

BodyAt(f, n, i, j) ==
    /\ i < j /\ Inits(f, n, i) /\ f.code[j].op = "MATCH_RULE"
    /\ \A k \in i + 1 .. j - 1 : f.code[k].op \notin Markers
    /\ f.body[n] = SubSeq(f.code, i + 1, j - 1)

Laid(f) ==
    /\ Len(f.body) = Len(f.rules)
    /\ \A k \in DOMAIN f.code : f.code[k].op # "UNKNOWN" /\ (f.code[k].op = "HALT" => k = Len(f.code))
    /\ \A n \in DOMAIN f.rules :
         /\ \E i, j \in DOMAIN f.code : BodyAt(f, n, i, j)
         /\ \A i, j \in DOMAIN f.code : Inits(f, n, i) /\ Inits(f, n, j) => i = j

ASSUME CompilerAssumption ==
    \A f \in Files :
        /\ \A n \in DOMAIN f.rules : \A m \in f.rules[n].refs :
             m \in 1 .. n - 1 /\ f.rules[m].ns = f.rules[n].ns
        /\ f.body # <<>> => Laid(f)

VARIABLES
    file,       \* the file
    phase,      \* the stage of the pipeline
    off,        \* the next instruction to decode or to sort
    instrs,     \* the instructions decoded
    imports,    \* CompiledRules.imports
    current,    \* split_rule_bodies: the rule whose body is open
    buf,        \*    and what it holds so far
    bodies,     \*    rule -> body, of the rules that have one
    conditions, \* Rule.condition, of the rules done
    warnings,   \* the warnings, in order: [rule, note]
    written     \* the rules written, in order: [rule, condition]

vars == <<file, phase, off, instrs, imports, current, buf, bodies, conditions, warnings, written>>

-----------------------------------------------------------------------------
Init ==
    /\ file \in Files
    /\ phase = IF file.code = <<>> THEN "emit" ELSE "decode"
    /\ off = 1 /\ instrs = <<>> /\ imports = <<>>
    /\ current = None /\ buf = <<>> /\ bodies = <<>>
    /\ conditions = <<>> /\ warnings = <<>> /\ written = <<>>

(* disassemble: to the end of the code or to HALT, whichever comes first.  *)
Here == file.code[off]

DecodeInstr ==
    /\ phase = "decode" /\ off <= Len(file.code) /\ Here.op # "UNKNOWN"
    /\ instrs' = Append(instrs, Here)
    /\ off' = IF Here.op = "HALT" THEN Len(file.code) + 1 ELSE off + 1
    /\ UNCHANGED <<file, phase, imports, current, buf, bodies, conditions, warnings, written>>

(* decode raises and nobody catches it: main ends with a traceback.        *)
DecodeRaise ==
    /\ phase = "decode" /\ off <= Len(file.code) /\ Here.op = "UNKNOWN"
    /\ phase' = "raised"
    /\ UNCHANGED <<file, off, instrs, imports, current, buf, bodies, conditions, warnings, written>>

(* _recover_imports: the modules named by IMPORT, each once; the operand 0 *)
(* stands for one that names nothing.                                      *)
Named(ins, known) == ins.op = "IMPORT" /\ ins.arg # 0 /\ ins.arg \notin ToSet(known)

Imports ==
    LET known[n \in 0 .. Len(instrs)] ==
          IF n = 0 THEN <<>>
          ELSE IF Named(instrs[n], known[n - 1]) THEN Append(known[n - 1], instrs[n].arg)
          ELSE known[n - 1]
    IN known[Len(instrs)]

RecoverImports ==
    /\ phase = "decode" /\ off > Len(file.code)
    /\ imports' = Imports
    /\ phase' = "split" /\ off' = 1
    /\ UNCHANGED <<file, instrs, current, buf, bodies, conditions, warnings, written>>

-----------------------------------------------------------------------------
(* split_rule_bodies.                                                      *)
(* Mutated: a body is saved when none is open.                             *)
SavedAlways ==
    [n \in DOMAIN bodies \cup {current} |-> IF n = current THEN buf ELSE bodies[n]]

Saved == IF current = None THEN bodies
         ELSE [n \in DOMAIN bodies \cup {current} |-> IF n = current THEN buf ELSE bodies[n]]

Splitting == phase = "split" /\ off <= Len(instrs)

(* Mutated: the buffer is not emptied; the walk stays where it is.         *)
CutKeeps(next) ==
    /\ bodies' = Saved /\ current' = next /\ off' = off + 1
    /\ UNCHANGED <<file, phase, instrs, imports, buf, conditions, warnings, written>>

CutStuck(next) ==
    /\ bodies' = Saved /\ current' = next /\ buf' = <<>>
    /\ UNCHANGED <<file, phase, off, instrs, imports, conditions, warnings, written>>

Cut(next) ==
    /\ bodies' = Saved /\ current' = next /\ buf' = <<>> /\ off' = off + 1
    /\ UNCHANGED <<file, phase, instrs, imports, conditions, warnings, written>>

InitRule  == Splitting /\ instrs[off].op = "INIT_RULE" /\ Cut(instrs[off].arg)
MatchRule == Splitting /\ instrs[off].op = "MATCH_RULE" /\ Cut(None)

BodyInstr ==
    /\ Splitting /\ instrs[off].op \notin Markers
    /\ buf' = IF current = None THEN buf ELSE Append(buf, instrs[off])
    /\ off' = off + 1
    /\ UNCHANGED <<file, phase, instrs, imports, current, bodies, conditions, warnings, written>>

SplitDone ==
    /\ phase = "split"
    /\ off <= Len(instrs) => instrs[off].op = "HALT"
    /\ bodies' = Saved /\ phase' = "conditions"
    /\ UNCHANGED <<file, off, instrs, imports, current, buf, conditions, warnings, written>>

-----------------------------------------------------------------------------
(* The loop of decompile over the rules.                                   *)
(* Mutated: bodies in the order of the table instead of by rule.           *)
BodyOfPlace(n) ==
    IF n \in DOMAIN bodies
      THEN bodies[CHOOSE m \in DOMAIN bodies : \A k \in DOMAIN bodies : m <= k] ELSE <<>>

BodyOf(n) == IF n \in DOMAIN bodies THEN bodies[n] ELSE <<>>

Notes(n, notes) == [k \in 1 .. Len(notes) |-> [rule |-> n, note |-> notes[k]]]

RecoverCondition ==
    /\ phase = "conditions" /\ Len(conditions) < Len(file.rules)
    /\ LET n      == Len(conditions) + 1
           result == ConditionOf(BodyOf(n))
       IN /\ conditions' = Append(conditions, result.text)
          /\ warnings' = IF result.text = None THEN warnings \o Notes(n, result.notes) ELSE warnings
    /\ UNCHANGED <<file, phase, off, instrs, imports, current, buf, bodies, written>>

ConditionsDone ==
    /\ phase = "conditions" /\ Len(conditions) = Len(file.rules)
    /\ phase' = "emit"
    /\ UNCHANGED <<file, off, instrs, imports, current, buf, bodies, conditions, warnings, written>>

-----------------------------------------------------------------------------
(* render_all: the namespaces in the order of their first rule, and under  *)
(* each its rules in the order of the table.                               *)
FirstOf(n) == Min({m \in 1 .. n : file.rules[m].ns = file.rules[n].ns})

(* Mutated: the later rules first.                                         *)
BeforeLate(m, n) == FirstOf(m) < FirstOf(n) \/ (FirstOf(m) = FirstOf(n) /\ m > n)

Before(m, n) == FirstOf(m) < FirstOf(n) \/ (FirstOf(m) = FirstOf(n) /\ m < n)

Unwritten   == DOMAIN file.rules \ {written[k].rule : k \in DOMAIN written}
Foremost(n) == \A m \in Unwritten \ {n} : Before(n, m)

Condition(n) == IF n <= Len(conditions) THEN conditions[n] ELSE None

(* Mutated: a placeholder is written without a word.                       *)
WriteRuleQuiet ==
    /\ phase = "emit"
    /\ \E n \in Unwritten : Foremost(n) /\ written' = Append(written, [rule |-> n, condition |-> Condition(n)])
    /\ UNCHANGED <<file, phase, off, instrs, imports, current, buf, bodies, conditions, warnings>>

WriteRule ==
    /\ phase = "emit"
    /\ \E n \in Unwritten :
         /\ Foremost(n)
         /\ written' = Append(written, [rule |-> n, condition |-> Condition(n)])
         /\ warnings' = IF Condition(n) # None THEN warnings
                        ELSE Append(warnings, [rule |-> n, note |-> "placeholder"])
    /\ UNCHANGED <<file, phase, off, instrs, imports, current, buf, bodies, conditions>>

WriteDone ==
    /\ phase = "emit" /\ Len(written) = Len(file.rules)
    /\ phase' = "done"
    /\ UNCHANGED <<file, off, instrs, imports, current, buf, bodies, conditions, warnings, written>>

Next ==
    \/ DecodeInstr \/ DecodeRaise \/ RecoverImports
    \/ InitRule \/ MatchRule \/ BodyInstr \/ SplitDone
    \/ RecoverCondition \/ ConditionsDone \/ WriteRule \/ WriteDone

Spec == Init /\ [][Next]_vars /\ WF_vars(Next)

-----------------------------------------------------------------------------
(* Properties.                                                             *)
TypeOK ==
    /\ phase \in {"decode", "split", "conditions", "emit", "done", "raised"}
    /\ off \in 1 .. Len(file.code) + 1
    /\ instrs \in Seq(Instr) /\ imports \in Seq(Nat)
    /\ current \in Nat \cup {None} /\ buf \in Seq(Instr)
    /\ DOMAIN bodies \subseteq Nat /\ \A n \in DOMAIN bodies : bodies[n] \in Seq(Instr)
    /\ Len(conditions) <= Len(file.rules)
    /\ written \in Seq([rule : 1 .. Len(file.rules), condition : {conditions[n] : n \in DOMAIN conditions} \cup {None}])

(* split_rule_bodies gives no instruction to two rules, whatever the code, *)
(* and no body an INIT_RULE, a MATCH_RULE or a HALT.                       *)
Split == phase \in {"conditions", "emit", "done"}

BodiesDisjoint ==
    Split => \A n \in DOMAIN bodies :
        /\ \A k \in DOMAIN bodies[n] : bodies[n][k].op \notin Markers
        /\ \A m \in DOMAIN bodies \ {n} : ToSet(bodies[n]) \cap ToSet(bodies[m]) = {}

(* Every rule is written once, with the condition recovered from the code  *)
(* that it was compiled to: no rule is dropped by the grouping, and none   *)
(* gets the body of another.                                               *)
EachRuleItsCondition ==
    phase = "done" /\ file.body # <<>> =>
        /\ \A n \in 1 .. Len(file.rules) : Cardinality({k \in DOMAIN written : written[k].rule = n}) = 1
        /\ \A k \in DOMAIN written : written[k].condition = ConditionOf(file.body[written[k].rule]).text

(* A rule that refers to another of its namespace is written after it, as  *)
(* YARA wants: the grouping keeps the order of the table.                  *)
ReferencesPrecede ==
    \A k \in DOMAIN written : \A m \in file.rules[written[k].rule].refs :
        \E j \in 1 .. k - 1 : written[j].rule = m
=============================================================================
