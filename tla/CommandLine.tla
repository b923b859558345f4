----------------------------- MODULE CommandLine -----------------------------
(***************************************************************************)
(* The command line (cli.py, main) around the stages of Decompile: it      *)
(* opens the file, makes one of four texts of it, delivers the text, then  *)
(* the warnings, and ends with an exit status.                             *)
(*                                                                         *)
(* What opening a file comes to is an input here (RulesTable models how):  *)
(* the exception that a damage raises, and in which reader.                *)
(***************************************************************************)
EXTENDS Decompile

CONSTANT Invocations   \* the calls of main a run starts from

Format == {"yara", "json", "disasm", "info"}

(* The file cannot be read at all, is of another version, is no arena, has *)
(* a bad relocation list, or has bad tables.                               *)
Opens == {"whole", "missing", "unreadable", "unsupported", "corrupt", "relocations", "tables"}

(* Where the text goes; "closed" is a pipe whose reader has gone.          *)
Sink == {"open", "closed", "unwritable"}

ASSUME CommandLineAssumption ==
    /\ \A a \in Invocations :
         /\ DOMAIN a = {"file", "opens", "format", "lenient", "quiet", "listing", "sink"}
         /\ a.file \in Files /\ a.opens \in Opens /\ a.format \in Format /\ a.sink \in Sink
         /\ {a.lenient, a.quiet, a.listing} \subseteq BOOLEAN

VARIABLES
    args,      \* the invocation
    stage,     \* where main is
    output,    \* the text made
    shown,     \* the text delivered
    told,      \* the warnings on stderr
    status     \* the exit status, None before

mainVars == <<args, stage, output, shown, told, status>>
allVars  == <<vars, mainVars>>

-----------------------------------------------------------------------------
(* A text: what each format holds that the properties tell apart.  The     *)
(* blank one stands for a text that is not made, or not delivered.         *)
Text(form, rules, listing, notes) ==
    [form |-> form, rules |-> rules, listing |-> listing, warnings |-> notes]

Blank == Text("none", <<>>, <<>>, <<>>)

(* Only the two formats that decompile take the flags of the reader: info  *)
(* and disasm open the file strictly, and do not look into its tables.     *)
Decompiles == args.format \in {"yara", "json"}
Strict     == ~ Decompiles \/ ~ args.lenient

Refused ==
    \/ args.opens \in {"missing", "unreadable", "unsupported", "corrupt"}
    \/ args.opens = "relocations" /\ Strict
    \/ args.opens = "tables" /\ Decompiles

(* UnsupportedVersionError is an ArenaError, and is caught before it; an   *)
(* exception that main does not catch ends Python with 1.                  *)
Uncaught == 1

StatusOf == CASE args.opens = "unsupported" -> 3
              [] args.opens = "unreadable"  -> Uncaught
              [] OTHER                      -> 2

Exit(code_) == stage' = "exit" /\ status' = code_

MainInit ==
    /\ args \in Invocations
    /\ file = args.file /\ Init
    /\ stage = "open" /\ output = Blank /\ shown = Blank /\ told = <<>> /\ status = None

Refuse ==
    /\ stage = "open" /\ Refused
    /\ Exit(StatusOf)
    /\ UNCHANGED <<vars, args, output, shown, told>>

Open ==
    /\ stage = "open" /\ ~ Refused /\ args.format # "info"
    /\ stage' = IF Decompiles THEN "decompile" ELSE "disassemble"
    /\ UNCHANGED <<vars, args, output, shown, told, status>>

Make(text) == output' = text /\ stage' = "deliver" /\ UNCHANGED <<vars, args, shown, told, status>>

(* _cmd_info: the sizes of the buffers, none of what the others show.      *)
Info ==
    /\ stage = "open" /\ ~ Refused /\ args.format = "info"
    /\ Make(Text("info", <<>>, <<>>, <<>>))

(* _cmd_disasm: the whole code, to its end or to HALT.                     *)
Disassemble ==
    /\ stage = "disassemble" /\ DecodeInstr
    /\ UNCHANGED mainVars

Disassembled ==
    /\ stage = "disassemble" /\ phase # "raised" /\ off > Len(file.code)
    /\ Make(Text("disasm", <<>>, instrs, <<>>))

(* decompile, step by step.                                                *)
Decompiling ==
    /\ stage = "decompile" /\ Next
    /\ UNCHANGED mainVars

(* The text that decompile made, and _to_json: the rules in the order of   *)
(* the table, and the warnings in the text itself.                         *)
Listing(n) == IF Condition(n) = None /\ args.listing THEN BodyOf(n) ELSE <<>>

SourceRules ==
    [k \in DOMAIN written |->
       [rule |-> written[k].rule, condition |-> written[k].condition,
        listing |-> Listing(written[k].rule)]]

JsonRules ==
    [n \in DOMAIN file.rules |-> [rule |-> n, condition |-> Condition(n), listing |-> <<>>]]

Decompiled ==
    /\ stage = "decompile" /\ phase = "done"
    /\ Make(IF args.format = "json" THEN Text("json", JsonRules, <<>>, warnings)
                                    ELSE Text("yara", SourceRules, <<>>, <<>>))

(* decode's exceptions pass through decompile and _cmd_disasm, and main.   *)
RaiseDisassembling ==
    /\ stage = "disassemble" /\ DecodeRaise
    /\ UNCHANGED mainVars

TracebackCaught ==  \* _cmd_disasm shows what was decoded so far
    /\ phase = "raised"
    /\ \/ stage = "disassemble" /\ Make(Text("disasm", <<>>, instrs, <<>>))
       \/ stage = "decompile" /\ Exit(Uncaught) /\ UNCHANGED <<vars, args, output, shown, told>>

Traceback ==
    /\ stage \in {"disassemble", "decompile"} /\ phase = "raised"
    /\ Exit(Uncaught)
    /\ UNCHANGED <<vars, args, output, shown, told>>

-----------------------------------------------------------------------------
(* The text goes to the file of -o or is printed.  Python buffers: a       *)
(* closed pipe is noticed at once, and main returns, or only at the end.   *)
Deliver ==
    /\ stage = "deliver" /\ args.sink # "unwritable"
    /\ shown' = IF args.sink = "open" THEN output ELSE Blank
    /\ stage' = "warn"
    /\ UNCHANGED <<vars, args, output, told, status>>

BrokenPipe ==
    /\ stage = "deliver" /\ args.sink = "closed"
    /\ Exit(0)
    /\ UNCHANGED <<vars, args, output, shown, told>>

(* write_text raises an OSError, which main does not catch.                *)
Unwritable ==
    /\ stage = "deliver" /\ args.sink = "unwritable"
    /\ Exit(Uncaught)
    /\ UNCHANGED <<vars, args, output, shown, told>>

Warn ==
    /\ stage = "warn"
    /\ told' = IF args.format = "yara" /\ ~ args.quiet THEN warnings ELSE told
    /\ Exit(0)
    /\ UNCHANGED <<vars, args, output, shown>>

MainNext ==
    \/ Refuse \/ Open \/ Info
    \/ Disassemble \/ RaiseDisassembling \/ Disassembled
    \/ Decompiling \/ Decompiled \/ Traceback
    \/ Deliver \/ BrokenPipe \/ Unwritable \/ Warn

MainSpec == MainInit /\ [][MainNext]_allVars /\ WF_allVars(MainNext)

-----------------------------------------------------------------------------
MainTypeOK ==
    /\ TypeOK
    /\ stage \in {"open", "disassemble", "decompile", "deliver", "warn", "exit"}
    /\ status \in {None, 0, 1, 2, 3} /\ (stage = "exit" <=> status # None)
    /\ shown \in {Blank, output}

(* "Warnings go to stderr, so yaradec x.yarc > out.yar gives clean source  *)
(* while you still see what was lossy" (README.md): in a text that was     *)
(* delivered each rule of the file stands once; a rule without its         *)
(* condition is named by a warning, and no other is, on stderr or in the   *)
(* JSON text; and its listing is of the code that it was compiled to.      *)
NamedIn(n, notes) == \E k \in DOMAIN notes : notes[k].rule = n

Account(entry) ==
    /\ (shown.form = "json" \/ ~ args.quiet) =>
         (entry.condition = None <=> NamedIn(entry.rule, told \o shown.warnings))
    /\ (shown.form = "yara" /\ args.listing /\ entry.condition = None /\ file.body # <<>>) =>
         entry.listing = file.body[entry.rule]

NoSilentLoss ==
    stage = "exit" /\ shown # Blank /\ Decompiles =>
        /\ \A n \in DOMAIN file.rules :
             Cardinality({k \in DOMAIN shown.rules : shown.rules[k].rule = n}) = 1
        /\ \A k \in DOMAIN shown.rules : Account(shown.rules[k])

(* The exit status tells what became of the text: with 0 it was delivered  *)
(* whole (or nobody was there to read it), all of the code in a listing    *)
(* and every rule in a source; with another nothing was, so that no part   *)
(* of a text is taken for the whole.                                       *)
WholeText(text) ==
    /\ Decompiles => Len(text.rules) = Len(file.rules)
    /\ args.format = "disasm" =>
         /\ IsPrefix(text.listing, file.code)
         /\ text.listing = file.code \/ Last(text.listing).op = "HALT"

StatusTells ==
    stage = "exit" =>
        /\ status # 0 => shown = Blank /\ told = <<>>
        /\ status = 0 /\ args.sink = "open" => shown # Blank /\ WholeText(shown)

(* main ends, whatever the file and the flags.                             *)
MainEnds == <>(stage = "exit")
=============================================================================
