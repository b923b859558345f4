# A verification project for YARAdec

YARAdec reads a *compiled* YARA rule file (libyara 4.3 to 4.5) and writes back
rule source.  The code is a sequential pipeline without threads, timers or
persistent state; what makes it hard is that every stage is an interpretation
of bytes another program wrote, that several stages walk the same bytes under
different assumptions, and that each stage may give up half way while the next
one goes on with what is left.  This directory models those stages in TLA+,
checks them with TLC on small instances, and proves about them with TLAPS.

## 1. Inventory

| component | source | state it keeps | operations |
|---|---|---|---|
| arena | `arena.py` | buffers, relocation set | `parse`, `_parse_relocations`, `buffer`, `read`, `cstring`, `cstring_list`, `sized_string` |
| tables | `parser.py`, `constants.py` | `CompiledRules`: namespaces, rules, strings, metas | `parse_namespaces`, `parse_metas`, `parse_strings`, `parse_rules` |
| pattern linking | `acmatch.py`, `decompile.py` | string -> forward/backward offsets | `collect_string_code`, `_recover_patterns` |
| RE section walk | `repattern.py` (to line 181) | offset, current start, segments | `decode_instr`, `segment_programs`, `program_containing`, `disassemble_program` |
| RE rendering | `repattern.py` (from 183) | pieces of hex or regex text, exactness flag | `render_hex`, `_RegexRenderer`, `literal_runs` |
| base64 | `b64.py` | none (pure) | `expand`, `recover` |
| condition recovery | `code.py` | operand stack, notes, `complete`, bindings, recursion depth | `run`, `_recover_loop`, `_sub_run`, `run_multi`, `_recover_of`, `_recover_call`, `_find_loops` |
| code walk | `code.py` | instruction list, per-rule bodies | `decode`, `disassemble`, `split_rule_bodies`, `format_listing` |
| emission | `emit.py` | lines and warnings | `render_string_body`, `render_modifiers`, `render_rule`, `render_all` |
| pipeline and CLI | `decompile.py`, `cli.py` | warnings, listings, exit status | `decompile`, `main`, `_cmd_info`, `_cmd_disasm`, `_to_json` |
| tools | `tools/` | none | corpus validation, round trip, constant check |

**Interaction.**  `decompile` parses the arena, then the tables, then links and
renders the patterns (mutating `YrString.rendered`), then disassembles the code
section, splits it into rule bodies and runs one `ConditionRecovery` per rule
(setting `Rule.condition`), and finally emits.  The condition recovery reaches
back into the arena (string pool) and into the RE section (`matches`
operands).  Loops recurse: `_recover_loop` runs a fresh `ConditionRecovery`
on slices of the same instruction list.  Failure travels in three ways: an
exception (`ArenaError`, `CodeError`, `ReDecodeError`), a `None` result with
`notes`, or a placeholder text (`<unrecovered>`, `<underflow>`, `?`).

**What is hard.**  Two walks of the same bytes that must agree (segmentation
and disassembly; `_find_loops` and the main loop); a stack machine replayed
*linearly* over code that the real VM executes with jumps; text built with a
precedence table that has to match another program's grammar; partial failure:
which losses reach the warnings; sentinels and literals that share one value
space (a u64 is an integer, a double, or an arena reference).

**What makes each component correct.**

* RE section walk: segments tile the walked part, each is one program, both
  walks agree, both end.
* Pattern linking: a pattern shows its own program; no loss without a warning.
* Condition recovery: the text, read back by YARA's grammar, is the expression
  that was compiled; the linear replay never pops what is not there; a
  placeholder never reaches an emitted condition; a failed loop or set fails
  the rule.
* RE rendering: the text has the language of the expression that was compiled;
  no quantifier is invented that YARA refuses; the renderer ends on any bytes.
* Base64: what is returned was encoded, or nothing is returned.
* Emission: YARA accepts the modifiers of a line together, and they are those of
  the source.
* Code walk: bodies are disjoint slices in order, one per rule.
* Pipeline and command line: every rule is written once, with a condition or
  with a listing and a warning; no loss is in neither the text nor the warnings;
  the exit status tells whether the text is whole.
* Arena: no accessor reads beyond its buffer; no relocation is put together from
  parts of others; a complete file is not refused.

## 2. Plan

Written so far, in this order, the most important behaviour first:

1. `ReSection`, `ReSectionProofs`: the walk every pattern depends on, small
   enough to be proved about completely.
2. `PatternLink`: composes `ReSection` (INSTANCE) with the pattern loop and is
   shown to implement it (`ImplementsReSection`).
3. `YaraGrammar`, `YaraCompiler`, `Condition`: the heart of the program, the
   replay of the bytecode, checked against YARA's own compiler and grammar.
   `ConditionProofs`.
4. `Decompile`: the stages around it, and what a loss in one of them becomes.
5. `Arena`, `RulesTable`: the loading of the file, damaged files included.
6. `RegexRender`, `YaraRegex`: the regexp renderer, checked against YARA's own
   compiler and reader of regexps, as `Condition` is against those of
   conditions.
7. `Base64`: `expand` and `recover` over the pairs of bits of a text.
8. `PatternText`: composes the renderer and the search with the loop of
   `_recover_patterns` and the strings section of `emit`, chained hex strings
   included; shown to implement `RegexRender` (`ImplementsRegexRender`).
   `PatternTextProofs`, about the two together.
9. `CommandLine`: `main` around `Decompile`, its formats, flags, exceptions and
   exit status.  `DecompileProofs`, about the two together.
10. The proofs about the rest: `PatternLinkProofs` (the refinement of
    `ReSection`, and the properties of the pattern loop), `RulesTableProofs`
    (buffers, relocations, types, and that the tables are read as they were
    written), `ConditionTextProofs` (what the texts of a
    condition are made of), and `CommonLemmas` for what they share.

Possible next:

11. `Decompile` with `Condition` and `PatternText` in the places of its constant
    `ConditionOf` and of its assumed strings; `PatternLink` with `PatternText`
    in one loop.

## 3. Modules, and how they correspond to the code

| module | models | extends, instantiates |
|---|---|---|
| `ReSection` | `segment_programs`, `program_containing`, `disassemble_program` | |
| `PatternLink` | `collect_string_code`, `_recover_patterns` | `ReSection` |
| `Condition` | `ConditionRecovery`, the rule loop of `decompile` for one rule | |
| `YaraCompiler` | what libyara's parser writes for an expression (external) | |
| `YaraGrammar` | how libyara's grammar reads a condition (external) | |
| `Decompile` | `disassemble`, `_recover_imports`, `split_rule_bodies`, rule loop, `render_all` | |
| `Arena` | `Arena.parse`, `_parse_relocations`, the accessors | |
| `RulesTable` | `RulesParser`, `parse_file` | `Arena` |
| `CommandLine` | `main`, `_cmd_info`, `_cmd_disasm`, `_to_json` | `Decompile` |
| `RegexRender` | `_RegexRenderer`, `_merge_pieces`, `_format_pieces`, `_needs_group`, `_class_to_str`, `render_hex` | |
| `YaraRegex` | how libyara compiles and reads a regexp (external; used by `MCPatternText`) | `RegexRender` |
| `Base64` | `expand`, `_decode_prefix`, `recover`, `_tails` | |
| `PatternText` | the texts in `_recover_patterns`, `literal_runs`, the strings section of `render_rule` | `RegexRender`, `Base64` |
| `ReSectionProofs`, `PatternLinkProofs`, `ConditionProofs`, `RulesTableProofs` | theorems | the module they are named after; `PatternLinkProofs` also an instance of `ReSectionProofs` |
| `ConditionTextProofs` | theorems | `ConditionProofs` |
| `PatternTextProofs` | theorems about the renderer and the loop around it | `PatternText` |
| `DecompileProofs` | theorems about `main` and `decompile` | `CommandLine` |
| `CommonLemmas` | lemmas on places, steps and sequences that several proofs cite | |
| `MC...` | the inputs of the runs | |

**ReSection.**  `off`, `start`, `segments` are the locals of
`segment_programs`; `at`, `out` those of `disassemble_program`; `seg` is the
request and `answer` how it ended.  `SegmentInstr` is a turn of the first loop,
with the cut after a MATCH; `SegmentDone` its two exits (end of section, byte
that does not decode).  After that callers make requests in any order:
`LocateProgram` and `LocateNothing` are the two results of
`program_containing`, `MatchesOperand` is `_regex_literal`, which skips the
four bytes of the flags word and disassembles where no segment was asked for.
Widths of opcodes are a constant, a byte is a model value; `programs` is where
the compiler put the pattern programs and no action reads it.

**PatternLink.**  `phase` is the position in `_recover_patterns`; `codeMap` is
the result of `collect_string_code`, built entry by entry (`CollectMatch`);
`i` is the pattern of the loop, `segs`, `todo`, `rendered`, `exact` the locals
of its body.  Every `continue` is an action: `SkipLiteral`, `NoMatchEntry`,
`OutsidePrograms`, and inside `Finish` the ends without a text.  `warnings`
holds pairs of a pattern and a kind of warning.  What the renderers do is
abstract: an opcode that `render_hex` rejects (`HexOp`), one that the literal
runs do not fold (`FoldOp`).  `EmitStrings` is the part of
`render_string_body` that turns a missing text into `<unrecovered>`.

**Condition.**  A Python call of `run` is a member of `frames`: a rule has one,
a loop puts a second for its iterable, then one for its body.  A frame has the
locals and fields of `ConditionRecovery` (`stack`, `bindings`, `complete`, the
position) and of the `_recover_loop` that called it.  One action per group of
opcodes in the order of the `if` chain of `run` (`Skip`, `JumpPopping`, `Push`,
`PushSlot`, `StringOp`, `Of`, `Prefixed`, `BinaryOp`, `ObjectOp`, `Call`,
`Unhandled`, ...), each with the error paths of its handler (`OfNoSet`,
`OfAnonymous`, `CallUnreadable`); for loops `EnterLoop`, `SetIterated`,
`RangeIterated`, `ValueIterated`, `IterableLost`, `BodyRecovered`, `BodyLost`;
at the end `EmitCondition` or `EmitPlaceholder`, which also is where notes
become warnings or are dropped.  `FindLoops` is `_find_loops`: a header's shape,
then the first body start, epilogue and end after it, on the frame's own slice.
`pop()` of an empty stack gives the marker `<underflow>` and clears `complete`,
as in the code.  A text is a sequence of tokens; a u64 is one number from which
buffer and offset are taken, so that a literal can be mistaken for a reference.

**YaraGrammar, YaraCompiler.**  What is not under `src/`.  The compiler lays
down the code of an expression together with the token sequence that stands for
it, fully parenthesised; the reader parses an emitted text by libyara's
precedences and puts its parentheses in the same way.  Equality of the two is
the meaning of "recovered".

**Decompile.**  `phase` is the stage; `instrs`, `imports`, `current`, `buf`,
`bodies`, `conditions`, `warnings`, `written` are the variables of the same
purpose.  An instruction has its offset in the code section (`at`), which the
decoder assigns.  `DecodeRaise` is the `CodeError` or `struct.error` that no
handler of `decompile` or `main` catches.  The result of a recovery is the
constant operator `ConditionOf`.  `CompilerAssumption` is what the compiler
guarantees: a rule refers to earlier rules of its namespace, and compiled code
(a file with bodies) has each rule's body between its only INIT_RULE and the
next MATCH_RULE.  The order in which the rules are written is built as in the
code: `FirstOf` is the first rule of a namespace, `Before` compares two rules by it and
then by their places, `Foremost` is the one of the `Unwritten` that is written next.

**CommandLine.**  `args` are the parsed arguments with the state of the file
(`opens`) and of the place the text goes to (`sink`); `stage` is the position
in `main`; `output` the text that `main` computes, `shown` what of it reached
its reader, `told` the lines on stderr, `status` the exit status.  `Refuse` is
the three `except` clauses around the opening; `Disassemble` and `Decompiling`
are the steps of `Decompile`, under the stage they are called from;
`Decompiled` makes the source or the JSON text; `Traceback` is an exception
that `main` does not catch, `BrokenPipe` the one it does.  `Strict` is the flag
the reader gets: `info` and `disasm` never pass `--lenient` on.

**RegexRender.**  `_seq` calls itself: each call in progress is a member of
`frames`, with the locals of that call (`off`, `pieces`, and `starts`, the
offsets where the pieces began) and with what the caller will do with the
result (`call`).  One action per structure that a turn of the loop recognises
(`ClosePlus`, `EnterRepeat`, `EnterStar`, `EnterAlternation`, `EnterOptional`,
`RepeatAnyUnit`, `JumpAhead`, `AtomUnit`), in the order of its tests, then the
returns (`ReturnPiece`, `ReturnLeft`, `ReturnRight`, `Rendered`).  `Abandon` is
the guard of the loop and an offset that does not decode; a call beyond
`MaxDepth` is the `RecursionError` that `render_regex` catches.  `full` is
`not unrecovered`.  A text is a sequence of tokens: a character, a class, a
parenthesis, a bar, a quantifier.

**YaraRegex.**  What is not under `src/`: `Compile` lays down the bytecode of an
expression (the splits of `*`, `+`, `?` and `|`, the prolog, repeat and optional
part of `{n,m}`), `Lang` is the set of words it matches, `Read` that of a token
sequence read by YARA's grammar, or none where YARA refuses it.  Equality of
the two languages, over words of at most `MaxWord` characters, is the meaning of
"recovered".

**Base64.**  `Recover` is the call of `recover`; `seeds`, `seed` and `tail` its
loops, one candidate length at a turn; the seeds are taken in any order because
the code iterates over a Python set of strings.  `Expanded` is `expand`,
`DecodePrefix` is `_decode_prefix`.  A text is the sequence of its pairs of bits,
four to a byte: base64 takes them three at a time and changes none, so that
`Permutation` is a choice of triples and no arithmetic.  A run of characters
that are no digits gives no seed; in the program such a seed is dropped or
leads to candidates that are all refused, because nothing that is no digit is in
an encoding.

**PatternText.**  `s` and `p` are the string and the program of the loop,
`rendered`, `exact` and `result` its locals and `YrString.rendered`.
`HexProgram`, `RegexProgram`, `SearchPlaintext` are the calls,
`RegexRendered`, `PlaintextFound`, `PlaintextNotFound` their returns, with the
modules above going on in between.  `EmitStrings` writes the visible strings
with `Body` (`render_string_body`) and `Modifiers` (`render_modifiers`).  `output` is the
line of each visible string, by its number.  With
each string comes what its author wrote, which no action reads;
`ModifierAssumption` says which modifiers YARA accepts together and to which
flags it compiles them (beside base64 flags may be set that nobody asked for);
`EncodingAssumption` that the literals in the programs of a base64 pattern are
the permutations of its text, and that base64wide puts a NUL after each digit;
`MixAssumption` that an expression of one greediness compiles to programs of one.

**Arena, RulesTable.**  The unit is a field of the file, not a byte: a header of
three cells, two per table entry, two per relocation.  `phase` goes through
header, table, buffers, relocations, summary, namespaces, strings, rules.
Every raise of an `ArenaError` is the negation of one of the read
conditions (`RaiseArenaError`, `RaiseTableError`), so a read that the code
does not check is one the model does not check either.  `strict` and `--lenient`
differ in the relocation list alone, as in the code.  The order in which strings,
metas and rules are read is the code's.  A tag list and the strings of a rule are
put in order by `Sorted`, which says where each member of a set comes.

The other side of the format is not under `src/` and is what the loading is
measured against; `file.saved` holds what was saved, and no action reads it.
`WriterAssumption` (`Written`) is how libyara saves an arena: each buffer stands
at the place its entry gives, as far as the file goes (`BufferAt`); the last ends
where the relocations begin; these stand in pairs that do not begin as the
terminator does, and a whole file ends with the terminator.  `CompilerAssumption`
(`Compiled`) is how the compiler lays out the tables in those buffers, entry
by entry (`StringAt`, `MetasAt`, `TagsAt`, `RuleAt`): names are texts with a NUL
behind them and are not empty, the last meta of a rule is marked and no other
is, tags follow each other up to an empty one, and the strings of a rule follow
each other in the table, by growing indices (`RuleStrings`).  It says what is in
the cells, never how they are read.  A corrupt file is one that need not be of
this kind.

## 4. The runs

States are distinct states; `MC` modules hold the inputs, all chosen in `Init`.

| run | inputs | states | shows |
|---|---|---|---|
| `re_section` | every section of up to 5 bytes over 5 byte values; up to 3 programs of 4 kinds, back to back | 70,924 | segments tile the walked part; each is one program; a disassembly sent to a segment stays in it; in a section of pattern programs each is found; the list settles; both loops end |
| `pattern_link` | 1,757 files: up to 2 patterns, 1 or 2 programs each, atoms anywhere in a program, stray pool entries, a `matches` operand between | 60,425 | a pattern shows its own program; without a warning it is exact; a pattern that was linked is rendered; every request is one of `ReSection` |
| `pattern_text` | rules of one string (every expression of the list below, hex strings, modifiers, plaintexts), every pair of 8 kinds of strings, programs of three arbitrary instructions | 11,364 | a text written without a warning has the language of its source; no greediness is invented; an unambiguous plaintext is found exactly; the modifiers are kept; each turn of the renderer advances; each rendering is one of `RegexRender`; the loop ends |
| `condition` | 1,311 conditions from the compiler; 6,000 codes, snippets in any order | 43,675 | each compiled rule gets a condition, and YARA reads it as what was compiled; the recovery ends; loops never nest; no underflow comes out of code without a loop; an invented variable stays in its loop |
| `pipeline` | with the default flags: up to 3 rules, 2 namespaces, lost bodies, references, any code of up to 4 instructions; 5 files with every format, flag, state of the file and of the output | 62,867 | bodies are disjoint; each rule is written once with its own condition, after what it refers to; each loss, and only a loss, is named by a warning that arrives; the exit status tells whether the text is whole; `main` ends |
| `load` | 1,311 files: whole, cut after every cell, every cell replaced by 0, 40 or all ones; strict and lenient | 17,380 | buffers are whole; what is loaded is what was saved; relocations are saved ones; no complete file is refused; every reading ends |

Six runs end in a counterexample, and each of them is a disagreement of the
code with what its documents or comments say (section 7).

**The bounds, and why they are enough.**

* RE section, 5 bytes: the widest opcode takes 3, so that five hold a whole
  instruction, one cut short at the end, a MATCH as an operand and a second
  program.  Beyond that the theorems hold for every section and opcode table.
* Patterns: two are enough for one to take the other's program; two forward
  programs for the shown one to differ from the dropped one; an atom at
  offset 0, inside, and on the MATCH itself.
* Conditions: every pair of a parent and a child operator on either side (the
  parenthesising looks at one level only), every set with every quantifier,
  every loop form with a body of each kind that uses its variable, and two
  loops one after the other, which reuse the slots.  Conjunctions nest three
  deep because jumps make `and` and `or` overlap.  `Dword = 64` leaves room
  for literals beyond one half and for each buffer number.
* Any code: three snippets of 12 kinds, five of loops, four of sets and broken
  loops: a second header, epilogue or end before, inside and after a loop.
  Nesting is a theorem for every code.
* Pattern texts: three characters, of which one is the newline, tell a class
  from its complement and "." from "any"; words of four tell `{2,4}` from its
  neighbours, and sums of two quantifiers.  Bounds stop at `MaxRange = 9` with
  `Inf = 19` where YARA has 32767 and the code 65535 for "no bound": what counts
  is that the sum of two bounds is below `Inf` and may be above
  `MaxRange`.  Expressions
  nest quantifiers, stand them side by side and put them in branches, in either
  greediness; one nests four deep, to meet `MaxDepth = 4`, which stands for
  Python's recursion limit.  `MaxTurns = 300`, for 100000, is never reached,
  which is a theorem.
* Base64: a pair of bits has two values in the runs, so that a byte has 16 and
  there are eight digits.  The plaintexts leave every remainder modulo 3 and
  include those that are ambiguous for each of the reasons in `Unambiguous`: two
  permutations are one, all digits are the same, a byte has two equal halves.
  The theorems hold for any length and any number of values.
* Pipeline: three rules are needed for one of another namespace to stand
  between two that refer to each other.
* Load: two rules of up to four metas and two strings, so that the last-meta
  mark, rule indices and chains can be confused; `MaxMetas` is 2 where the code
  has 4096, so the limit is met on both sides (a list of three is accepted, one
  of four refused; the code accepts 4097 and refuses 4098).

**Fairness.**  The program is one thread and waits for nothing.  Every
specification asks for weak fairness of the program's own steps only: a loop
that can take its next turn takes it.  `ReSection` asks for none of `Request`,
`RegexRender` for none of `Start`: no caller is obliged to come back.
`Condition`, `PatternText` and `RulesTable` stutter when they are over;
`PatternLink` and `CommandLine` stop (`CHECK_DEADLOCK FALSE`), which is what the
program does; `ReSection` always has a next request.

**Mutants.**  For every property of a passing run PROJECT.json names a plausible
error in the code (a dropped guard, a missing reset, an off-by-one) under which
the run violates it.

## 5. Proofs

The theorems hold for every value of the constants, from the assumptions named
beside them.

**`ReSectionProofs`** (from `ReSectionAssumption`: opcodes are bytes, MATCH is
an opcode of width 1, widths are positive).

* `TypeCorrect`: the type invariant is inductive.
* `SegmentsTileHolds`, `SegmentsAreProgramsHolds`: that the segments are
  programs is not inductive: nothing says what lies between `start` and `off`
  when the next MATCH is met.  `Walking` says it: there is a set of offsets
  from `start` to `off`, closed under going to the next instruction, with no
  MATCH in it.  A step extends the set (`WalkGrows`), a MATCH closes it.
  A set instead of a recursive definition is what keeps this in reach of the
  prover.
* `DisassemblyStaysInSegmentHolds`: `Disassembling` says that the offset
  reached is in the set of the requested segment; as that set is closed, the
  next instruction decodes and ends in it.  It follows that the handlers of
  `ReDecodeError` in `_recover_patterns` are never entered.
* `EveryProgramSegmentedHolds`, under `OnlyPrograms` (the section holds
  nothing but pattern programs): `Laid` says that `start` is a cut of the
  layout and that all programs before it are listed.  The assumption is the
  one that a `matches` operand breaks (run `re_section_matches`).
* `SegmentsSettleHolds`: the action property, from the type invariant.
* `OneSegmentHolds`: an offset is in one segment at most, so that it does not
  matter that `program_containing` takes the first.  From `SegmentsTile` it would
  take an induction over the list; as an invariant (`Apart`: each segment ends
  before the next ones begin and before `start`) it needs none.

**`CommonLemmas`** (from nothing).  An induction is not to be had here: the
library's theorems take an operator as a parameter.  In its place stands the
argument by the least counterexample: that the naturals are well-founded gives the
first and the last place of a set (`MinOfPlaces`, `MaxOfPlaces`), from which a
set that goes down with each of its members is empty, and a function that is
defined step by step (`Joined`, `Left`, the list of imports) exists and stays in
any set its steps do not leave.  The other lemmas are about sequences whose
elements have no type (`OwnSeq`).

**`PatternLinkProofs`** (from `PatternLinkAssumption`: the assumption of
`ReSection`, and the types of the fields of a file).

* `TypeOKHolds`: the type invariant.
* `ImplementsReSectionHolds`: each step is a step of the walks, a request or
  neither.  What has to be shown is that a request is for an offset of the
  section: `Asked` says that what waits to be disassembled are segments, and
  a segment, being a program, begins with an instruction.  The invariants of
  `ReSection` are needed for that before the refinement is known, and are taken
  as the inductive lemmas of `ReSectionProofs`, step by step.
* `OwnProgramShownHolds`: `Collected` says that what is collected for a pattern
  lies in its programs, `Taken` that what waits, is being disassembled, was
  rendered or is shown are segments around something collected.  As every
  program is a segment (`EveryProgramSegmentedHolds`) and no offset is in two
  (`OneSegmentHolds`), that segment is the pattern's own program.  The theorem
  assumes of the compiler that the section is a row of pattern programs
  (`OnlyPrograms`) and that atoms resume in programs of their pattern
  (`FilesLinked`); the run also has files that break the first.
* `NothingLostInSilenceHolds`, for every file: a pattern without a text has a
  warning, and so has one whose text is not the exact text of the only segment
  found for it.  `Rendering` follows the inner loop: the segments of the
  pattern are those that wait, the one under way and those rendered, and `exact`
  speaks of all of the last.  `Settled` keeps what the loop left behind;
  warnings are never taken back.
* `UnwarnedIsFaithfulHolds`, under the two assumptions on the compiler: the
  segment of which the last theorem speaks is then the pattern's only program
  that an atom resumes in (`ForwardIsTaken`: each of these is among the segments
  taken).
* `EveryLinkedPatternRenderedHolds`: `Reached` says that the loop has passed over
  no pattern a segment was found for.

**`RulesTableProofs`** (from `ArenaAssumption`: cells are numbers; for the
relocations also `WriterAssumption`, how YARA saves a file; for the tables also
`CompilerAssumption`, what it compiles them to, and `MaxMetasAssumption`).  TLC
evaluates the assumptions for each file of the run `load`.

* `BuffersWholeHolds`: `Cut` adds that the header was checked before the table
  is read, so that the table has numbers in it; an empty entry may lie beyond
  the end of the file, where the slice is empty as well (`SliceWhole`).
* `TypeOKHolds`: for any file, however damaged, each cell that is read is a
  cell of the file or of a buffer, because each reader looks first.
* `RelocationsSavedHolds`: the walk begins where the last buffer ends, which is
  where the writer put the relocations (`EndIsSaved`), and goes in pairs:
  `WalkedTo(i)` says that i pairs lie behind it and are what was collected.  A file
  that was cut ends the walk in front of a pair, or in one, which is then
  left; a whole one has its terminator after the last pair and nowhere else.
* `LoadedAsSavedHolds`: `AsSaved` adds to what is loaded in the end that on the way
  each list is a beginning of the one that was saved (`Begins`), that the sizes in the
  summary are the saved ones, and that the buffers are those that were
  saved (`CutAsSaved`: an intact buffer is cut out as it is, and one that is cut
  short is refused before).  Each turn of a reader then reads one more entry
  as it was saved (`NamespaceHeld`, `StringHeld`, `RuleHeld`), from lemmas about the
  accessors on the buffers of a compiled file (`Holds`): a text is read up to
  its own NUL (`TextHeld`), a tag list from its places, which rise and are all the
  starts there are (`PlacesRise`, `PlacesCover`, `ListHeld`), a list of metas
  up to its mark and not beyond, since every type in it is known
  (`NumMetasHeld`), and the strings of a rule as a stretch of the table
  (`StringsHeld`).  `SortedIs` is the one fact about orders: a set that is
  enumerated in an order is sorted into that enumeration; it counts those
  before a member.
* `CompleteFileLoadsHolds`: from the same invariant, no disjunct of
  `RaiseArenaError` is enabled (`ArenaLoads`; in a strict reading the walk over the
  relocations cannot stand on half an entry, because the only odd cell of the list
  is the terminator) and none of `RaiseTableError` (`TablesLoad`: what each lemma
  above reads is also readable; for metas up to the bound).

**`ConditionProofs`** (from `ConditionAssumption`: codes are sequences of
instructions, the slots of loops are slots).

* `LoopsNeverNestHolds`: whatever the code, a nested recovery never meets a
  whole loop.  `Nested` is the invariant: the frames are a sequence, the first
  on the rule's code, and a second one on a slice that a loop of the first cut
  out and in which `FindLoops` finds nothing.  Two lemmas carry it.
  `IterableHoldsNoLoop`: an iterable ends at the loop's start and begins after
  the *last* header before it, so a header in it would be later than the last.
  `BodyHoldsNoLoop`: a body ends at the *first* epilogue after its start, so an
  epilogue in it would be earlier than the first; and a loop needs both.
  `OccursInSlice` brings a shape found in a slice back
  to the whole.  The theorem explains the run `nested_loops`: the depth guard of
  `_sub_run` is never needed, and a loop in a loop is always lost.

**`ConditionTextProofs`** (from the same and `SpellingAssumption`: the names in the
tables and the numbers in the code are spelt with words, and no word is the
marker `<underflow>`).  The lemmas are about a set `W` of words that has all
words and perhaps the marker.  `FrameIn(W, f)` is a recovery that speaks `W`:
its stack holds texts of `W` if it is complete or if the marker is in `W`.  One lemma for
each action shows that the frame it leaves is of this kind: with at least as
many entries on the stack as it pops, or with the marker allowed, an action makes
texts of `W` from texts of `W` (`Sound`), and otherwise it clears `complete`.

* `TypeOKHolds`, with all strings for `W`: any code, loops included, keeps the
  types.  The frames of a loop come and go as in `ConditionProofs`; the slices they
  run on are of the rule's code (`ShapeWithin`).
* `UnderflowNeverEmittedHolds`, with the words alone for `W`: what a recovery
  without loops emits was complete to its end, so no marker is in it.  A loop
  is left out because the property is false there: `run_multi` passes on what
  `pop` gives (`UnderflowRules` in section 7).

**`PatternTextProofs`** (from `RenderAssumption`: an instruction of a program
ends after it began; nothing is assumed of the targets of its jumps; for the loop over
the strings also `PatternTextAssumption`, the types of a string's fields; for the
modifiers also `ModifierAssumption`, for plaintexts `EncodingAssumption`; for the
greediness of quantifiers `MixAssumption`, of the compiler: an expression that does
not mix greedy and ungreedy quantifiers gives no program whose splits and repeats
mix them.  TLC checks it for the inputs of the runs.  It leaves out an alternation
with an empty right branch beside an ungreedy quantifier, of which the property is
false, see `(a|)+?` in section 7).

* `TurnsAdvanceHolds`: a frame has taken no more turns than it has passed bytes.
  By itself this is not inductive, because a turn may be a call, which ends
  much later: `RInv` adds that the place where each call will resume lies
  beyond the instruction its caller is at.  Every action changes the stack in
  one of three ways (`TopReplaced`, `CallEntered`, `CallReturned`), and each
  lemma shows the invariant for one of them; the tests of the loop (a forward
  split, a closed repeat) give the inequality each needs.
* `GuardNeverCutsHolds`: in a program of at most `MaxTurns` bytes the guard of
  `_seq` is never what ends the loop, so that an approximate text is never one
  that was merely too long.
* `TypeOKHolds`: `Typed` adds that the texts so far are a list and that the loop is
  at a string as long as it is busy.
* `RendersStepwise`: the safety half of `ImplementsRegexRender`.  A request is
  for a program of the string, and no other step of the loop touches the
  renderer.  `RequestsAdvance` brings the first two results over to every
  rendering the loop asks for.
* `UnwarnedIsWholeHolds`: a line without a warning has the text of a literal,
  a plaintext of which every run found in the programs is a permutation, or the
  text of the string's only program; never that of another string, nor one
  of several.  `Inv` follows the loop: `Taken` says that the texts so far are
  those of the string's own programs, in order, `Calls` what the renderer and
  the search were asked and what was found, `Results` that each string passed is
  `Settled`, in what it shows and in what was warned of.
* `ModifiersKeptHolds`: the modifiers of such a line are legal beside its text and
  compile to what the author's compiled to, for every combination YARA accepts.
  `WordsWritten` says what `render_modifiers` writes for a set of flags,
  `FlagsCompiled` which flags a set of modifiers gives, `SameEffect` that the
  two together change nothing; the forms come from the invariant above
  (`WholeKeepsModifiers`).
* `NoMixInventedHolds`: merging invents no mix of greediness, for every program, one
  that no compiler emits included.  `Folded` says of all that a rendering holds
  (the pieces of each frame, the calls that wait, the text so far) that its
  quantifiers have a greediness in `CodeGreed` of the program.  A piece without a
  quantifier is free of it, and two pieces merge only if they agree, so that the
  merged one has a greediness that one of them had (`MergedFits`).  What each
  step adds comes from an instruction of the program: a split that closes a plus
  goes back, because the pieces of a frame start before its offset, and one that
  makes its part optional skips to a target with no jump before it.  The
  flattening and merging of a list are recursive functions over it, followed
  from each of its places to the next (`FlattenStays`, `MergeStays`).
* `PlaintextProvenHolds`: an unambiguous text is the only one that has all its
  permutations (`Fixed`), for texts of every length.  The lengths of the three, which
  depend on what is left of the length modulo 3, tell how long the other text
  is.  In whole groups only the first permutation has its length, and it is the text.
  With one byte over, the first and the third may be exchanged: the
  second permutation then makes all pairs the same, and the two are one; only a
  single byte has no second.  With two bytes over, exchanging two makes two
  equal, and exchanging all three makes every digit the next.  Each case compares the
  two texts pair by pair (`PairsAgree`, `PermutationsAgree`).  The condition is
  also necessary: each text it leaves out shares its permutations with another.
  A first version of the property asked only that the three differ, held in the
  run and could not be proved; the missing case is `I$` in section 7.
* `PlaintextRecoveredHolds`: `Reaching` says that, while the permutations of a text
  are searched, the seed that the first of them gives comes, or is being tried with
  tails no longer than the rest of the text (`FirstIs`: never more than
  `MaxTail` bytes); so the search cannot run out of seeds.  `Searching`
  says that only texts are tried, and a text has no permutation with a NUL in it,
  so no base64wide pattern is taken for another.  No run checks `PlaintextRecovered`:
  the theorem covers all that a run could.

**`DecompileProofs`** (from `DecompileAssumption`: offsets grow along the code;
`CompilerAssumption`, what the compiler guarantees; and `CommandLineAssumption`:
the types of the arguments).

* `BodiesDisjointHolds`: `Decoded` says that what is decoded is a prefix of the
  code, and that a walk which has ended took all of it or stopped behind a
  HALT.  `Sorted` says that the bodies hold decoded instructions from before
  the next one, no markers, pairwise apart, and that the body being collected is
  apart from all but the one it may replace: without the last part a second
  INIT_RULE of the same rule would not be seen to be harmless.  That offsets
  grow makes an instruction differ from all before it.
* `StatusTellsHolds`: `Reported` follows `main`: nothing is shown or told before
  it is delivered, a text that was made is whole, which for a source means that
  the emission reached its last rule and for a listing is `Decoded`.
* `EachRuleItsConditionHolds`: `Emitted` says that a rule is written at one place
  only, behind all that come before it, with the condition at its place in the
  list; when as many are written as there are, each is (`AllWritten`, by
  counting).  That the condition is that of the rule's own body is `Bodied`: in
  compiled code the open body is what the code has since the rule's INIT_RULE,
  and is saved at its MATCH_RULE (`Within`).
* `ReferencesPrecedeHolds`: a rule refers to earlier ones of its namespace, and
  these come before it in the order (`RefsBefore`).
* `NoSilentLossHolds`: `Warned` ties the warnings to the rules without a
  condition, in both directions, and `Delivered` the text shown to what was
  written.  It assumes `NotesAreLists`: a recovery answers with a list of notes.
* `MainTypeOKHolds`: the type invariant.  `ImportedOnce`: no module is imported
  twice.

## 6. What is only model-checked, and what is not modelled

Only checked:

* everything under fairness (`WalksEnd`, `RecoveryEnds`, `ConditionRecovered`,
  `MainEnds`, `LoadEnds`, and of `ImplementsRegexRender` that each rendering
  ends), which this prover does not reach;
* `Faithful`, `VariablesBound` and `PatternFaithful`, which rest on the recursive
  readers of `YaraGrammar` and `YaraRegex`.

Not modelled: the spelling of characters, integers, doubles, escapes, metas and
tags, the byte widths of the bytecode's operands, the layout of listings and of
the JSON text (its field `exact` included), and the tools, which run the program
from outside.  `_wrap` and `_quant` of `repattern.py` are called by nothing.
No character of a model is a parenthesis, a bracket or a backslash, so that the
escaping of them is not put to the test.

A pipe that is closed while the text is written ends `main` with 0 and without
the warnings; `StatusTells` and `NoSilentLoss` ask nothing of a text that nobody
reads.

Threads, locks and persistence are absent from the code and from the models.

## 7. Where the code and its documents disagree

With a run each, in PROJECT.json `findings`:

* `re_section_matches`: the RE section is not all programs; the flags word of a
  `matches` operand ends the segmentation without a report.
* `condition_unfaithful`: three conditions are recovered as others.
  `(filesize & entrypoint) + 1` loses its parentheses (`Rules <- BitwiseRules`
  shows it alone); a 64-bit literal that is also a valid reference is emitted as
  a string or a regexp (`LiteralRules`); the invented variable `i` hides a rule
  named `i` (`CaptureRules`).
* `nested_loops`: a loop in a loop is never recovered.
* `lost_notes`: notes of a recovery that ends with a condition are dropped.
* `pattern_unfaithful`: six patterns match other things than their source, each
  alone when `Unfaithful` in `MCPatternText` is cut to it: a negated class is
  written as the class; `((a|b)a(a|b))*` loses its group; `[\s\S]` becomes `.`;
  `a{2,9}a` becomes `a{3,10}` beyond the greatest bound; a hex string that falls
  back to a regexp misses its `/s`; of a chained hex string only the head is
  written.
* `plaintext_guessed`: of two plaintexts with the same permutations the first
  found is returned.  `UUUUU` gives `UUUUP`, because two permutations are equal;
  `I$` gives `$\x92`, with three that differ: all digits are the same, and those of
  the other text are the same three in another order.

Met while modelling, with inputs in `MCCondition` that show them when they take
the place of `Rules` in a configuration:

* `DoubleRules` (with `Faithful`): an integer literal that is converted to a
  double is printed as the double with the same bits.
* `PercentRules` (with `Faithful`): `(25 + 25)% of them` loses its parentheses.
* `EnumRules` (with `ConditionRecovered`): a loop over a list of integers is
  not recovered.
* `UnderflowRules` (with `MarkerNeverEmitted`): `run_multi` passes on what
  `pop()` gives for an empty stack, and `<underflow>` reaches a condition.

Met while modelling patterns, outside the inputs of the runs: `(a|)+?` is
written `(a?)+?`, which mixes greediness (`MixAssumption` leaves it out); `((a|b){2}|)` loses its group in the
same way as above; a base that ends in an escaped `\)` passes for a group;
`base64wide` is never recovered, and says so.

Met while reading:

* A strict reading accepts a relocation list without its terminator, though
  `arena.py:16` gives it one; a rule with more than 4097 metas is refused as
  corrupt (`parser.py:187`); a literal that cannot be read becomes empty
  (`parser.py:233`).
* The JSON field `exact` is true for any text, also an approximate one, where
  `src/README.md:77` promises "per-string exactness"; `info` and `disasm` ignore
  `--lenient`; `CodeError` is not caught by `main`.
* Rules of one name in two namespaces are written to one file, which YARA then
  refuses; a pattern too deep for the recursion limit is written `//`, with a
  warning.
* `constants.py:66` names a test file that does not exist.
