---------------------------- MODULE MCCommandLine ----------------------------
(***************************************************************************)
(* Every file of MCDecompile with the default flags, and a file of each    *)
(* kind with every combination of flags and every way to open and to write.*)
(***************************************************************************)
EXTENDS CommandLine, MCDecompile

Call(f, opens, format, lenient, quiet, listing, sink) ==
    [file |-> f, opens |-> opens, format |-> format, lenient |-> lenient, quiet |-> quiet,
     listing |-> listing, sink |-> sink]

Default(f) == Call(f, "whole", "yara", FALSE, FALSE, TRUE, "open")

(* Two rules, of which the second is lost; code that raises in the middle; *)
(* code that goes on after HALT; none.                                     *)
Lost  == [kind |-> "LOST", ns |-> "default", ref |-> FALSE]
Good  == [Lost EXCEPT !.kind = "PUSH", !.ns = "other"]
Mute  == [Lost EXCEPT !.kind = "UNDERFLOW"]

AFew ==
    {Compiled(<<Good, Lost>>), Compiled(<<Mute, Good, Lost>>)}
      \cup {AnyFile(ops) :
              ops \in {<<>>, <<<<"INIT_RULE", 1>>, <<"UNKNOWN", 0>>>>,
                      <<<<"PUSH", 0>>, <<"HALT", 0>>, <<"PUSH", 0>>>>}}

MCInvocations ==
    {Default(f) : f \in MCFiles}
      \cup {Call(f, opens, format, lenient, quiet, listing, sink) :
              f \in AFew, opens \in Opens, format \in Format, lenient \in BOOLEAN,
              quiet \in BOOLEAN, listing \in BOOLEAN, sink \in Sink}
=============================================================================
