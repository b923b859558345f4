----------------------------- MODULE MCDecompile -----------------------------
(***************************************************************************)
(* Files of up to three rules in two namespaces, as the compiler lays them *)
(* out, and files whose code no compiler wrote.                            *)
(***************************************************************************)
EXTENDS Decompile

(* A body is lost when it holds a LOST instruction, with a note, or an     *)
(* UNDERFLOW, without one, and when it is empty.                           *)
Holds(body, op) == \E n \in DOMAIN body : body[n].op = op

MCConditionOf(body) ==
    IF Holds(body, "LOST") THEN [text |-> None, notes |-> <<"unhandled opcode">>]
    ELSE IF Holds(body, "UNDERFLOW") THEN [text |-> None, notes |-> <<>>]
    ELSE IF body = <<>> THEN [text |-> None, notes |-> <<"one value expected">>]
    ELSE [text |-> ToString([n \in DOMAIN body |-> body[n].at]), notes |-> <<>>]

I(op, n) == <<[op |-> op, arg |-> n, at |-> 0]>>

(* Each instruction knows its place.                                       *)
Placed(code_) == [n \in DOMAIN code_ |-> [code_[n] EXCEPT !.at = n]]

-----------------------------------------------------------------------------
(* Compiled files.                                                         *)
Kinds == {"PUSH", "LOST", "UNDERFLOW"}
Shapes(k) == [1 .. k -> [kind : Kinds, ns : {"default", "other"}, ref : BOOLEAN]]

(* The rules before n in its namespace.                                    *)
Earlier(shape, n) == {m \in 1 .. n - 1 : shape[m].ns = shape[n].ns}

Compiled(shape) ==
    LET k       == Len(shape)
        refs    == [n \in 1 .. k |-> IF shape[n].ref THEN Earlier(shape, n) ELSE {}]
        coded   == [n \in 1 .. k |-> I("INIT_RULE", n) \o I("FILESIZE", 0) \o I(shape[n].kind, 0)
                                      \o I("MATCH_RULE", n)]
        whole   == Placed(I("IMPORT", 1) \o I("IMPORT", 2) \o I("IMPORT", 1) \o FlattenSeq(coded)
                            \o I("HALT", 0))
        body    == [n \in 1 .. k |-> SubSeq(whole, 4 * n + 1, 4 * n + 2)]
    IN [code  |-> whole,
        rules |-> [n \in 1 .. k |-> [name |-> "r" \o ToString(n), ns |-> shape[n].ns, refs |-> refs[n]]],
        body  |-> body]

CompiledFiles == {Compiled(shape) : shape \in UNION {Shapes(k) : k \in 1 .. 3}}

(* Any code, over a table of two rules.                                    *)
Ops == {<<"INIT_RULE", 1>>, <<"INIT_RULE", 2>>, <<"MATCH_RULE", 1>>, <<"PUSH", 0>>, <<"HALT", 0>>, <<"UNKNOWN", 0>>}

AnyFile(ops) ==
    [code  |-> [n \in DOMAIN ops |-> [op |-> ops[n][1], arg |-> ops[n][2], at |-> n]],
     rules |-> <<[name |-> "r1", ns |-> "default", refs |-> {}], [name |-> "r2", ns |-> "other", refs |-> {}]>>,
     body  |-> <<>>]

AnyFiles == {AnyFile(ops) : ops \in UNION {[1 .. k -> Ops] : k \in 0 .. 4}}

MCFiles == CompiledFiles \cup AnyFiles
=============================================================================
