------------------------------ MODULE MCScript ------------------------------
(* Small items: every rule of the grammar, with each part of an item       *)
(* varied while the others are kept simple.                                *)
EXTENDS Script

Token(rule, text) == [rule |-> rule, text |-> text]
Tmp == Token("quoted", "/tmp")
Number == Token("digits", "80")
Word == Token("ident", "stub")
Tokens == {Tmp, Number, Word}

Dynamic(name, args) == [rule |-> "dynamic", text |-> name, args |-> args]
Path(args) == Dynamic("random_path", args)

Dynamics ==
    {Path(args) : args \in {<<>>, <<Tmp>>, <<Number>>, <<Word>>, <<Tmp, Tmp>>,
                            <<Path(<<>>)>>, <<Path(<<Word>>)>>}}
      \cup {Dynamic("random_string", <<Tmp>>)}

(* No argument list, or one of up to two arguments.                        *)
ArgLists(Args) == {<<>>, <<(<<>>)>>} \cup {<<(<<a>>)>> : a \in Args}
                    \cup {<<(<<a, b>>)>> : a, b \in Tokens}

Instruction(func, args) == [rule |-> "instruction", func |-> func, args |-> args]

Instructions ==
    {Instruction(f, as) : f \in {"task", "network", "port", "open", "ping", "debug"},
                          as \in ArgLists(Tokens \cup Dynamics)}

Open == Instruction("open", <<(<<Tmp>>)>>)
Debug == Instruction("debug", <<(<<Tmp>>)>>)

Work(name, params, body, dist) ==
    [rule |-> "function", name |-> name, params |-> params, body |-> body,
     dist |-> dist]
Main(body) == Work("main", <<(<<>>)>>, body, <<>>)

UpToTwo(S) == {<<>>} \cup {<<x>> : x \in S} \cup {<<x, y>> : x, y \in S}

Binding(key, value) == [key |-> key, value |-> value]

Bodies == UpToTwo({Open, Debug, Main(<<Open>>), Main(<<>>)})
            \cup {<<e>> : e \in Instructions}

Params == {<<>>} \cup {<<kvs>> : kvs \in
              UpToTwo({Binding("workers", "2"), Binding("workers", "10"),
                       Binding("duration", "10")})}

Dists == {<<[name |-> n, opts |-> kvs]>> :
             n \in {"exp", "zipf", "uniform"},
             kvs \in UpToTwo({Binding("rate", "10"), Binding("rate", "10.0"),
                              Binding("rate", "fast"), Binding("speed", "10")})}

MInstructions ==
    {[func |-> f, args |-> as] :
        f \in {"server", "load", "memory", "profile", "path"},
        as \in ArgLists(Tokens \cup {Path(<<Tmp>>), Token("ident", "bpf"),
                                     Token("digits", "080"),
                                     Token("digits", "65535"),
                                     Token("digits", "65536")})}

Server == [func |-> "server", args |-> <<(<<Number>>)>>]
Profile == [func |-> "profile", args |-> <<(<<Word>>)>>]

Machine(body) == [rule |-> "machine", body |-> body]

SmallItems ==
    {Machine(<<m>>) : m \in MInstructions}
      \cup {Machine(b) : b \in UpToTwo({Server, Profile})}
      \cup {Main(b) : b \in Bodies}
      \cup {Work(n, ps, <<>>, <<>>) : n \in {"main", "random"}, ps \in Params}
      \cup {Work("main", <<(<<>>)>>, <<Open>>, d) : d \in Dists}
      \cup {Open, Instruction("task", <<>>)}

Ports == [t \in {"80", "080", "65535", "65536"} |->
             CASE t \in {"80", "080"} -> 80
               [] t = "65535" -> 65535 [] t = "65536" -> 65536]

RateNumbers == [t \in {"0", "10", "10.0"} |-> IF t = "0" THEN 0 ELSE 10]
=============================================================================
