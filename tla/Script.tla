------------------------------- MODULE Script -------------------------------
(***************************************************************************)
(* The syntax tree of the script language (script/parser.rs and ast.rs):   *)
(* parse_instructions lets pest match the source with grammar.peg and then *)
(* turns the pairs of pest into nodes, one item of the file at a time.     *)
(*                                                                         *)
(* A pair of pest is a record with its `rule'; an optional part of a rule  *)
(* is a sequence of at most one element, a repeated one a sequence:        *)
(*   arg          quoted, digits and ident have a text; dynamic also args  *)
(*   instruction  func, args?            function  name, params?, body,    *)
(*   machine      body                             dist?                   *)
(*   params, opts key and value          dist      name, opts              *)
(* The text between the quotes of a constant is one token.                 *)
(*                                                                         *)
(* A builder is partial: the code panics on what the grammar accepts and   *)
(* the tree has no place for.  It is modelled by the set of its results,   *)
(* {v} for a value and {} for a panic.                                     *)
(***************************************************************************)
EXTENDS Naturals, Sequences, FiniteSetsExt, Functions

CONSTANTS Items,     \* what a file may consist of, as pairs of pest
          PortOf,    \* the number of each sequence of digits
          RateOf,    \* the f64 of each text that is one
          MaxItems   \* bound of the model on the length of a file

VARIABLES source,    \* the items of the file taken so far
          ast,       \* the nodes built from them
          outcome    \* "parsing", "parsed", "rejected" or "panicked"

vars == <<source, ast, outcome>>

-----------------------------------------------------------------------------
(* What the grammar promises of its pairs, and the builders rely on.       *)
IsList(s) == s \in Seq(Range(s))

IsOption(s) == IsList(s) /\ Len(s) <= 1

DynamicNames == {"random_path", "random_string"}

(* A value between quotes has no underscore, so it is no dynamic name.     *)
IsToken(a) ==
    /\ a.rule \in {"quoted", "digits", "ident", "dynamic"}
    /\ a.rule = "dynamic" => a.text \in DynamicNames
    /\ a.rule = "quoted" => a.text \notin DynamicNames

IsArg(a) ==
    /\ IsToken(a)
    /\ IF a.rule = "dynamic"
         THEN IsList(a.args) /\ \A b \in Range(a.args) : IsToken(b)
         ELSE a = [rule |-> a.rule, text |-> a.text]

IsArgs(args) ==
    /\ IsOption(args)
    /\ \A list \in Range(args) : IsList(list) /\ \A a \in Range(list) : IsArg(a)

IsBindings(kvs) ==
    IsList(kvs) /\ \A kv \in Range(kvs) : kv = [key |-> kv.key, value |-> kv.value]

IsExpr(e) ==
    \/ e.rule = "function"
    \/ e.rule = "instruction" /\ IsArgs(e.args)

IsFunction(f) ==
    /\ IsOption(f.params) /\ \A p \in Range(f.params) : IsBindings(p)
    /\ IsList(f.body) /\ \A e \in Range(f.body) : IsExpr(e)
    /\ IsOption(f.dist) /\ \A d \in Range(f.dist) : IsBindings(d.opts)

IsMachine(m) == IsList(m.body) /\ \A i \in Range(m.body) : IsArgs(i.args)

ASSUME ScriptAssumption ==
    /\ \A item \in Items : /\ item.rule = "machine" => IsMachine(item)
                           /\ item.rule = "function" => IsFunction(item)
    /\ "0" \in DOMAIN RateOf

-----------------------------------------------------------------------------
(* Every one of a sequence of results, in order.                           *)
All(results) ==
    IF \E i \in DOMAIN results : results[i] = {} THEN {}
    ELSE {[i \in DOMAIN results |-> CHOOSE v \in results[i] : TRUE]}

Each(Build(_), seq) == All([i \in DOMAIN seq |-> Build(seq[i])])

(* collect into a HashMap.                                                 *)
Collect(kvs) ==
    [k \in {kvs[i].key : i \in DOMAIN kvs} |->
        kvs[Max({i \in DOMAIN kvs : kvs[i].key = k})].value]

(* The text of the first pair inside an argument's own: the value between  *)
(* quotes, or the name of a dynamic one.  Digits and identifiers are       *)
(* tokens, with nothing inside.                                            *)
FirstNested(a) == IF a.rule \in {"quoted", "dynamic"} THEN {a.text} ELSE {}

Const(text) == [arg |-> "Const", text |-> text]

InnerArg(a) == {Const(text) : text \in FirstNested(a)}

DynamicArg(a) ==
    {[arg |-> "Dynamic", name |-> a.text, args |-> args] :
        args \in Each(InnerArg, a.args)}

InstrArgDigits(a) ==
    CASE a.rule \in {"quoted", "digits"} -> {Const(a.text)}
      [] a.rule = "ident"   -> {[arg |-> "Var", name |-> a.text]}
      [] a.rule = "dynamic" -> DynamicArg(a)

InstrArg(a) ==
    CASE a.rule = "quoted"  -> {Const(a.text)}
      [] a.rule = "digits"  -> {}
      [] a.rule = "ident"   -> {[arg |-> "Var", name |-> a.text]}
      [] a.rule = "dynamic" -> DynamicArg(a)

(* What an instruction becomes once its arguments are built: a task takes  *)
(* them all, the others the first and drop the rest.                       *)
InstrTaskAlone(func, args) ==
    IF args = <<>> THEN {}
    ELSE CASE func = "task" ->
                 {[instr |-> "Task", name |-> args[1], args |-> <<>>]}
           [] func \in {"open", "debug", "ping"} ->
                 {[instr |-> func, arg |-> args[1]]}
           [] OTHER -> {}

Instr(func, args) ==
    IF args = <<>> THEN {}
    ELSE CASE func = "task" ->
                 {[instr |-> "Task", name |-> args[1], args |-> Tail(args)]}
           [] func \in {"open", "debug", "ping"} ->
                 {[instr |-> func, arg |-> args[1]]}
           [] OTHER -> {}

(* A function inside a function gets no further than its name.             *)
build_ast_from_instr(e) ==
    IF e.rule = "function" \/ e.args = <<>> THEN {}
    ELSE UNION {Instr(e.func, args) : args \in Each(InstrArg, e.args[1])}

(* Only a constant between quotes: a dynamic argument is NotSupported, and *)
(* the first pair inside an identifier is looked for in vain.              *)
string_from_argument(a) == IF a.rule = "dynamic" THEN {} ELSE FirstNested(a)

(* server takes the text of its argument for a u16, and profile takes it   *)
(* as it is, quotes included: the pair stands for its whole text.  path    *)
(* wants what is inside.                                                   *)
MInstr(func, a) ==
    CASE func = "server"  ->
            IF a.rule = "digits" /\ PortOf[a.text] < 2^16
              THEN {[instr |-> "Server", port |-> PortOf[a.text]]} ELSE {}
      [] func = "profile" -> {[instr |-> "Profile", target |-> a]}
      [] func = "path"    -> {[instr |-> "Path", value |-> text] :
                                 text \in string_from_argument(a)}
      [] OTHER            -> {}

build_ast_from_minstr(m) ==
    IF m.args = <<>> \/ m.args = <<(<<>>)>> THEN {}
    ELSE MInstr(m.func, m.args[1][1])

(* The name of the distribution is not looked at.                          *)
build_ast_from_dist(d) ==
    LET opts == Collect(d.opts)
        rate == IF "rate" \in DOMAIN opts THEN opts["rate"] ELSE "0"
    IN  IF rate \in DOMAIN RateOf
          THEN {[dist |-> "Exp", rate |-> RateOf[rate]]} ELSE {}

build_ast_from_work(f) == {Collect(params) : params \in Range(f.params)}

build_ast_from_function(f) ==
    {[node |-> "Work", name |-> f.name, args |-> r[1], instructions |-> r[2],
      dist |-> r[3]] :
        r \in build_ast_from_work(f)
                \X Each(build_ast_from_instr, f.body)
                \X Each(build_ast_from_dist, f.dist)}

build_ast_from_expr(item) ==
    CASE item.rule = "machine"  ->
            {[node |-> "Machine", m_instructions |-> body] :
                body \in Each(build_ast_from_minstr, item.body)}
      [] item.rule = "function" -> build_ast_from_function(item)
      [] OTHER                  -> {}

-----------------------------------------------------------------------------
Init ==
    /\ source = <<>>
    /\ ast = <<>>
    /\ outcome = "parsing"

(* The next item of the file; the grammar has a machine only at its start. *)
Take(item) ==
    /\ outcome = "parsing"
    /\ Len(source) < MaxItems
    /\ item.rule = "machine" => source = <<>>
    /\ source' = Append(source, item)

PushNode(item) ==
    /\ Take(item)
    /\ \E node \in build_ast_from_expr(item) : ast' = Append(ast, node)
    /\ UNCHANGED outcome

(* The panic drops the nodes built before.                                 *)
Panic(item) ==
    /\ Take(item)
    /\ build_ast_from_expr(item) = {}
    /\ ast' = <<>>
    /\ outcome' = "panicked"

(* parse_instructions returns the tree.                                    *)
Return ==
    /\ outcome = "parsing"
    /\ outcome' = "parsed"
    /\ UNCHANGED <<source, ast>>

(* The source does not match the grammar: an error, before any node.       *)
Reject ==
    /\ outcome = "parsing" /\ source = <<>>
    /\ outcome' = "rejected"
    /\ UNCHANGED <<source, ast>>

Next == \/ \E item \in Items : PushNode(item) \/ Panic(item)
        \/ Return \/ Reject

Spec == Init /\ [][Next]_vars

-----------------------------------------------------------------------------
(* The arguments written in an instruction, none when they are left out.   *)
ArgsOf(e) == UNION {Range(e.args[i]) : i \in DOMAIN e.args}

FirstArg(e) == e.args[1][1]

(* The value a list of keys and values gives for k: its last word on it.   *)
LastWord(kvs, k, v) ==
    \E i \in DOMAIN kvs :
       /\ kvs[i] = [key |-> k, value |-> v]
       /\ \A j \in DOMAIN kvs : j > i => kvs[j].key # k

(* The rate of a distribution; 0 when its options do not speak of it.      *)
Rate(d, r) ==
    \/ r = RateOf["0"] /\ \A i \in DOMAIN d.opts : d.opts[i].key # "rate"
    \/ \E t \in DOMAIN RateOf : LastWord(d.opts, "rate", t) /\ r = RateOf[t]

Rates == Range(RateOf)

(* The part of the grammar that a tree can be built for.                   *)
Usable(item) ==
    \/ /\ item.rule = "machine"
       /\ \A m \in Range(item.body) :
             /\ ArgsOf(m) # {}
             /\ \/ m.func = "server" /\ FirstArg(m).rule = "digits"
                                     /\ PortOf[FirstArg(m).text] < 2^16
                \/ m.func = "profile"
                \/ m.func = "path" /\ FirstArg(m).rule = "quoted"
    \/ /\ item.rule = "function"
       /\ item.params # <<>>
       /\ \A d \in Range(item.dist) : \E r \in Rates : Rate(d, r)
       /\ \A e \in Range(item.body) :
             /\ e.rule = "instruction"
             /\ e.func \in {"task", "open", "debug", "ping"}
             /\ ArgsOf(e) # {}
             /\ \A a \in ArgsOf(e) :
                   /\ a.rule # "digits"
                   /\ a.rule = "dynamic" =>
                        \A b \in Range(a.args) :
                           b.rule \in {"quoted", "dynamic"}

(* parse_instructions panics on a file that matches the grammar exactly    *)
(* when an item of it lies outside this part, however deep in the item the *)
(* reason is: wherever the expects, unwraps and asserts of the builders    *)
(* are, none fires on a usable item, and nothing unusable gets through.    *)
PanicsOnUnusable ==
    /\ outcome = "panicked" => ~Usable(source[Len(source)])
    /\ \A i \in DOMAIN ast : Usable(source[i])

Alike(Same(_, _), s, t) ==
    Len(s) = Len(t) /\ \A i \in DOMAIN s : Same(s[i], t[i])

SameToken(a, b) == a.rule = b.rule /\ a.text = b.text

SameArg(a, b) ==
    SameToken(a, b) /\ (a.rule = "dynamic" => Alike(SameToken, a.args, b.args))

SameInstr(e, g) ==
    /\ e.func = g.func
    /\ IF e.func = "task" THEN Alike(SameArg, e.args[1], g.args[1])
                          ELSE SameArg(FirstArg(e), FirstArg(g))

SameMInstr(m, n) ==
    /\ m.func = n.func
    /\ IF m.func = "server"
         THEN PortOf[FirstArg(m).text] = PortOf[FirstArg(n).text]
         ELSE FirstArg(m) = FirstArg(n)

SameDist(d, e) == \A r \in Rates : Rate(d, r) <=> Rate(e, r)

SameParams(p, q) ==
    \A kv \in Range(p) \cup Range(q) :
       LastWord(p, kv.key, kv.value) <=> LastWord(q, kv.key, kv.value)

(* Two items that say the same, as far as the tree can tell.               *)
SameMeaning(s, t) ==
    /\ s.rule = t.rule
    /\ s.rule = "machine" => Alike(SameMInstr, s.body, t.body)
    /\ s.rule = "function" =>
          /\ s.name = t.name
          /\ Alike(SameParams, s.params, t.params)
          /\ Alike(SameInstr, s.body, t.body)
          /\ Alike(SameDist, s.dist, t.dist)

(* Two items have the same node exactly when they differ in nothing but:   *)
(* bindings a later one of the same key replaces; the spelling of ports    *)
(* and rates; arguments after the first of open, debug and ping and of the *)
(* instructions of a machine; the arguments of a dynamic argument of a     *)
(* dynamic one; the name of the distribution, and its options other than   *)
(* rate.  Nothing else of a script is lost or invented by the builders.    *)
TreesTell ==
    \A i, j \in DOMAIN ast :
       ast[i] = ast[j] <=> SameMeaning(source[i], source[j])
=============================================================================
