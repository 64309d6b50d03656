---------------------------- MODULE ScriptProofs ----------------------------
(***************************************************************************)
(* Which scripts the builders of script/parser.rs panic on and what of a   *)
(* script its tree tells, for every set of items the grammar can give and  *)
(* files of any length.                                                    *)
(*                                                                         *)
(* There are two lemmas to a builder: when it has a result, and when its   *)
(* results for two pairs are equal.  The second one with the same pair     *)
(* twice says that there is one result at most.                            *)
(***************************************************************************)
EXTENDS Script, WellFoundedInduction, TLAPS

-----------------------------------------------------------------------------
(* A list of pest's is a function on 1..n.                                 *)
LEMMA ListFacts ==
    ASSUME NEW s, IsList(s)
    PROVE  /\ Len(s) \in Nat
           /\ DOMAIN s = 1..Len(s)
           /\ \A i \in DOMAIN s : s[i] \in Range(s)
           /\ s = <<>> <=> Range(s) = {}
           /\ s # <<>> => Len(s) >= 1 /\ 1 \in DOMAIN s
  BY DEF IsList, Range

(* Lists of the same length have the same indexes.                         *)
LEMMA SameDomain ==
    ASSUME NEW s, IsList(s), NEW t, IsList(t)
    PROVE  DOMAIN s = DOMAIN t <=> Len(s) = Len(t)
<1>1. \A m, n \in Nat : 1..m = 1..n => m = n
  <2> SUFFICES ASSUME NEW m \in Nat, NEW n \in Nat, 1..m = 1..n PROVE m = n
    OBVIOUS
  <2>1. m \in 1..m \/ m = 0
    OBVIOUS
  <2>2. n \in 1..n \/ n = 0
    OBVIOUS
  <2>3. m <= n /\ n <= m
    BY <2>1, <2>2
  <2> QED
    BY <2>3
<1> QED
  BY <1>1, ListFacts

(* An optional part is missing or there once.                              *)
LEMMA OptionFacts ==
    ASSUME NEW s, IsOption(s), s # <<>>
    PROVE  Len(s) = 1 /\ DOMAIN s = {1} /\ Range(s) = {s[1]}
<1>1. Len(s) = 1 /\ DOMAIN s = 1..Len(s)
  <2>1. IsList(s) /\ Len(s) <= 1
    BY DEF IsOption
  <2>2. Len(s) \in Nat /\ Len(s) >= 1 /\ DOMAIN s = 1..Len(s)
    BY <2>1, ListFacts
  <2> QED
    BY <2>1, <2>2
<1>2. DOMAIN s = {1}
  BY <1>1
<1> QED
  BY <1>1, <1>2 DEF Range

(* There is a sequence of results exactly when no part panics.             *)
LEMMA AllPanics ==
    ASSUME NEW results
    PROVE  All(results) = {} <=> \E i \in DOMAIN results : results[i] = {}
  BY DEF All

LEMMA AllSpec ==
    ASSUME NEW results, NEW v \in All(results)
    PROVE  /\ v = [i \in DOMAIN results |-> v[i]]
           /\ DOMAIN v = DOMAIN results
           /\ \A i \in DOMAIN results : v[i] \in results[i]
<1>1. \A i \in DOMAIN results : results[i] # {}
  BY AllPanics
<1>2. v = [i \in DOMAIN results |-> CHOOSE u \in results[i] : TRUE]
  BY <1>1 DEF All
<1> QED
  BY <1>1, <1>2

(* The results of a builder for the elements of a list.                    *)
ResultsFor(s, results) == IsList(s) /\ DOMAIN results = DOMAIN s

Agree(s, v, w) == \A i \in DOMAIN s : v[i] = w[i]

(* The results for two lists are equal when they are so part by part.      *)
LEMMA AllEqual ==
    ASSUME NEW s, NEW rs, ResultsFor(s, rs), NEW t, NEW qs, ResultsFor(t, qs),
           NEW v \in All(rs), NEW w \in All(qs)
    PROVE  /\ v = w => Len(s) = Len(t)
           /\ Len(s) = Len(t) /\ Agree(s, v, w) => v = w
<1>1. v = [i \in DOMAIN rs |-> v[i]] /\ DOMAIN v = DOMAIN rs
  BY AllSpec
<1>2. w = [i \in DOMAIN qs |-> w[i]] /\ DOMAIN w = DOMAIN qs
  BY AllSpec
<1>3. DOMAIN s = DOMAIN t <=> Len(s) = Len(t)
  BY SameDomain DEF ResultsFor
<1> QED
  BY <1>1, <1>2, <1>3 DEF ResultsFor, Agree

(* Head and tail make the sequence.                                        *)
LEMMA HeadTail ==
    ASSUME NEW R, NEW s \in Seq(R), NEW t \in Seq(R), s # <<>>, t # <<>>,
           s[1] = t[1], Tail(s) = Tail(t)
    PROVE  s = t
<1>1. Len(s) = Len(t)
  <2>1. Len(s) \in Nat /\ Len(t) \in Nat
    OBVIOUS
  <2>2. Len(Tail(s)) = Len(s) - 1 /\ Len(Tail(t)) = Len(t) - 1
    OBVIOUS
  <2>3. Len(s) - 1 = Len(t) - 1
    BY <2>2
  <2> QED
    BY <2>1, <2>3
<1>2. \A i \in 1..Len(s) : s[i] = t[i]
  <2> SUFFICES ASSUME NEW i \in 1..Len(s), i # 1 PROVE s[i] = t[i]
    OBVIOUS
  <2>1. i - 1 \in 1..(Len(s) - 1) /\ i - 1 \in 1..(Len(t) - 1)
    BY <1>1
  <2>2. Tail(s)[i - 1] = s[i] /\ Tail(t)[i - 1] = t[i]
    BY <2>1
  <2> QED
    BY <2>2
<1> QED
  BY <1>1, <1>2

-----------------------------------------------------------------------------
(* An argument of a dynamic argument is a value or another dynamic one.    *)
LEMMA InnerArgPanics ==
    ASSUME NEW a, IsToken(a)
    PROVE  InnerArg(a) # {} <=> a.rule \in {"quoted", "dynamic"}
  BY DEF InnerArg, FirstNested

LEMMA InnerArgTells ==
    ASSUME NEW a, IsToken(a), NEW b, IsToken(b),
           NEW v \in InnerArg(a), NEW w \in InnerArg(b)
    PROVE  v = w <=> SameToken(a, b)
<1>1. /\ v = [arg |-> "Const", text |-> a.text]
      /\ w = [arg |-> "Const", text |-> b.text]
      /\ a.rule \in {"quoted", "dynamic"} /\ b.rule \in {"quoted", "dynamic"}
  BY DEF InnerArg, FirstNested, Const
<1>2. v = w <=> a.text = b.text
  BY <1>1
<1>3. a.text = b.text => a.rule = b.rule
  BY <1>1 DEF IsToken
<1> QED
  BY <1>2, <1>3 DEF SameToken

InnerArgs(xs) == [i \in DOMAIN xs |-> InnerArg(xs[i])]

UsableInner(xs) == \A b \in Range(xs) : b.rule \in {"quoted", "dynamic"}

AreTokens(xs) == IsList(xs) /\ \A b \in Range(xs) : IsToken(b)

LEMMA InnerArgsPanics ==
    ASSUME NEW xs, AreTokens(xs)
    PROVE  All(InnerArgs(xs)) # {} <=> UsableInner(xs)
<1>1. All(InnerArgs(xs)) = {} <=> \E i \in DOMAIN xs : InnerArg(xs[i]) = {}
  <2>1. All(InnerArgs(xs)) = {}
          <=> \E i \in DOMAIN InnerArgs(xs) : InnerArgs(xs)[i] = {}
    BY AllPanics
  <2> QED
    BY <2>1 DEF InnerArgs
<1>2. \A i \in DOMAIN xs :
         InnerArg(xs[i]) = {} <=> xs[i].rule \notin {"quoted", "dynamic"}
  BY InnerArgPanics DEF AreTokens, Range
<1> QED
  BY <1>1, <1>2 DEF UsableInner, Range

LEMMA InnerArgsTell ==
    ASSUME NEW xs, AreTokens(xs), NEW ys, AreTokens(ys),
           NEW v \in All(InnerArgs(xs)), NEW w \in All(InnerArgs(ys))
    PROVE  v = w <=> Alike(SameToken, xs, ys)
<1>1. /\ DOMAIN InnerArgs(xs) = DOMAIN xs /\ DOMAIN InnerArgs(ys) = DOMAIN ys
      /\ \A i \in DOMAIN xs : InnerArgs(xs)[i] = InnerArg(xs[i])
      /\ \A i \in DOMAIN ys : InnerArgs(ys)[i] = InnerArg(ys[i])
  BY DEF InnerArgs
<1>2. /\ \A i \in DOMAIN xs : v[i] \in InnerArg(xs[i]) /\ IsToken(xs[i])
      /\ \A i \in DOMAIN ys : w[i] \in InnerArg(ys[i]) /\ IsToken(ys[i])
  <2>1. /\ \A i \in DOMAIN InnerArgs(xs) : v[i] \in InnerArgs(xs)[i]
        /\ \A i \in DOMAIN InnerArgs(ys) : w[i] \in InnerArgs(ys)[i]
    BY AllSpec
  <2> QED
    BY <1>1, <2>1 DEF AreTokens, Range
<1>3. \A i \in DOMAIN xs : i \in DOMAIN ys
        => (v[i] = w[i] <=> SameToken(xs[i], ys[i]))
  BY <1>2, InnerArgTells
<1>4. /\ v = w => Len(xs) = Len(ys)
      /\ Len(xs) = Len(ys) /\ Agree(xs, v, w) => v = w
  <2>1. ResultsFor(xs, InnerArgs(xs)) /\ ResultsFor(ys, InnerArgs(ys))
    BY <1>1 DEF AreTokens, ResultsFor
  <2> QED
    BY <2>1, AllEqual
<1>5. Len(xs) = Len(ys) => DOMAIN xs = DOMAIN ys
  BY SameDomain DEF AreTokens
<1> QED
  BY <1>3, <1>4, <1>5 DEF Alike, Agree

(* An argument of an instruction: anything but digits.                     *)
UsableArg(a) ==
    a.rule # "digits" /\ (a.rule = "dynamic" => UsableInner(a.args))

LEMMA InstrArgPanics ==
    ASSUME NEW a, IsArg(a)
    PROVE  InstrArg(a) # {} <=> UsableArg(a)
<1>1. CASE a.rule = "dynamic"
  <2>1. InstrArg(a) = DynamicArg(a)
    BY <1>1 DEF InstrArg
  <2>2. DynamicArg(a) # {} <=> All(InnerArgs(a.args)) # {}
    BY DEF DynamicArg, Each, InnerArgs
  <2>3. AreTokens(a.args)
    BY <1>1 DEF IsArg, AreTokens
  <2> QED
    BY <1>1, <2>1, <2>2, <2>3, InnerArgsPanics DEF UsableArg
<1>2. CASE a.rule # "dynamic"
  BY <1>2 DEF InstrArg, IsArg, IsToken, UsableArg
<1> QED
  BY <1>1, <1>2

(* What the one result is.                                                 *)
LEMMA InstrArgIs ==
    ASSUME NEW a, IsArg(a), NEW v \in InstrArg(a)
    PROVE  /\ a.rule \in {"quoted", "ident", "dynamic"}
           /\ a.rule = "quoted" => v = [arg |-> "Const", text |-> a.text]
           /\ a.rule = "ident" => v = [arg |-> "Var", name |-> a.text]
           /\ a.rule = "dynamic" =>
                \E args \in All(InnerArgs(a.args)) :
                   v = [arg |-> "Dynamic", name |-> a.text, args |-> args]
<1>1. a.rule \in {"quoted", "ident", "dynamic"}
  BY InstrArgPanics DEF IsArg, IsToken, UsableArg
<1>2. CASE a.rule = "quoted"
  BY <1>2 DEF InstrArg, Const
<1>3. CASE a.rule = "ident"
  BY <1>3 DEF InstrArg
<1>4. CASE a.rule = "dynamic"
  BY <1>4 DEF InstrArg, DynamicArg, Each, InnerArgs
<1> QED
  BY <1>1, <1>2, <1>3, <1>4

LEMMA InstrArgTells ==
    ASSUME NEW a, IsArg(a), NEW b, IsArg(b),
           NEW v \in InstrArg(a), NEW w \in InstrArg(b)
    PROVE  v = w <=> SameArg(a, b)
<1>1. CASE a.rule # b.rule
  <2>1. v.arg # w.arg
    BY <1>1, InstrArgIs
  <2> QED
    BY <1>1, <2>1 DEF SameArg, SameToken
<1>2. CASE a.rule = b.rule /\ a.rule = "quoted"
  <2>1. /\ v = [arg |-> "Const", text |-> a.text]
        /\ w = [arg |-> "Const", text |-> b.text]
    BY <1>2, InstrArgIs
  <2>2. v = w <=> a.text = b.text
    BY <2>1
  <2> QED
    BY <1>2, <2>2 DEF SameArg, SameToken
<1>3. CASE a.rule = b.rule /\ a.rule = "ident"
  <2>1. /\ v = [arg |-> "Var", name |-> a.text]
        /\ w = [arg |-> "Var", name |-> b.text]
    BY <1>3, InstrArgIs
  <2>2. v = w <=> a.text = b.text
    BY <2>1
  <2> QED
    BY <1>3, <2>2 DEF SameArg, SameToken
<1>4. CASE a.rule = b.rule /\ a.rule = "dynamic"
  <2>1. PICK xs \in All(InnerArgs(a.args)) :
           v = [arg |-> "Dynamic", name |-> a.text, args |-> xs]
    BY <1>4, InstrArgIs
  <2>2. PICK ys \in All(InnerArgs(b.args)) :
           w = [arg |-> "Dynamic", name |-> b.text, args |-> ys]
    BY <1>4, InstrArgIs
  <2>3. v = w <=> a.text = b.text /\ xs = ys
    BY <2>1, <2>2
  <2>4. AreTokens(a.args) /\ AreTokens(b.args)
    BY <1>4 DEF IsArg, AreTokens
  <2>5. xs = ys <=> Alike(SameToken, a.args, b.args)
    BY <2>4, InnerArgsTell
  <2> QED
    BY <1>4, <2>3, <2>5 DEF SameArg, SameToken
<1> QED
  BY <1>1, <1>2, <1>3, <1>4, InstrArgIs

InstrArgs(xs) == [i \in DOMAIN xs |-> InstrArg(xs[i])]

AreArgs(xs) == IsList(xs) /\ \A a \in Range(xs) : IsArg(a)

LEMMA InstrArgsPanics ==
    ASSUME NEW xs, AreArgs(xs)
    PROVE  All(InstrArgs(xs)) # {} <=> \A a \in Range(xs) : UsableArg(a)
<1>1. All(InstrArgs(xs)) = {} <=> \E i \in DOMAIN xs : InstrArg(xs[i]) = {}
  <2>1. All(InstrArgs(xs)) = {}
          <=> \E i \in DOMAIN InstrArgs(xs) : InstrArgs(xs)[i] = {}
    BY AllPanics
  <2> QED
    BY <2>1 DEF InstrArgs
<1>2. \A i \in DOMAIN xs : InstrArg(xs[i]) = {} <=> ~UsableArg(xs[i])
  BY InstrArgPanics DEF AreArgs, Range
<1> QED
  BY <1>1, <1>2 DEF Range

LEMMA InstrArgsAre ==
    ASSUME NEW xs, AreArgs(xs), NEW v \in All(InstrArgs(xs))
    PROVE  /\ ResultsFor(xs, InstrArgs(xs))
           /\ \A i \in DOMAIN xs : v[i] \in InstrArg(xs[i]) /\ IsArg(xs[i])
<1>1. /\ DOMAIN InstrArgs(xs) = DOMAIN xs
      /\ \A i \in DOMAIN xs : InstrArgs(xs)[i] = InstrArg(xs[i])
  BY DEF InstrArgs
<1>2. \A i \in DOMAIN InstrArgs(xs) : v[i] \in InstrArgs(xs)[i]
  BY AllSpec
<1> QED
  BY <1>1, <1>2 DEF AreArgs, ResultsFor, Range

LEMMA InstrArgsTell ==
    ASSUME NEW xs, AreArgs(xs), NEW ys, AreArgs(ys),
           NEW v \in All(InstrArgs(xs)), NEW w \in All(InstrArgs(ys))
    PROVE  v = w <=> Alike(SameArg, xs, ys)
<1>1. /\ \A i \in DOMAIN xs : v[i] \in InstrArg(xs[i]) /\ IsArg(xs[i])
      /\ \A i \in DOMAIN ys : w[i] \in InstrArg(ys[i]) /\ IsArg(ys[i])
      /\ ResultsFor(xs, InstrArgs(xs)) /\ ResultsFor(ys, InstrArgs(ys))
  BY InstrArgsAre
<1>2. \A i \in DOMAIN xs : i \in DOMAIN ys
        => (v[i] = w[i] <=> SameArg(xs[i], ys[i]))
  BY <1>1, InstrArgTells
<1>3. /\ v = w => Len(xs) = Len(ys)
      /\ Len(xs) = Len(ys) /\ Agree(xs, v, w) => v = w
  BY <1>1, AllEqual
<1>4. Len(xs) = Len(ys) => DOMAIN xs = DOMAIN ys
  BY SameDomain DEF AreArgs
<1> QED
  BY <1>2, <1>3, <1>4 DEF Alike, Agree

-----------------------------------------------------------------------------
(* An instruction that the tree has a place for, with an argument at least *)
(* and all of them usable.                                                 *)
UsableInstr(e) ==
    /\ e.rule = "instruction"
    /\ e.func \in {"task", "open", "debug", "ping"}
    /\ ArgsOf(e) # {}
    /\ \A a \in ArgsOf(e) : UsableArg(a)

(* The arguments of an instruction are those of its one list.              *)
LEMMA ArgsOfList ==
    ASSUME NEW e, IsArgs(e.args)
    PROVE  /\ e.args = <<>> => ArgsOf(e) = {}
           /\ e.args # <<>> => /\ ArgsOf(e) = Range(e.args[1])
                               /\ AreArgs(e.args[1])
<1>1. CASE e.args = <<>>
  BY <1>1 DEF ArgsOf
<1>2. CASE e.args # <<>>
  <2>1. DOMAIN e.args = {1} /\ Range(e.args) = {e.args[1]}
    BY <1>2, OptionFacts DEF IsArgs
  <2>2. ArgsOf(e) = Range(e.args[1])
    BY <2>1 DEF ArgsOf
  <2>3. AreArgs(e.args[1])
    BY <2>1 DEF IsArgs, AreArgs
  <2> QED
    BY <1>2, <2>2, <2>3
<1> QED
  BY <1>1, <1>2

(* As many results as elements.                                            *)
LEMMA AllIsList ==
    ASSUME NEW s, NEW rs, ResultsFor(s, rs), NEW v \in All(rs)
    PROVE  IsList(v) /\ Len(v) = Len(s)
<1>1. v = [i \in DOMAIN s |-> v[i]] /\ DOMAIN v = DOMAIN s
  BY AllSpec DEF ResultsFor
<1>2. DOMAIN s = 1..Len(s) /\ Len(s) \in Nat
  BY ListFacts DEF ResultsFor
<1>3. v \in [1..Len(s) -> Range(v)]
  BY <1>1, <1>2 DEF Range
<1>4. v \in Seq(Range(v))
  BY <1>2, <1>3
<1>5. Len(v) = Len(s)
  BY <1>1, <1>2, <1>4
<1> QED
  BY <1>4, <1>5 DEF IsList

(* What an instruction is built from, and into what.                       *)
Takes(e, xs, args) ==
    /\ e.rule = "instruction" /\ e.args # <<>> /\ xs = e.args[1]
    /\ AreArgs(xs) /\ xs # <<>>
    /\ args \in All(InstrArgs(xs)) /\ IsList(args) /\ args # <<>>
    /\ ArgsOf(e) = Range(xs)

Becomes(e, args, v) ==
    \/ /\ e.func = "task"
       /\ v = [instr |-> "Task", name |-> args[1], args |-> Tail(args)]
    \/ /\ e.func \in {"open", "debug", "ping"}
       /\ v = [instr |-> e.func, arg |-> args[1]]

(* The results of an instruction, from those of its arguments.             *)
LEMMA InstrIs ==
    ASSUME NEW e, IsExpr(e), NEW v \in build_ast_from_instr(e)
    PROVE  \E xs, args : Takes(e, xs, args) /\ Becomes(e, args, v)
<1>1. e.rule = "instruction" /\ IsArgs(e.args) /\ e.args # <<>>
  BY DEF build_ast_from_instr, IsExpr
<1>2. PICK xs : xs = e.args[1]
  OBVIOUS
<1>3. AreArgs(xs) /\ ArgsOf(e) = Range(xs)
  BY <1>1, <1>2, ArgsOfList
<1>4. PICK args \in All(InstrArgs(xs)) : v \in Instr(e.func, args)
  BY <1>1, <1>2 DEF build_ast_from_instr, Each, InstrArgs
<1>5. args # <<>> /\ Becomes(e, args, v)
  <2>1. args # <<>>
    BY <1>4 DEF Instr
  <2>2. CASE e.func = "task"
    BY <1>4, <2>1, <2>2 DEF Instr, Becomes
  <2>3. CASE e.func \in {"open", "debug", "ping"}
    BY <1>4, <2>1, <2>3 DEF Instr, Becomes
  <2>4. CASE e.func \notin {"task", "open", "debug", "ping"}
    BY <1>4, <2>1, <2>4 DEF Instr
  <2> QED
    BY <2>1, <2>2, <2>3, <2>4
<1>6. IsList(args) /\ Len(args) = Len(xs)
  BY <1>3, <1>4, InstrArgsAre, AllIsList
<1>7. xs # <<>>
  <2>1. Len(args) \in Nat /\ Len(args) >= 1
    BY <1>5, <1>6, ListFacts
  <2>2. Len(xs) \in Nat
    BY <1>3, ListFacts DEF AreArgs
  <2>3. Len(xs) >= 1
    BY <1>6, <2>1
  <2> QED
    BY <2>2, <2>3
<1> QED
  BY <1>1, <1>2, <1>3, <1>4, <1>5, <1>6, <1>7 DEF Takes

(* An instruction is built exactly when it is usable.                      *)
LEMMA InstrPanics ==
    ASSUME NEW e, IsExpr(e)
    PROVE  build_ast_from_instr(e) # {} <=> UsableInstr(e)
<1>1. ASSUME build_ast_from_instr(e) # {} PROVE UsableInstr(e)
  <2>1. PICK v \in build_ast_from_instr(e) : TRUE
    BY <1>1
  <2>2. PICK xs, args : Takes(e, xs, args) /\ Becomes(e, args, v)
    BY InstrIs
  <2>3. \A a \in Range(xs) : UsableArg(a)
    BY <2>2, InstrArgsPanics DEF Takes
  <2>4. Range(xs) # {}
    BY <2>2, ListFacts DEF Takes, AreArgs
  <2> QED
    BY <2>2, <2>3, <2>4 DEF UsableInstr, Takes, Becomes
<1>2. ASSUME UsableInstr(e) PROVE build_ast_from_instr(e) # {}
  <2>1. e.rule = "instruction" /\ IsArgs(e.args)
    BY <1>2 DEF UsableInstr, IsExpr
  <2>2. e.args # <<>> /\ AreArgs(e.args[1]) /\ ArgsOf(e) = Range(e.args[1])
    BY <1>2, <2>1, ArgsOfList DEF UsableInstr
  <2>3. PICK args \in All(InstrArgs(e.args[1])) : TRUE
    BY <1>2, <2>2, InstrArgsPanics DEF UsableInstr
  <2>4. args # <<>>
    <3>1. Len(args) = Len(e.args[1])
      BY <2>2, InstrArgsAre, AllIsList
    <3>2. e.args[1] # <<>> /\ Len(e.args[1]) >= 1 /\ Len(e.args[1]) \in Nat
      BY <1>2, <2>2, ListFacts DEF UsableInstr, AreArgs
    <3> QED
      BY <3>1, <3>2
  <2>5. Instr(e.func, args) # {}
    BY <1>2, <2>4 DEF Instr, UsableInstr
  <2> QED
    BY <2>1, <2>2, <2>3, <2>5 DEF build_ast_from_instr, Each, InstrArgs
<1> QED
  BY <1>1, <1>2

(* Two instructions become the same exactly when they say the same.        *)
LEMMA InstrTells ==
    ASSUME NEW e, IsExpr(e), NEW g, IsExpr(g),
           NEW v \in build_ast_from_instr(e), NEW w \in build_ast_from_instr(g)
    PROVE  v = w <=> SameInstr(e, g)
<1>1. PICK xs, args : Takes(e, xs, args) /\ Becomes(e, args, v)
  BY InstrIs
<1>2. PICK ys, brgs : Takes(g, ys, brgs) /\ Becomes(g, brgs, w)
  BY InstrIs
<1>3. args[1] = brgs[1] <=> SameArg(FirstArg(e), FirstArg(g))
  <2>1. /\ 1 \in DOMAIN xs /\ args[1] \in InstrArg(xs[1]) /\ IsArg(xs[1])
        /\ FirstArg(e) = xs[1]
    BY <1>1, InstrArgsAre, ListFacts DEF Takes, AreArgs, FirstArg
  <2>2. /\ 1 \in DOMAIN ys /\ brgs[1] \in InstrArg(ys[1]) /\ IsArg(ys[1])
        /\ FirstArg(g) = ys[1]
    BY <1>2, InstrArgsAre, ListFacts DEF Takes, AreArgs, FirstArg
  <2>3. args[1] = brgs[1] <=> SameArg(xs[1], ys[1])
    BY <2>1, <2>2, InstrArgTells
  <2> QED
    BY <2>1, <2>2, <2>3
<1>4. CASE e.func # g.func
  <2>1. v.instr # w.instr
    BY <1>1, <1>2, <1>4 DEF Becomes
  <2> QED
    BY <1>4, <2>1 DEF SameInstr
<1>5. CASE e.func = g.func /\ e.func = "task"
  <2>1. v = w <=> args[1] = brgs[1] /\ Tail(args) = Tail(brgs)
    <3>1. /\ v = [instr |-> "Task", name |-> args[1], args |-> Tail(args)]
          /\ w = [instr |-> "Task", name |-> brgs[1], args |-> Tail(brgs)]
      BY <1>1, <1>2, <1>5 DEF Becomes
    <3> QED
      BY <3>1
  <2>2. args[1] = brgs[1] /\ Tail(args) = Tail(brgs) => args = brgs
    <3>1. PICK R : args \in Seq(R) /\ brgs \in Seq(R)
      <4>1. args \in Seq(Range(args)) /\ brgs \in Seq(Range(brgs))
        BY <1>1, <1>2 DEF Takes, IsList
      <4>2. /\ args \in Seq(Range(args) \cup Range(brgs))
            /\ brgs \in Seq(Range(args) \cup Range(brgs))
        BY <4>1
      <4> QED
        BY <4>2
    <3> QED
      BY <1>1, <1>2, <3>1, HeadTail DEF Takes
  <2>3. args = brgs <=> Alike(SameArg, xs, ys)
    BY <1>1, <1>2, InstrArgsTell DEF Takes
  <2> QED
    BY <1>1, <1>2, <1>5, <2>1, <2>2, <2>3 DEF SameInstr, Takes
<1>6. CASE e.func = g.func /\ e.func # "task"
  <2>1. v = w <=> args[1] = brgs[1]
    BY <1>1, <1>2, <1>6 DEF Becomes
  <2> QED
    BY <1>3, <1>6, <2>1 DEF SameInstr
<1> QED
  BY <1>4, <1>5, <1>6

Instrs(body) == [i \in DOMAIN body |-> build_ast_from_instr(body[i])]

AreExprs(body) == IsList(body) /\ \A e \in Range(body) : IsExpr(e)

LEMMA InstrsPanic ==
    ASSUME NEW body, AreExprs(body)
    PROVE  All(Instrs(body)) # {} <=> \A e \in Range(body) : UsableInstr(e)
<1>1. All(Instrs(body)) = {}
        <=> \E i \in DOMAIN body : build_ast_from_instr(body[i]) = {}
  <2>1. All(Instrs(body)) = {}
          <=> \E i \in DOMAIN Instrs(body) : Instrs(body)[i] = {}
    BY AllPanics
  <2> QED
    BY <2>1 DEF Instrs
<1>2. \A i \in DOMAIN body :
         build_ast_from_instr(body[i]) = {} <=> ~UsableInstr(body[i])
  BY InstrPanics DEF AreExprs, Range
<1> QED
  BY <1>1, <1>2 DEF Range

LEMMA InstrsAre ==
    ASSUME NEW body, AreExprs(body), NEW v \in All(Instrs(body))
    PROVE  /\ ResultsFor(body, Instrs(body))
           /\ \A i \in DOMAIN body :
                 v[i] \in build_ast_from_instr(body[i]) /\ IsExpr(body[i])
<1>1. /\ DOMAIN Instrs(body) = DOMAIN body
      /\ \A i \in DOMAIN body :
            Instrs(body)[i] = build_ast_from_instr(body[i])
  BY DEF Instrs
<1>2. \A i \in DOMAIN Instrs(body) : v[i] \in Instrs(body)[i]
  BY AllSpec
<1> QED
  BY <1>1, <1>2 DEF AreExprs, ResultsFor, Range

LEMMA InstrsTell ==
    ASSUME NEW s, AreExprs(s), NEW t, AreExprs(t),
           NEW v \in All(Instrs(s)), NEW w \in All(Instrs(t))
    PROVE  v = w <=> Alike(SameInstr, s, t)
<1>1. /\ \A i \in DOMAIN s : v[i] \in build_ast_from_instr(s[i]) /\ IsExpr(s[i])
      /\ \A i \in DOMAIN t : w[i] \in build_ast_from_instr(t[i]) /\ IsExpr(t[i])
      /\ ResultsFor(s, Instrs(s)) /\ ResultsFor(t, Instrs(t))
  BY InstrsAre
<1>2. \A i \in DOMAIN s : i \in DOMAIN t
        => (v[i] = w[i] <=> SameInstr(s[i], t[i]))
  BY <1>1, InstrTells
<1>3. /\ v = w => Len(s) = Len(t)
      /\ Len(s) = Len(t) /\ Agree(s, v, w) => v = w
  BY <1>1, AllEqual
<1>4. Len(s) = Len(t) => DOMAIN s = DOMAIN t
  BY SameDomain DEF AreExprs
<1> QED
  BY <1>2, <1>3, <1>4 DEF Alike, Agree

-----------------------------------------------------------------------------
(* An instruction of a machine: a port that fits, any profile, a quoted    *)
(* path.                                                                   *)
UsableMInstr(m) ==
    /\ ArgsOf(m) # {}
    /\ \/ m.func = "server" /\ FirstArg(m).rule = "digits"
                            /\ PortOf[FirstArg(m).text] < 2^16
       \/ m.func = "profile"
       \/ m.func = "path" /\ FirstArg(m).rule = "quoted"

LEMMA FirstArgThere ==
    ASSUME NEW m, IsArgs(m.args)
    PROVE  /\ ArgsOf(m) = {} <=> m.args = <<>> \/ m.args = <<(<<>>)>>
           /\ ArgsOf(m) # {} => IsArg(FirstArg(m))
<1>1. CASE m.args = <<>>
  BY <1>1, ArgsOfList
<1>2. CASE m.args # <<>>
  <2>1. /\ ArgsOf(m) = Range(m.args[1]) /\ AreArgs(m.args[1])
        /\ IsList(m.args) /\ Len(m.args) = 1
    BY <1>2, ArgsOfList, OptionFacts DEF IsArgs, IsOption
  <2>2. m.args[1] = <<>> <=> Range(m.args[1]) = {}
    BY <2>1, ListFacts DEF AreArgs
  <2>3. m.args = <<(<<>>)>> <=> m.args[1] = <<>>
    BY <2>1 DEF IsList
  <2>4. m.args[1] # <<>> => IsArg(FirstArg(m))
    BY <2>1, ListFacts DEF AreArgs, FirstArg
  <2> QED
    BY <1>2, <2>1, <2>2, <2>3, <2>4
<1> QED
  BY <1>1, <1>2

LEMMA MInstrPanics ==
    ASSUME NEW m, IsArgs(m.args)
    PROVE  build_ast_from_minstr(m) # {} <=> UsableMInstr(m)
<1>1. CASE ArgsOf(m) = {}
  BY <1>1, FirstArgThere DEF build_ast_from_minstr, UsableMInstr
<1>2. CASE ArgsOf(m) # {}
  <2>1. build_ast_from_minstr(m) = MInstr(m.func, FirstArg(m))
    BY <1>2, FirstArgThere DEF build_ast_from_minstr, FirstArg
  <2>2. PICK a : a = FirstArg(m) /\ IsToken(a)
    BY <1>2, FirstArgThere DEF IsArg
  <2>3. string_from_argument(a) # {} <=> a.rule = "quoted"
    BY <2>2 DEF string_from_argument, FirstNested, IsToken
  <2>4. CASE m.func = "server"
    BY <1>2, <2>1, <2>2, <2>4 DEF MInstr, UsableMInstr
  <2>5. CASE m.func = "profile"
    BY <1>2, <2>1, <2>2, <2>5 DEF MInstr, UsableMInstr
  <2>6. CASE m.func = "path"
    BY <1>2, <2>1, <2>2, <2>3, <2>6 DEF MInstr, UsableMInstr
  <2>7. CASE m.func \notin {"server", "profile", "path"}
    BY <1>2, <2>1, <2>7 DEF MInstr, UsableMInstr
  <2> QED
    BY <2>4, <2>5, <2>6, <2>7
<1> QED
  BY <1>1, <1>2

LEMMA MInstrIs ==
    ASSUME NEW m, IsArgs(m.args), NEW v \in build_ast_from_minstr(m)
    PROVE  /\ m.func \in {"server", "profile", "path"}
           /\ m.func = "server" =>
                v = [instr |-> "Server", port |-> PortOf[FirstArg(m).text]]
           /\ m.func = "profile" =>
                v = [instr |-> "Profile", target |-> FirstArg(m)]
           /\ m.func = "path" =>
                /\ v = [instr |-> "Path", value |-> FirstArg(m).text]
                /\ FirstArg(m) = [rule |-> "quoted", text |-> FirstArg(m).text]
<1>1. UsableMInstr(m)
  BY MInstrPanics
<1>2. IsArg(FirstArg(m)) /\ v \in MInstr(m.func, FirstArg(m))
  BY <1>1, FirstArgThere DEF build_ast_from_minstr, FirstArg, UsableMInstr
<1>3. m.func \in {"server", "profile", "path"}
  BY <1>1 DEF UsableMInstr
<1>4. CASE m.func = "server"
  BY <1>2, <1>4 DEF MInstr
<1>5. CASE m.func = "profile"
  BY <1>2, <1>5 DEF MInstr
<1>6. CASE m.func = "path"
  BY <1>1, <1>2, <1>6
     DEF MInstr, UsableMInstr, string_from_argument, FirstNested, IsArg
<1> QED
  BY <1>3, <1>4, <1>5, <1>6

LEMMA MInstrTells ==
    ASSUME NEW m, IsArgs(m.args), NEW n, IsArgs(n.args),
           NEW v \in build_ast_from_minstr(m), NEW w \in build_ast_from_minstr(n)
    PROVE  v = w <=> SameMInstr(m, n)
<1> DEFINE a == FirstArg(m)
           b == FirstArg(n)
<1>1. CASE m.func # n.func
  <2>1. v.instr # w.instr
    BY <1>1, MInstrIs
  <2> QED
    BY <1>1, <2>1 DEF SameMInstr
<1>2. CASE m.func = n.func /\ m.func = "server"
  <2>1. /\ v = [instr |-> "Server", port |-> PortOf[a.text]]
        /\ w = [instr |-> "Server", port |-> PortOf[b.text]]
    BY <1>2, MInstrIs
  <2>2. v = w <=> PortOf[a.text] = PortOf[b.text]
    BY <2>1
  <2> QED
    BY <1>2, <2>2 DEF SameMInstr
<1>3. CASE m.func = n.func /\ m.func = "profile"
  <2>1. /\ v = [instr |-> "Profile", target |-> a]
        /\ w = [instr |-> "Profile", target |-> b]
    BY <1>3, MInstrIs
  <2>2. v = w <=> a = b
    BY <2>1
  <2> QED
    BY <1>3, <2>2 DEF SameMInstr
<1>4. CASE m.func = n.func /\ m.func = "path"
  <2>1. /\ v = [instr |-> "Path", value |-> a.text]
        /\ w = [instr |-> "Path", value |-> b.text]
        /\ a = [rule |-> "quoted", text |-> a.text]
        /\ b = [rule |-> "quoted", text |-> b.text]
    BY <1>4, MInstrIs
  <2>2. v = w <=> a.text = b.text
    BY <2>1
  <2>3. a = b <=> a.text = b.text
    BY <2>1
  <2> QED
    BY <1>4, <2>2, <2>3 DEF SameMInstr
<1> QED
  BY <1>1, <1>2, <1>3, <1>4, MInstrIs

MInstrs(body) == [i \in DOMAIN body |-> build_ast_from_minstr(body[i])]

AreMInstrs(body) == IsList(body) /\ \A m \in Range(body) : IsArgs(m.args)

LEMMA MInstrsPanic ==
    ASSUME NEW body, AreMInstrs(body)
    PROVE  All(MInstrs(body)) # {} <=> \A m \in Range(body) : UsableMInstr(m)
<1>1. All(MInstrs(body)) = {}
        <=> \E i \in DOMAIN body : build_ast_from_minstr(body[i]) = {}
  <2>1. All(MInstrs(body)) = {}
          <=> \E i \in DOMAIN MInstrs(body) : MInstrs(body)[i] = {}
    BY AllPanics
  <2> QED
    BY <2>1 DEF MInstrs
<1>2. \A i \in DOMAIN body :
         build_ast_from_minstr(body[i]) = {} <=> ~UsableMInstr(body[i])
  BY MInstrPanics DEF AreMInstrs, Range
<1> QED
  BY <1>1, <1>2 DEF Range

LEMMA MInstrsAre ==
    ASSUME NEW body, AreMInstrs(body), NEW v \in All(MInstrs(body))
    PROVE  /\ ResultsFor(body, MInstrs(body))
           /\ \A i \in DOMAIN body :
                 v[i] \in build_ast_from_minstr(body[i]) /\ IsArgs(body[i].args)
<1>1. /\ DOMAIN MInstrs(body) = DOMAIN body
      /\ \A i \in DOMAIN body :
            MInstrs(body)[i] = build_ast_from_minstr(body[i])
  BY DEF MInstrs
<1>2. \A i \in DOMAIN MInstrs(body) : v[i] \in MInstrs(body)[i]
  BY AllSpec
<1> QED
  BY <1>1, <1>2 DEF AreMInstrs, ResultsFor, Range

LEMMA MInstrsTell ==
    ASSUME NEW s, AreMInstrs(s), NEW t, AreMInstrs(t),
           NEW v \in All(MInstrs(s)), NEW w \in All(MInstrs(t))
    PROVE  v = w <=> Alike(SameMInstr, s, t)
<1>1. /\ \A i \in DOMAIN s :
            v[i] \in build_ast_from_minstr(s[i]) /\ IsArgs(s[i].args)
      /\ \A i \in DOMAIN t :
            w[i] \in build_ast_from_minstr(t[i]) /\ IsArgs(t[i].args)
      /\ ResultsFor(s, MInstrs(s)) /\ ResultsFor(t, MInstrs(t))
  BY MInstrsAre
<1>2. \A i \in DOMAIN s : i \in DOMAIN t
        => (v[i] = w[i] <=> SameMInstr(s[i], t[i]))
  BY <1>1, MInstrTells
<1>3. /\ v = w => Len(s) = Len(t)
      /\ Len(s) = Len(t) /\ Agree(s, v, w) => v = w
  BY <1>1, AllEqual
<1>4. Len(s) = Len(t) => DOMAIN s = DOMAIN t
  BY SameDomain DEF AreMInstrs
<1> QED
  BY <1>2, <1>3, <1>4 DEF Alike, Agree

-----------------------------------------------------------------------------
(* A set of indexes that is not empty has a last one.                      *)
LEMMA MaxOfIndexes ==
    ASSUME NEW n \in Nat, NEW T \in SUBSET (1..n), T # {}
    PROVE  Max(T) \in T /\ \A i \in T : i <= Max(T)
<1> DEFINE D == {n - i : i \in T}
<1>1. D \in SUBSET Nat /\ D # {}
  OBVIOUS
<1>2. PICK d \in D : \A c \in D : ~(<<c, d>> \in OpToRel(<, Nat))
  BY <1>1, NatLessThanWellFounded, WFMin
<1>3. \A c \in Nat : c \in D => ~(c < d)
  BY <1>1, <1>2 DEF OpToRel
<1>4. PICK x \in T : d = n - x
  BY <1>2
<1>5. \A i \in T : x >= i
  <2> SUFFICES ASSUME NEW i \in T PROVE x >= i
    OBVIOUS
  <2>1. n - i \in Nat /\ n - i \in D /\ x \in Nat /\ i \in Nat
    OBVIOUS
  <2>2. ~(n - i < n - x)
    BY <1>3, <1>4, <2>1
  <2> QED
    BY <2>1, <2>2
<1>6. Max(T) \in T /\ \A i \in T : Max(T) >= i
  BY <1>5 DEF Max
<1>7. \A i \in T : i \in Nat
  OBVIOUS
<1> QED
  BY <1>6, <1>7

(* collect leaves every key with the last value given for it.              *)
LEMMA CollectSpec ==
    ASSUME NEW kvs, IsBindings(kvs), NEW k, NEW v
    PROVE  /\ k \in DOMAIN Collect(kvs) <=> \E i \in DOMAIN kvs : kvs[i].key = k
           /\ LastWord(kvs, k, v)
                <=> k \in DOMAIN Collect(kvs) /\ Collect(kvs)[k] = v
<1> DEFINE T == {i \in DOMAIN kvs : kvs[i].key = k}
<1>1. /\ Len(kvs) \in Nat /\ DOMAIN kvs = 1..Len(kvs)
      /\ \A i \in DOMAIN kvs :
            kvs[i] = [key |-> kvs[i].key, value |-> kvs[i].value]
  BY ListFacts DEF IsBindings
<1>2. k \in DOMAIN Collect(kvs) <=> \E i \in DOMAIN kvs : kvs[i].key = k
  BY DEF Collect
<1>3. ASSUME LastWord(kvs, k, v)
      PROVE  k \in DOMAIN Collect(kvs) /\ Collect(kvs)[k] = v
  <2>1. PICK i \in DOMAIN kvs : /\ kvs[i] = [key |-> k, value |-> v]
                                /\ \A j \in DOMAIN kvs : j > i => kvs[j].key # k
    BY <1>3 DEF LastWord
  <2>2. i \in T /\ T \in SUBSET (1..Len(kvs)) /\ T # {}
    BY <1>1, <2>1
  <2>3. Max(T) \in T /\ i <= Max(T)
    BY <1>1, <2>2, MaxOfIndexes
  <2>4. Max(T) = i
    BY <1>1, <2>1, <2>2, <2>3
  <2>5. Collect(kvs)[k] = kvs[Max(T)].value
    BY <1>2, <2>2 DEF Collect
  <2> QED
    BY <1>2, <2>1, <2>4, <2>5
<1>4. ASSUME k \in DOMAIN Collect(kvs), Collect(kvs)[k] = v
      PROVE  LastWord(kvs, k, v)
  <2>1. T \in SUBSET (1..Len(kvs)) /\ T # {}
    BY <1>1, <1>2, <1>4
  <2>2. Max(T) \in T /\ \A i \in T : i <= Max(T)
    BY <1>1, <2>1, MaxOfIndexes
  <2>3. Collect(kvs)[k] = kvs[Max(T)].value
    BY <1>4 DEF Collect
  <2>4. kvs[Max(T)] = [key |-> k, value |-> v]
    BY <1>1, <1>4, <2>2, <2>3
  <2>5. \A j \in DOMAIN kvs : j > Max(T) => kvs[j].key # k
    <3>1. PICK m : m = Max(T)
      OBVIOUS
    <3>2. m \in Nat /\ \A j \in DOMAIN kvs : j \in Nat
      BY <1>1, <2>2, <3>1
    <3>3. \A j \in DOMAIN kvs : kvs[j].key = k => j <= m
      BY <2>2, <3>1
    <3>4. \A j \in DOMAIN kvs : j > m => kvs[j].key # k
      BY <3>2, <3>3
    <3> QED
      BY <3>1, <3>4
  <2> QED
    BY <2>2, <2>4, <2>5 DEF LastWord
<1> QED
  BY <1>2, <1>3, <1>4

(* The map of the parameters tells their last words, and nothing else.     *)
LEMMA CollectTells ==
    ASSUME NEW p, IsBindings(p), NEW q, IsBindings(q)
    PROVE  Collect(p) = Collect(q) <=> SameParams(p, q)
<1>1. ASSUME Collect(p) = Collect(q) PROVE SameParams(p, q)
  BY <1>1, CollectSpec DEF SameParams
<1>2. ASSUME SameParams(p, q) PROVE Collect(p) = Collect(q)
  <2>1. \A k \in DOMAIN Collect(p) :
           k \in DOMAIN Collect(q) /\ Collect(q)[k] = Collect(p)[k]
    <3> SUFFICES ASSUME NEW k \in DOMAIN Collect(p)
                 PROVE  k \in DOMAIN Collect(q) /\ Collect(q)[k] = Collect(p)[k]
      OBVIOUS
    <3>1. LastWord(p, k, Collect(p)[k])
      BY CollectSpec
    <3>2. [key |-> k, value |-> Collect(p)[k]] \in Range(p)
      BY <3>1 DEF LastWord, Range
    <3>3. LastWord(q, k, Collect(p)[k])
      BY <1>2, <3>1, <3>2 DEF SameParams
    <3> QED
      BY <3>3, CollectSpec
  <2>2. \A k \in DOMAIN Collect(q) : k \in DOMAIN Collect(p)
    <3> SUFFICES ASSUME NEW k \in DOMAIN Collect(q) PROVE k \in DOMAIN Collect(p)
      OBVIOUS
    <3>1. LastWord(q, k, Collect(q)[k])
      BY CollectSpec
    <3>2. [key |-> k, value |-> Collect(q)[k]] \in Range(q)
      BY <3>1 DEF LastWord, Range
    <3>3. LastWord(p, k, Collect(q)[k])
      BY <1>2, <3>1, <3>2 DEF SameParams
    <3> QED
      BY <3>3, CollectSpec
  <2>3. DOMAIN Collect(p) = DOMAIN Collect(q)
    BY <2>1, <2>2
  <2>4. /\ Collect(p) = [k \in DOMAIN Collect(p) |-> Collect(p)[k]]
        /\ Collect(q) = [k \in DOMAIN Collect(q) |-> Collect(q)[k]]
    BY DEF Collect
  <2> QED
    BY <2>1, <2>3, <2>4
<1> QED
  BY <1>1, <1>2

-----------------------------------------------------------------------------
(* The rate of a distribution is the one its text is, if it is one.        *)
LEMMA RateIs ==
    ASSUME NEW d, IsBindings(d.opts), NEW t,
           t = IF "rate" \in DOMAIN Collect(d.opts)
                 THEN Collect(d.opts)["rate"] ELSE "0",
           NEW r
    PROVE  Rate(d, r) <=> t \in DOMAIN RateOf /\ r = RateOf[t]
<1>1. CASE "rate" \in DOMAIN Collect(d.opts)
  <2>1. t = Collect(d.opts)["rate"]
    BY <1>1
  <2>2. \E i \in DOMAIN d.opts : d.opts[i].key = "rate"
    BY <1>1, CollectSpec
  <2>3. \A u : LastWord(d.opts, "rate", u) <=> u = t
    BY <1>1, <2>1, CollectSpec
  <2> QED
    BY <2>2, <2>3 DEF Rate
<1>2. CASE "rate" \notin DOMAIN Collect(d.opts)
  <2>1. \A i \in DOMAIN d.opts : d.opts[i].key # "rate"
    BY <1>2, CollectSpec
  <2>2. \A u : ~LastWord(d.opts, "rate", u)
    BY <1>2, CollectSpec
  <2> QED
    BY <1>2, <2>1, <2>2, ScriptAssumption DEF Rate
<1> QED
  BY <1>1, <1>2

UsableDist(d) == \E r \in Rates : Rate(d, r)

LEMMA DistIs ==
    ASSUME NEW d, IsBindings(d.opts), NEW v \in build_ast_from_dist(d)
    PROVE  \E rate \in Rates : /\ v = [dist |-> "Exp", rate |-> rate]
                               /\ \A r : Rate(d, r) <=> r = rate
<1>1. PICK t : t = IF "rate" \in DOMAIN Collect(d.opts)
                     THEN Collect(d.opts)["rate"] ELSE "0"
  OBVIOUS
<1>2. t \in DOMAIN RateOf /\ v = [dist |-> "Exp", rate |-> RateOf[t]]
  BY <1>1 DEF build_ast_from_dist
<1>3. \A r : Rate(d, r) <=> t \in DOMAIN RateOf /\ r = RateOf[t]
  BY <1>1, RateIs
<1>4. RateOf[t] \in Rates
  BY <1>2 DEF Rates, Range
<1> QED
  BY <1>2, <1>3, <1>4

LEMMA DistPanics ==
    ASSUME NEW d, IsBindings(d.opts)
    PROVE  build_ast_from_dist(d) # {} <=> UsableDist(d)
<1>1. PICK t : t = IF "rate" \in DOMAIN Collect(d.opts)
                     THEN Collect(d.opts)["rate"] ELSE "0"
  OBVIOUS
<1>2. build_ast_from_dist(d) # {} <=> t \in DOMAIN RateOf
  BY <1>1 DEF build_ast_from_dist
<1>3. \A r : Rate(d, r) <=> t \in DOMAIN RateOf /\ r = RateOf[t]
  BY <1>1, RateIs
<1> QED
  BY <1>2, <1>3 DEF UsableDist, Rates, Range

LEMMA DistTells ==
    ASSUME NEW d, IsBindings(d.opts), NEW e, IsBindings(e.opts),
           NEW v \in build_ast_from_dist(d), NEW w \in build_ast_from_dist(e)
    PROVE  v = w <=> SameDist(d, e)
<1>1. PICK p \in Rates : /\ v = [dist |-> "Exp", rate |-> p]
                         /\ \A r : Rate(d, r) <=> r = p
  BY DistIs
<1>2. PICK q \in Rates : /\ w = [dist |-> "Exp", rate |-> q]
                         /\ \A r : Rate(e, r) <=> r = q
  BY DistIs
<1>3. v = w <=> p = q
  BY <1>1, <1>2
<1>4. SameDist(d, e) <=> p = q
  BY <1>1, <1>2 DEF SameDist
<1> QED
  BY <1>3, <1>4

Dists(ds) == [i \in DOMAIN ds |-> build_ast_from_dist(ds[i])]

AreDists(ds) == IsList(ds) /\ \A d \in Range(ds) : IsBindings(d.opts)

LEMMA DistsPanic ==
    ASSUME NEW ds, AreDists(ds)
    PROVE  All(Dists(ds)) # {} <=> \A d \in Range(ds) : UsableDist(d)
<1>1. All(Dists(ds)) = {}
        <=> \E i \in DOMAIN ds : build_ast_from_dist(ds[i]) = {}
  <2>1. All(Dists(ds)) = {} <=> \E i \in DOMAIN Dists(ds) : Dists(ds)[i] = {}
    BY AllPanics
  <2> QED
    BY <2>1 DEF Dists
<1>2. \A i \in DOMAIN ds : build_ast_from_dist(ds[i]) = {} <=> ~UsableDist(ds[i])
  BY DistPanics DEF AreDists, Range
<1> QED
  BY <1>1, <1>2 DEF Range

LEMMA DistsAre ==
    ASSUME NEW ds, AreDists(ds), NEW v \in All(Dists(ds))
    PROVE  /\ ResultsFor(ds, Dists(ds))
           /\ \A i \in DOMAIN ds :
                 v[i] \in build_ast_from_dist(ds[i]) /\ IsBindings(ds[i].opts)
<1>1. /\ DOMAIN Dists(ds) = DOMAIN ds
      /\ \A i \in DOMAIN ds : Dists(ds)[i] = build_ast_from_dist(ds[i])
  BY DEF Dists
<1>2. \A i \in DOMAIN Dists(ds) : v[i] \in Dists(ds)[i]
  BY AllSpec
<1> QED
  BY <1>1, <1>2 DEF AreDists, ResultsFor, Range

LEMMA DistsTell ==
    ASSUME NEW s, AreDists(s), NEW t, AreDists(t),
           NEW v \in All(Dists(s)), NEW w \in All(Dists(t))
    PROVE  v = w <=> Alike(SameDist, s, t)
<1>1. /\ \A i \in DOMAIN s :
            v[i] \in build_ast_from_dist(s[i]) /\ IsBindings(s[i].opts)
      /\ \A i \in DOMAIN t :
            w[i] \in build_ast_from_dist(t[i]) /\ IsBindings(t[i].opts)
      /\ ResultsFor(s, Dists(s)) /\ ResultsFor(t, Dists(t))
  BY DistsAre
<1>2. \A i \in DOMAIN s : i \in DOMAIN t
        => (v[i] = w[i] <=> SameDist(s[i], t[i]))
  BY <1>1, DistTells
<1>3. /\ v = w => Len(s) = Len(t)
      /\ Len(s) = Len(t) /\ Agree(s, v, w) => v = w
  BY <1>1, AllEqual
<1>4. Len(s) = Len(t) => DOMAIN s = DOMAIN t
  BY SameDomain DEF AreDists
<1> QED
  BY <1>2, <1>3, <1>4 DEF Alike, Agree

-----------------------------------------------------------------------------
(* The parameters have to be there, if only as an empty list.              *)
LEMMA WorkIs ==
    ASSUME NEW f, IsFunction(f)
    PROVE  /\ f.params = <<>> => build_ast_from_work(f) = {}
           /\ f.params # <<>> =>
                /\ build_ast_from_work(f) = {Collect(f.params[1])}
                /\ IsBindings(f.params[1])
                /\ Len(f.params) = 1 /\ DOMAIN f.params = {1}
<1>1. CASE f.params = <<>>
  BY <1>1 DEF build_ast_from_work, Range
<1>2. CASE f.params # <<>>
  <2>1. /\ Range(f.params) = {f.params[1]}
        /\ Len(f.params) = 1 /\ DOMAIN f.params = {1}
    BY <1>2, OptionFacts DEF IsFunction
  <2> QED
    BY <1>2, <2>1 DEF build_ast_from_work, IsFunction
<1> QED
  BY <1>1, <1>2

LEMMA FunctionIs ==
    ASSUME NEW f
    PROVE  /\ build_ast_from_function(f) # {}
                <=> /\ build_ast_from_work(f) # {}
                    /\ All(Instrs(f.body)) # {}
                    /\ All(Dists(f.dist)) # {}
           /\ \A v \in build_ast_from_function(f) :
                 \E a \in build_ast_from_work(f), b \in All(Instrs(f.body)),
                    c \in All(Dists(f.dist)) :
                    v = [node |-> "Work", name |-> f.name, args |-> a,
                         instructions |-> b, dist |-> c]
<1>1. build_ast_from_function(f)
        = {[node |-> "Work", name |-> f.name, args |-> r[1],
            instructions |-> r[2], dist |-> r[3]] :
              r \in build_ast_from_work(f) \X All(Instrs(f.body))
                                           \X All(Dists(f.dist))}
  BY DEF build_ast_from_function, Each, Instrs, Dists
<1>2. ASSUME NEW a \in build_ast_from_work(f), NEW b \in All(Instrs(f.body)),
             NEW c \in All(Dists(f.dist))
      PROVE  build_ast_from_function(f) # {}
  <2>1. <<a, b, c>> \in build_ast_from_work(f) \X All(Instrs(f.body))
                                               \X All(Dists(f.dist))
    OBVIOUS
  <2> QED
    BY <1>1, <2>1
<1>3. ASSUME NEW v \in build_ast_from_function(f)
      PROVE  \E a \in build_ast_from_work(f), b \in All(Instrs(f.body)),
                c \in All(Dists(f.dist)) :
                v = [node |-> "Work", name |-> f.name, args |-> a,
                     instructions |-> b, dist |-> c]
  <2>1. PICK r \in build_ast_from_work(f) \X All(Instrs(f.body))
                                          \X All(Dists(f.dist)) :
           v = [node |-> "Work", name |-> f.name, args |-> r[1],
                instructions |-> r[2], dist |-> r[3]]
    BY <1>1
  <2>2. /\ r[1] \in build_ast_from_work(f) /\ r[2] \in All(Instrs(f.body))
        /\ r[3] \in All(Dists(f.dist))
    OBVIOUS
  <2> QED
    BY <2>1, <2>2
<1> QED
  BY <1>2, <1>3

UsableFunction(f) ==
    /\ f.params # <<>>
    /\ \A d \in Range(f.dist) : UsableDist(d)
    /\ \A e \in Range(f.body) : UsableInstr(e)

LEMMA FunctionPanics ==
    ASSUME NEW f, IsFunction(f)
    PROVE  build_ast_from_function(f) # {} <=> UsableFunction(f)
<1>1. AreExprs(f.body) /\ AreDists(f.dist)
  BY DEF IsFunction, AreExprs, AreDists, IsOption
<1>2. build_ast_from_work(f) # {} <=> f.params # <<>>
  BY WorkIs
<1>3. All(Instrs(f.body)) # {} <=> \A e \in Range(f.body) : UsableInstr(e)
  BY <1>1, InstrsPanic
<1>4. All(Dists(f.dist)) # {} <=> \A d \in Range(f.dist) : UsableDist(d)
  BY <1>1, DistsPanic
<1> QED
  BY <1>2, <1>3, <1>4, FunctionIs DEF UsableFunction

LEMMA FunctionTells ==
    ASSUME NEW f, IsFunction(f), NEW g, IsFunction(g),
           NEW v \in build_ast_from_function(f),
           NEW w \in build_ast_from_function(g)
    PROVE  v = w <=> /\ f.name = g.name
                     /\ Alike(SameParams, f.params, g.params)
                     /\ Alike(SameInstr, f.body, g.body)
                     /\ Alike(SameDist, f.dist, g.dist)
<1>0. /\ AreExprs(f.body) /\ AreDists(f.dist)
      /\ AreExprs(g.body) /\ AreDists(g.dist)
  BY DEF IsFunction, AreExprs, AreDists, IsOption
<1>1. PICK a \in build_ast_from_work(f), b \in All(Instrs(f.body)),
           c \in All(Dists(f.dist)) :
              v = [node |-> "Work", name |-> f.name, args |-> a,
                   instructions |-> b, dist |-> c]
  BY FunctionIs
<1>2. PICK p \in build_ast_from_work(g), q \in All(Instrs(g.body)),
           r \in All(Dists(g.dist)) :
              w = [node |-> "Work", name |-> g.name, args |-> p,
                   instructions |-> q, dist |-> r]
  BY FunctionIs
<1>3. v = w <=> f.name = g.name /\ a = p /\ b = q /\ c = r
  BY <1>1, <1>2
<1>4. a = p <=> Alike(SameParams, f.params, g.params)
  <2>1. /\ a = Collect(f.params[1]) /\ p = Collect(g.params[1])
        /\ IsBindings(f.params[1]) /\ IsBindings(g.params[1])
        /\ Len(f.params) = Len(g.params) /\ DOMAIN f.params = {1}
    BY WorkIs
  <2>2. a = p <=> SameParams(f.params[1], g.params[1])
    BY <2>1, CollectTells
  <2> QED
    BY <2>1, <2>2 DEF Alike
<1>5. b = q <=> Alike(SameInstr, f.body, g.body)
  BY <1>0, InstrsTell
<1>6. c = r <=> Alike(SameDist, f.dist, g.dist)
  BY <1>0, DistsTell
<1> QED
  BY <1>3, <1>4, <1>5, <1>6

-----------------------------------------------------------------------------
(* No item that a tree can be built for panics, and every other does,      *)
(* wherever the expects, unwraps and asserts of the builders are.          *)
THEOREM BuildsTheUsable ==
    ASSUME NEW item \in Items
    PROVE  build_ast_from_expr(item) # {} <=> Usable(item)
<1>1. CASE item.rule = "machine"
  <2>1. AreMInstrs(item.body)
    BY <1>1, ScriptAssumption DEF IsMachine, AreMInstrs
  <2>2. build_ast_from_expr(item) # {} <=> All(MInstrs(item.body)) # {}
    BY <1>1 DEF build_ast_from_expr, Each, MInstrs
  <2>3. build_ast_from_expr(item) # {}
          <=> \A m \in Range(item.body) : UsableMInstr(m)
    BY <2>1, <2>2, MInstrsPanic
  <2> QED
    BY <1>1, <2>3 DEF Usable, UsableMInstr
<1>2. CASE item.rule = "function"
  <2>1. IsFunction(item)
    BY <1>2, ScriptAssumption
  <2>2. build_ast_from_expr(item) = build_ast_from_function(item)
    BY <1>2 DEF build_ast_from_expr
  <2>3. build_ast_from_expr(item) # {} <=> UsableFunction(item)
    BY <2>1, <2>2, FunctionPanics
  <2> QED
    BY <1>2, <2>3
       DEF Usable, UsableFunction, UsableInstr, UsableArg, UsableInner, UsableDist
<1>3. CASE item.rule \notin {"machine", "function"}
  BY <1>3 DEF build_ast_from_expr, Usable
<1> QED
  BY <1>1, <1>2, <1>3

(* The node of an item tells everything about it but what SameMeaning      *)
(* leaves out.                                                             *)
THEOREM NodesTell ==
    ASSUME NEW s \in Items, NEW t \in Items,
           NEW v \in build_ast_from_expr(s), NEW w \in build_ast_from_expr(t)
    PROVE  v = w <=> SameMeaning(s, t)
<1>1. \A x \in Items : \A u \in build_ast_from_expr(x) :
         /\ x.rule \in {"machine", "function"}
         /\ x.rule = "machine" =>
              /\ AreMInstrs(x.body)
              /\ \E body \in All(MInstrs(x.body)) :
                    u = [node |-> "Machine", m_instructions |-> body]
         /\ x.rule = "function" =>
              /\ IsFunction(x)
              /\ u \in build_ast_from_function(x)
              /\ u.node = "Work"
  <2> SUFFICES ASSUME NEW x \in Items, NEW u \in build_ast_from_expr(x)
               PROVE  /\ x.rule \in {"machine", "function"}
                      /\ x.rule = "machine" =>
                           /\ AreMInstrs(x.body)
                           /\ \E body \in All(MInstrs(x.body)) :
                                 u = [node |-> "Machine",
                                      m_instructions |-> body]
                      /\ x.rule = "function" =>
                           /\ IsFunction(x)
                           /\ u \in build_ast_from_function(x)
                           /\ u.node = "Work"
    OBVIOUS
  <2>1. CASE x.rule = "machine"
    BY <2>1, ScriptAssumption
       DEF build_ast_from_expr, Each, MInstrs, IsMachine, AreMInstrs
  <2>2. CASE x.rule = "function"
    <3>1. IsFunction(x) /\ u \in build_ast_from_function(x)
      BY <2>2, ScriptAssumption DEF build_ast_from_expr
    <3>2. u.node = "Work"
      BY <3>1 DEF build_ast_from_function
    <3> QED
      BY <2>2, <3>1, <3>2
  <2>3. CASE x.rule \notin {"machine", "function"}
    BY <2>3 DEF build_ast_from_expr
  <2> QED
    BY <2>1, <2>2, <2>3
<1>2. CASE s.rule # t.rule
  <2>1. v.node # w.node
    BY <1>1, <1>2
  <2> QED
    BY <1>2, <2>1 DEF SameMeaning
<1>3. CASE s.rule = t.rule /\ s.rule = "machine"
  <2>1. PICK b \in All(MInstrs(s.body)) :
           v = [node |-> "Machine", m_instructions |-> b]
    BY <1>1, <1>3
  <2>2. PICK c \in All(MInstrs(t.body)) :
           w = [node |-> "Machine", m_instructions |-> c]
    BY <1>1, <1>3
  <2>3. v = w <=> b = c
    BY <2>1, <2>2
  <2>4. AreMInstrs(s.body) /\ AreMInstrs(t.body)
    BY <1>1, <1>3
  <2>5. b = c <=> Alike(SameMInstr, s.body, t.body)
    BY <2>4, MInstrsTell
  <2> QED
    BY <1>3, <2>3, <2>5 DEF SameMeaning
<1>4. CASE s.rule = t.rule /\ s.rule = "function"
  <2>1. /\ IsFunction(s) /\ v \in build_ast_from_function(s)
        /\ IsFunction(t) /\ w \in build_ast_from_function(t)
    BY <1>1, <1>4
  <2>2. v = w <=> /\ s.name = t.name
                  /\ Alike(SameParams, s.params, t.params)
                  /\ Alike(SameInstr, s.body, t.body)
                  /\ Alike(SameDist, s.dist, t.dist)
    BY <2>1, FunctionTells
  <2> QED
    BY <1>4, <2>2 DEF SameMeaning
<1> QED
  BY <1>1, <1>2, <1>3, <1>4

-----------------------------------------------------------------------------
Nodes == UNION {build_ast_from_expr(item) : item \in Items}

(* The tree holds the node of every item taken; a panic took it away when  *)
(* the last item had none.                                                 *)
TreeInv ==
    /\ source \in Seq(Items)
    /\ ast \in Seq(Nodes)
    /\ outcome # "panicked" =>
         /\ Len(ast) = Len(source)
         /\ \A i \in DOMAIN ast : ast[i] \in build_ast_from_expr(source[i])
    /\ outcome = "panicked" =>
         /\ ast = <<>> /\ source # <<>>
         /\ build_ast_from_expr(source[Len(source)]) = {}

LEMMA TreeInvInit == Init => TreeInv
  BY DEF Init, TreeInv

LEMMA TreeInvStep == TreeInv /\ [Next]_vars => TreeInv'
<1> SUFFICES ASSUME TreeInv, [Next]_vars PROVE TreeInv'
  OBVIOUS
<1>1. /\ source \in Seq(Items) /\ ast \in Seq(Nodes)
      /\ Len(source) \in Nat /\ Len(ast) \in Nat
  BY DEF TreeInv
<1>2. ASSUME NEW item \in Items, PushNode(item) PROVE TreeInv'
  <2>1. PICK node \in build_ast_from_expr(item) : ast' = Append(ast, node)
    BY <1>2 DEF PushNode
  <2>2. /\ source' = Append(source, item) /\ outcome' = outcome
        /\ outcome = "parsing"
    BY <1>2 DEF PushNode, Take
  <2>3. node \in Nodes
    BY DEF Nodes
  <2>4. /\ Len(ast) = Len(source)
        /\ \A i \in DOMAIN ast : ast[i] \in build_ast_from_expr(source[i])
    BY <2>2 DEF TreeInv
  <2>5. source' \in Seq(Items) /\ ast' \in Seq(Nodes)
    BY <1>1, <2>1, <2>2, <2>3
  <2>6. Len(ast') = Len(ast) + 1 /\ Len(source') = Len(source) + 1
    BY <1>1, <2>1, <2>2, <2>3
  <2>7. \A i \in DOMAIN ast' : ast'[i] \in build_ast_from_expr(source'[i])
    <3> SUFFICES ASSUME NEW i \in 1..(Len(ast) + 1)
                 PROVE  ast'[i] \in build_ast_from_expr(source'[i])
      BY <2>5, <2>6
    <3>1. CASE i = Len(ast) + 1
      <4>1. ast'[i] = node
        BY <1>1, <2>1, <2>3, <3>1
      <4>2. source'[i] = item
        BY <1>1, <2>2, <2>4, <3>1
      <4> QED
        BY <4>1, <4>2
    <3>2. CASE i \in 1..Len(ast)
      <4>1. ast'[i] = ast[i] /\ i \in DOMAIN ast
        BY <1>1, <2>1, <2>3, <3>2
      <4>2. source'[i] = source[i]
        BY <1>1, <2>2, <2>4, <3>2
      <4> QED
        BY <2>4, <4>1, <4>2
    <3> QED
      BY <1>1, <3>1, <3>2
  <2> QED
    BY <2>2, <2>4, <2>5, <2>6, <2>7 DEF TreeInv
<1>3. ASSUME NEW item \in Items, Panic(item) PROVE TreeInv'
  <2>1. /\ source' = Append(source, item) /\ outcome' = "panicked"
        /\ ast' = <<>> /\ build_ast_from_expr(item) = {}
    BY <1>3 DEF Panic, Take
  <2>2. /\ source' \in Seq(Items) /\ Len(source') = Len(source) + 1
        /\ source'[Len(source) + 1] = item
    BY <1>1, <2>1
  <2>3. source' # <<>>
    BY <1>1, <2>2
  <2> QED
    BY <2>1, <2>2, <2>3 DEF TreeInv
<1>4. CASE Return
  BY <1>4 DEF Return, TreeInv
<1>5. CASE Reject
  BY <1>5 DEF Reject, TreeInv
<1>6. CASE UNCHANGED vars
  BY <1>6 DEF vars, TreeInv
<1> QED
  BY <1>2, <1>3, <1>4, <1>5, <1>6 DEF Next

(* parse_instructions panics exactly on the scripts with an item that no   *)
(* tree can be built for, and the tree it returns has only usable items.   *)
THEOREM AlwaysPanicsOnUnusable == Spec => []PanicsOnUnusable
<1>1. TreeInv => PanicsOnUnusable
  <2> SUFFICES ASSUME TreeInv PROVE PanicsOnUnusable
    OBVIOUS
  <2>1. ASSUME outcome = "panicked" PROVE ~Usable(source[Len(source)])
    <3>1. /\ source \in Seq(Items) /\ source # <<>>
          /\ build_ast_from_expr(source[Len(source)]) = {}
      BY <2>1 DEF TreeInv
    <3>2. source[Len(source)] \in Items
      BY <3>1
    <3> QED
      BY <3>1, <3>2, BuildsTheUsable
  <2>2. ASSUME NEW i \in DOMAIN ast PROVE Usable(source[i])
    <3>1. outcome # "panicked"
      BY <2>2 DEF TreeInv
    <3>2. source[i] \in Items /\ build_ast_from_expr(source[i]) # {}
      BY <2>2, <3>1 DEF TreeInv
    <3> QED
      BY <3>2, BuildsTheUsable
  <2> QED
    BY <2>1, <2>2 DEF PanicsOnUnusable
<1> QED
  BY <1>1, TreeInvInit, TreeInvStep, PTL DEF Spec

(* Two items of a script have the same node exactly when they say the      *)
(* same: nothing else is lost or invented by the builders.                 *)
THEOREM TreesAlwaysTell == Spec => []TreesTell
<1>1. TreeInv => TreesTell
  <2> SUFFICES ASSUME TreeInv, NEW i \in DOMAIN ast, NEW j \in DOMAIN ast
               PROVE  ast[i] = ast[j] <=> SameMeaning(source[i], source[j])
    BY DEF TreesTell
  <2>1. outcome # "panicked"
    BY DEF TreeInv
  <2>2. /\ source[i] \in Items /\ ast[i] \in build_ast_from_expr(source[i])
        /\ source[j] \in Items /\ ast[j] \in build_ast_from_expr(source[j])
    BY <2>1 DEF TreeInv
  <2> QED
    BY <2>2, NodesTell
<1> QED
  BY <1>1, TreeInvInit, TreeInvStep, PTL DEF Spec
=============================================================================
