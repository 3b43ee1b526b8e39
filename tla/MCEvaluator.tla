---------------------------- MODULE MCEvaluator ----------------------------
(***************************************************************************)
(* Evaluator on files of the examples: the numbers of                      *)
(* examples/datatypes/nat.lisp and the primitives on integers, each with   *)
(* one expression to run.                                                  *)
(***************************************************************************)
EXTENDS Evaluator

V(name) == [exp |-> "var", name |-> name]
I(i) == [exp |-> "int", i |-> i]
Ap(name, args) == [exp |-> "ap", target |-> V(name), args |-> args]
Let(names, e) == [exp |-> "assign", names |-> names, of |-> e]

Node(name, ports) == [stmt |-> "define-node", name |-> name, ports |-> ports]
Fun(name, args, body) == [stmt |-> "define-function", name |-> name, args |-> args, body |-> body]
Rule(pattern, body) == [stmt |-> "define-rule", pattern |-> pattern, body |-> body]
RuleStar(patterns, body) == [stmt |-> "define-rule*", patterns |-> patterns, body |-> body]
Exp(e) == [stmt |-> "run-exp", of |-> e]
Def(name, e) == [stmt |-> "define", name |-> name, of |-> e]

MCPrincipalNames == {"!", "value!", "target!", "second!", "x!", "y!"}

a == V("a")
b == V("b")
prev == V("prev")
addend == V("addend")
result == V("result")

NatNodes ==
  << Node("zero", <<"value!">>), Node("add1", <<"prev", "value!">>),
     Node("add", <<"target!", "addend", "result">>),
     Rule(Ap("add", <<Ap("zero", <<>>), addend, result>>),
          <<Ap("connect", <<addend, result>>)>>),
     RuleStar(<<Ap("add1", <<prev, V("value!")>>), Ap("add", <<V("target!"), addend, result>>)>>,
          <<Ap("add1", <<Ap("add", <<prev, addend>>), result>>)>>),
     Fun("one", <<>>, <<Ap("add1", <<Ap("zero", <<>>)>>)>>) >>

NatMore ==
  << Node("nat-erase", <<"target!">>),
     Rule(Ap("nat-erase", <<Ap("zero", <<>>)>>), <<>>),
     Rule(Ap("nat-erase", <<Ap("add1", <<prev>>)>>), <<Ap("nat-erase", <<prev>>)>>),
     Node("nat-dup", <<"target!", "first", "second">>),
     Rule(Ap("nat-dup", <<Ap("zero", <<>>), a, b>>),
          <<Ap("connect", <<a, Ap("zero", <<>>)>>), Ap("connect", <<b, Ap("zero", <<>>)>>)>>),
     Rule(Ap("nat-dup", <<Ap("add1", <<prev>>), a, b>>),
          <<Let(<<"x", "y">>, Ap("nat-dup", <<prev>>)),
            Ap("connect", <<a, Ap("add1", <<V("x")>>)>>),
            Ap("connect", <<b, Ap("add1", <<V("y")>>)>>)>>),
     Node("mul", <<"target!", "mulend", "result">>),
     Rule(Ap("mul", <<Ap("zero", <<>>), a, result>>),
          <<Ap("nat-erase", <<a>>), Ap("zero", <<result>>)>>),
     Rule(Ap("mul", <<Ap("add1", <<prev>>), a, result>>),
          <<Let(<<"x", "y">>, Ap("nat-dup", <<a>>)),
            Ap("add", <<V("x"), Ap("mul", <<V("y"), prev>>), result>>)>>),
     Node("nat-max", <<"target!", "second", "result">>),
     Node("nat-max-add1", <<"first", "second!", "result">>),
     Rule(Ap("nat-max", <<Ap("zero", <<>>), b, result>>), <<Ap("connect", <<b, result>>)>>),
     Rule(Ap("nat-max", <<Ap("add1", <<prev>>), b, result>>),
          <<Ap("nat-max-add1", <<prev, b, result>>)>>),
     Rule(Ap("nat-max-add1", <<a, Ap("zero", <<>>), result>>), <<Ap("add1", <<a, result>>)>>),
     Rule(Ap("nat-max-add1", <<a, Ap("add1", <<prev>>), result>>),
          <<Ap("add1", <<Ap("nat-max", <<a, prev>>), result>>)>>),
     Fun("square", <<"a">>, <<Let(<<"a", "b">>, Ap("nat-dup", <<a>>)), Ap("mul", <<a, b>>)>>),
     Node("nat-to-int", <<"target!", "result">>),
     Rule(Ap("nat-to-int", <<Ap("zero", <<>>), result>>), <<Ap("connect", <<result, I(0)>>)>>),
     Rule(Ap("nat-to-int", <<Ap("add1", <<prev>>), result>>),
          <<Ap("iadd", <<I(1), Ap("nat-to-int", <<prev>>), result>>)>>) >>

\* Functions as values, as in examples/datatypes/list-map.lisp.
Ints ==
  << Def("four", I(4)),
     Fun("isub2", <<"a">>, <<Ap("isub", <<a, I(2)>>)>>),
     Fun("both", <<"f", "a", "b">>,
         <<Let(<<"f", "g">>, Ap("fn-dup", <<V("f")>>)),
           Ap("isub", <<Ap("f", <<a>>), Ap("g", <<b>>)>>)>>),
     Fun("idouble", <<"a">>,
         <<Let(<<"a", "b">>, Ap("int-dup", <<a>>)), Ap("iadd", <<a, b>>)>>),
     Fun("run", <<"f", "a">>,
         <<Let(<<"x", "y">>, Ap("link", <<>>)), Ap("connect", <<V("x"), V("f")>>),
           Ap("y", <<a>>)>>),
     Fun("late", <<"f", "a">>,
         <<Let(<<"x", "y">>, Ap("link", <<>>)), Let(<<"z">>, Ap("y", <<a>>)),
           Ap("connect", <<V("x"), V("f")>>), V("z")>>) >>

Zero == Ap("zero", <<>>)
One == Ap("one", <<>>)
Two == Ap("add1", <<One>>)
Small == {Zero, One, Two}

NatExps ==
  {Ap(f, <<x, y>>) : f \in {"add", "nat-max"}, x \in Small, y \in Small} \union
  {Ap("mul", <<x, y>>) : x \in {Zero, One}, y \in Small} \union
  {Ap("square", <<x>>) : x \in {Zero, One}} \union
  {Ap("nat-to-int", <<Ap("add", <<x, y>>)>>) : x \in {Zero, One}, y \in Small}

IntExps ==
  {Ap("isub", <<Ap("idouble", <<x>>), y>>) : x \in {I(3), V("four")}, y \in {I(1), Ap("iadd", <<I(1), I(2)>>)}} \union
  {Ap(f, <<V(g), x>>) : f \in {"run", "late"}, g \in {"isub2", "idouble"}, x \in {I(1), Ap("iadd", <<I(1), I(2)>>)}} \union
  {Ap("both", <<V(g), Ap("isub2", <<I(9)>>), V("four")>>) : g \in {"isub2", "idouble"}}

\* What an expression means.
RECURSIVE Meaning(_)
Meaning(e) ==
  IF e.exp = "int" THEN e.i ELSE IF e.exp = "var" THEN 4
  ELSE LET f == e.target.name
           x == Meaning(e.args[1])
           y == Meaning(e.args[2])
           Fn(g, i) == IF g.name = "isub2" THEN i - 2 ELSE 2 * i
           z == Meaning(e.args[3])
       IN CASE f = "zero" -> 0
            [] f = "one" -> 1
            [] f = "add1" -> x + 1
            [] f \in {"add", "iadd"} -> x + y
            [] f = "mul" -> x * y
            [] f = "nat-max" -> IF x > y THEN x ELSE y
            [] f = "square" -> x * x
            [] f = "nat-to-int" -> x
            [] f = "isub" -> x - y
            [] f = "idouble" -> 2 * x
            [] f = "isub2" -> x - 2
            [] f \in {"run", "late"} -> Fn(e.args[1], y)
            [] f = "both" -> Fn(e.args[1], y) - Fn(e.args[1], z)

NatFiles == {Append(NatNodes \o NatMore, Exp(e)) : e \in NatExps}
IntFiles == {Append(Ints, Exp(e)) : e \in IntExps}

\* print_connected walks from a value through the net: the number it finds, with
\* the nodes it has passed; no node has the number 0, which stands for anything
\* else than a number.
RECURSIVE ReadNat(_)
ReadNat(v) ==
  CASE v.kind = "int" -> [number |-> v.i, nodes |-> {}]
    [] v.kind = "wire" /\ v.wire \in DOMAIN fuzed -> ReadNat(fuzed[v.wire])
    [] v.kind = "principal" /\ nodes[v.node].ctor = NodeCtor("zero") ->
         [number |-> 0, nodes |-> {v.node}]
    [] v.kind = "principal" /\ nodes[v.node].ctor = NodeCtor("add1") ->
         LET r == ReadNat(nodes[v.node].ports[1])
         IN  [number |-> r.number + 1, nodes |-> r.nodes \union {v.node}]
    [] OTHER -> [number |-> 0, nodes |-> {0}]

----------------------------------------------------------------------------
(* Files that are wrong, as the *.error.lisp of examples/tests are, with how
   the program stops. *)
Fails(stmt, how) ==
  [x \in DOMAIN stmt \union {"how"} |-> IF x = "how" THEN how ELSE stmt[x]]
Nothing == Ap("nothing", <<>>)
ApTo(e, args) == [exp |-> "ap", target |-> e, args |-> args]
Link == Let(<<"x", "y">>, Ap("link", <<>>))

ExitExps ==
  {Ap("nope", <<>>), Ap("isquare", <<I(2)>>), Ap("isub2", <<>>), Ap("twice", <<I(2)>>),
   ApTo(I(1), <<>>), ApTo(Zero, <<>>), Ap("unbound", <<>>)}
AbortExps ==
  {Ap("connect", <<I(1), I(2)>>), Ap("connect", <<I(1), Zero>>), Ap("connect", <<I(1)>>),
   Ap("add1", <<Nothing>>), Ap("iadd", <<I(1), I(2), I(3)>>), Ap("iadd", <<I(1), V("isub2")>>),
   Ap("int-dup", <<V("isub2")>>), Ap("fn-dup", <<I(1)>>), Ap("pair", <<Zero, Zero>>),
   Ap("connect", <<Nothing, Nothing>>), Let(<<"x">>, Nothing), Ap("zero", <<I(1)>>)}
ExitStmts ==
  {Rule(Ap("nope", <<Zero>>), <<>>), Rule(Ap("add1", <<a, Zero>>), <<Ap("nope", <<>>)>>), Fun("self", <<>>, <<Ap("self", <<>>)>>)}
AbortStmts ==
  {Node("zero", <<"value!">>), Def("none", Nothing), Def("isub2", I(1)),
   Rule(Ap("add", <<Zero, a>>), <<>>), Rule(Ap("add", <<a, b, Zero>>), <<>>),
   Rule(Ap("pair", <<Zero, Zero>>), <<>>),
   Rule(Ap("add", <<One, a, b>>), <<>>), RuleStar(<<Ap("zero", <<Zero>>), Zero>>, <<>>)}

ErrorDefs ==
  NatNodes \o SubSeq(Ints, 2, 2) \o
  << Fun("nothing", <<>>, <<>>),
     Fun("isquare", <<"a">>, <<Ap("iadd", <<a, a>>)>>),
     Fun("twice", <<"a">>, <<Let(<<"a">>, I(1)), a>>),
     Fun("unbound", <<>>, <<Link, Ap("y", <<>>), V("x")>>),
     Node("pair", <<"x!", "y!">>), Rule(Ap("pair", <<Zero, V("!")>>), <<>>) >>

ErrorStmts ==
  {Fails(Exp(e), "exit") : e \in ExitExps} \union {Fails(Exp(e), "abort") : e \in AbortExps} \union
  {Fails(st, "exit") : st \in ExitStmts} \union {Fails(st, "abort") : st \in AbortStmts}

ErrorFiles ==
  {Append(ErrorDefs, st) : st \in ErrorStmts} \union
  {ErrorDefs \o <<Exp(One), Node("nat-erase", <<"target!">>),
                  Fails(Exp(Ap("nat-erase", <<Nothing>>)), "abort")>>}

AllFiles == NatFiles \union IntFiles \union ErrorFiles

\* What the last statement of the file asks for.
VARIABLE goal
MCInit == Init /\ goal = Last(file)
MCNext == Next /\ UNCHANGED goal
MCSpec == MCInit /\ [][MCNext]_<<vars, goal>>

\* What an expression comes to, and nothing else is left of the net.
Result ==
  Ended /\ "how" \notin DOMAIN goal =>
    /\ ended = "no"
    /\ Len(value_stack) = 1
    /\ LET r == ReadNat(value_stack[1])
       IN  r.number = Meaning(goal.of) /\ r.nodes = DOMAIN nodes

\* Whatever the order of the tasks, what is left of the net is the number that
\* the expression means, and no other node is left: the net that worker_work
\* leaves does not depend on the number of workers.  A wrong file is refused, by
\* the message or the assertion that is there for it, and never goes on to a
\* wrong result.
Outcome ==
  /\ Result
  /\ Ended /\ "how" \in DOMAIN goal => ended = goal.how

----------------------------------------------------------------------------
\* A function that is applied through two links before it is known, which the
\* connections of examples/tests/connect.test.lisp allow.
Linked ==
  Fun("linked", <<>>,
      <<Link, Let(<<"f", "g">>, Ap("link", <<>>)), Ap("connect", <<V("x"), V("f")>>),
        Let(<<"z">>, Ap("y", <<I(9)>>)), Ap("connect", <<V("g"), V("isub2")>>), V("z")>>)
LinkedFiles == {Ints \o <<Linked, Exp(Ap("linked", <<>>))>>}
=============================================================================
