----------------------------- MODULE Evaluator -----------------------------
(***************************************************************************)
(* From the statements of a file to the net that is left: compilation to   *)
(* opcodes (lang/compile.c), definitions (lang/execute.c, define.c), the   *)
(* stack machine (core/worker_run_until.c, frame.c, worker_apply*.c), the  *)
(* building and taking apart of nodes, connect, and the tasks.             *)
(*                                                                         *)
(* One worker executes the statements.  While a net is rewritten a task is *)
(* a whole, and the tasks that wait are taken in ANY order: the sequential *)
(* mode takes the oldest, and the workers of the parallel mode may finish  *)
(* them in any order.  That tasks may be seen as wholes is what Connect    *)
(* and NodeLife are about.                                                 *)
(*                                                                         *)
(* todo is what is left of the functions that are being executed: its head *)
(* is what the worker does next.  Wires and nodes get a new number each,   *)
(* so that a freed one is never mistaken for another.                      *)
(***************************************************************************)
EXTENDS Integers, FiniteSets, SequencesExt

CONSTANTS
  Files,           \* the files to load: sequences of statements
  PrincipalNames   \* the port names that end with "!"

ASSUME NamesAssumption == {"!", "target!"} \subseteq PrincipalNames

VARIABLES
  file,          \* the statements that are left
  mod,           \* name -> value, the value_hash of the module
  port_infos,    \* per node_ctor: for each port, is it principal
  rule_array,    \* per node_ctor: its rules
  value_stack,
  return_stack,  \* frames
  todo,
  tasks,
  nodes,         \* node -> [ctor, ports, arg_count]
  fuzed,         \* wire -> atomic_fuzed_value
  oppsite,       \* pairs of principal wires that met
  made,          \* how many nodes and wires were made
  base,          \* height of the value_stack when the work began
  ended          \* "no", or how the program stopped: "exit" or "abort"

program == <<file, mod, port_infos, rule_array>>
machine == <<value_stack, return_stack>>
net == <<nodes, fuzed, oppsite, made>>
vars == <<program, machine, todo, tasks, net, base, ended>>

----------------------------------------------------------------------------
(* Values. *)

NULL == [kind |-> "null"]
xint(i) == [kind |-> "int", i |-> i]
Wire(w) == [kind |-> "wire", wire |-> w]
PrincipalWire(n, i) == [kind |-> "principal", node |-> n, index |-> i]
NodeCtor(c) == [kind |-> "ctor", name |-> c]
Function(arity, code) == [kind |-> "function", arity |-> arity, code |-> code]
Primitive(p, ins, outs, ports) ==
  [kind |-> "primitive", name |-> p, input_arity |-> ins, output_arity |-> outs,
   ports |-> ports]

is_wire(v) == v.kind = "wire"
is_principal_wire(v) == v.kind = "principal"

\* port_info_from_name.
IsPrincipal(name) == name \in PrincipalNames

\* The primitives of worker_apply_wire.
apply_primitive(arity) ==
  Primitive("apply", arity + 1, 1,
            <<"target!">> \o [i \in 1 .. arity |-> "arg"] \o <<"result">>)

\* The ports of a node_ctor, or of the node_ctor of a primitive.
Ports(ctor) ==
  IF ctor.kind = "ctor" THEN port_infos[ctor.name]
  ELSE [i \in DOMAIN ctor.ports |-> IsPrincipal(ctor.ports[i])]

With(f, key, value) == [k \in DOMAIN f \union {key} |-> IF k = key THEN value ELSE f[k]]
Without(f, keys) == [k \in DOMAIN f \ keys |-> f[k]]

Pop(stack, n) == SubSeq(stack, 1, Len(stack) - n)
Top(stack, n) == SubSeq(stack, Len(stack) - n + 1, Len(stack))

----------------------------------------------------------------------------
(* compile.c: a function under construction is its opcodes and its local    *)
(* names, whose positions are their indexes.                                *)

Empty == [code |-> <<>>, local |-> <<>>]
AddOpcode(f, op) == [f EXCEPT !.code = Append(@, op)]
IndexOf(f, name) == CHOOSE i \in DOMAIN f.local : f.local[i] = name

compile_set_variable(f, name) ==
  LET g == IF name \in Range(f.local) THEN f ELSE [f EXCEPT !.local = Append(@, name)]
  IN  AddOpcode(g, [op |-> "set_variable", index |-> IndexOf(g, name)])

\* The last name is on the top of the stack.
compile_set_variable_list(f, names) ==
  FoldRight(LAMBDA name, g : compile_set_variable(g, name), names, f)

\* A local variable, or else what the module defines now; exit if there is none.
compile_variable(f, name) ==
  AddOpcode(f, IF name \in Range(f.local)
               THEN [op |-> "get_variable", index |-> IndexOf(f, name)]
               ELSE IF name \in DOMAIN mod THEN [op |-> "literal", value |-> mod[name]]
               ELSE [op |-> "undefined"])

RECURSIVE compile_exp(_, _)

compile_exp_list(f, exps) == FoldLeft(compile_exp, f, exps)

compile_exp(f, exp) ==
  CASE exp.exp = "var" -> compile_variable(f, exp.name)
    [] exp.exp = "ap" ->
         AddOpcode(compile_exp(compile_exp_list(f, exp.args), exp.target),
                   [op |-> "apply", arity |-> Len(exp.args)])
    [] exp.exp = "assign" ->
         compile_set_variable_list(compile_exp(f, exp.of), exp.names)
    [] exp.exp = "int" -> AddOpcode(f, [op |-> "literal", value |-> xint(exp.i)])

Undefined(f) == \E i \in DOMAIN f.code : f.code[i].op = "undefined"

----------------------------------------------------------------------------
(* execute.c and define.c. *)

Variable(name) == [exp |-> "var", name |-> name]

RECURSIVE translate_pattern_sub_tree(_, _)

\* Nested patterns move, from right to left, to the front of list; what is left
\* of them is a principal port.
translate_pattern_arg_list(args, list) ==
  FoldLeft(LAMBDA acc, arg :
             IF arg.exp = "var" THEN [acc EXCEPT !.args = Append(@, arg)]
             ELSE [args |-> Append(acc.args, Variable("!")),
                   list |-> translate_pattern_sub_tree(arg, acc.list)],
           [args |-> <<>>, list |-> list], args)

translate_pattern_sub_tree(pattern, list) ==
  LET sub == translate_pattern_arg_list(pattern.args, list)
  IN  <<[pattern EXCEPT !.args = Append(sub.args, Variable("!"))]>> \o sub.list

translate_pattern_tree(pattern) ==
  LET sub == translate_pattern_arg_list(pattern.args, <<>>)
  IN  <<[pattern EXCEPT !.args = sub.args]>> \o sub.list

\* build_node_pattern: the arguments must be the ports of a node_ctor; a port of
\* the other kind is left NULL, which define_rule_star does not expect.
PatternFits(pattern) ==
  LET ctor == mod[pattern.target.name] IN
    /\ ctor.kind = "ctor"
    /\ Len(pattern.args) = Len(port_infos[ctor.name])
    /\ \A i \in DOMAIN pattern.args :
         /\ pattern.args[i].exp = "var"
         /\ IsPrincipal(pattern.args[i].name) = port_infos[ctor.name][i]

\* The names of the ports that are not principal.
LocalNames(pattern) ==
  LET locals == SelectSeq(pattern.args, LAMBDA arg : ~IsPrincipal(arg.name))
  IN  [i \in DOMAIN locals |-> locals[i].name]

\* The value_hash refuses a name that it has.
define(name, value) ==
  IF name \in DOMAIN mod THEN ended' = "abort" /\ UNCHANGED mod
  ELSE mod' = With(mod, name, value) /\ UNCHANGED ended

Statement(kind) == ended = "no" /\ todo = <<>> /\ tasks = {} /\ file # <<>> /\ Head(file).stmt = kind

define_node ==
  LET s == Head(file) IN
    /\ Statement("define-node")
    /\ define(s.name, NodeCtor(s.name))
    /\ port_infos' = With(port_infos, s.name, [i \in DOMAIN s.ports |-> IsPrincipal(s.ports[i])])
    /\ rule_array' = With(rule_array, s.name, <<>>)
    /\ file' = Tail(file)
    /\ UNCHANGED <<machine, todo, tasks, net, base>>

\* The name is defined after its body is compiled: a function cannot call itself.
define_function ==
  LET s == Head(file)
      f == compile_exp_list(compile_set_variable_list(Empty, s.args), s.body)
  IN  /\ Statement("define-function")
      /\ IF Undefined(f) THEN ended' = "exit" /\ UNCHANGED mod
         ELSE define(s.name, Function(Len(s.args), f.code))
      /\ file' = Tail(file)
      /\ UNCHANGED <<port_infos, rule_array, machine, todo, tasks, net, base>>

\* STMT_DEFINE_RULE translates its pattern, STMT_DEFINE_RULE_STAR has a list.
Patterns(s) == IF s.stmt = "define-rule" THEN translate_pattern_tree(s.pattern) ELSE s.patterns

\* The rule is added to both node_ctors.
define_rule_star ==
  LET s == Head(file)
      patterns == Patterns(s)
      names == LocalNames(patterns[1]) \o LocalNames(patterns[2])
      f == compile_exp_list(compile_set_variable_list(Empty, names), s.body)
      left == patterns[1].target.name
      right == patterns[2].target.name
      rule == [left |-> mod[left], right |-> mod[right],
               function |-> Function(Len(names), f.code)]
      Add(rules, c) == [rules EXCEPT ![c] = Append(@, rule)]
  IN  /\ Statement("define-rule") \/ Statement("define-rule*")
      /\ IF \E i \in DOMAIN patterns : patterns[i].target.name \notin DOMAIN mod
         THEN ended' = "exit" /\ UNCHANGED rule_array
         ELSE IF Len(patterns) # 2 \/ ~PatternFits(patterns[1]) \/ ~PatternFits(patterns[2])
         THEN ended' = "abort" /\ UNCHANGED rule_array
         ELSE IF Undefined(f) THEN ended' = "exit" /\ UNCHANGED rule_array
         ELSE rule_array' = Add(Add(rule_array, left), right) /\ UNCHANGED ended
      /\ file' = Tail(file)
      /\ UNCHANGED <<mod, port_infos, machine, todo, tasks, net, base>>

Frame(code) == [code |-> code, cursor |-> 1, variables |-> [i \in {} |-> NULL]]

\* run_exp: build_net, then worker_work, then the assertion on the stack; for
\* STMT_DEFINE the top of the stack is then popped and defined.
run_exp ==
  LET s == Head(file)
      f == compile_exp(Empty, s.of)
  IN  /\ Statement("run-exp") \/ Statement("define")
      /\ IF Undefined(f) THEN ended' = "exit" /\ UNCHANGED <<return_stack, todo>>
         ELSE /\ return_stack' = Append(return_stack, Frame(f.code))
              /\ todo' = <<[do |-> "run", base |-> Len(return_stack)], [do |-> "start"],
                           [do |-> "work", count |-> Len(value_stack)]>> \o
                         (IF s.stmt = "define" THEN <<[do |-> "define", name |-> s.name]>> ELSE <<>>)
              /\ UNCHANGED ended
      /\ file' = Tail(file)
      /\ UNCHANGED <<mod, port_infos, rule_array, value_stack, tasks, net, base>>

----------------------------------------------------------------------------
(* What is to be done next. *)

Doing(what) == ended = "no" /\ todo # <<>> /\ Head(todo).do = what
Then(items) == todo' = items \o Tail(todo)
Stop(how) == ended' = how /\ UNCHANGED <<program, machine, todo, tasks, net, base>>

\* array_pop asserts that there is something to pop.
Underflow(n) == Len(value_stack) < n

\* STMT_DEFINE, when its expression has been run.
define_value ==
  /\ Doing("define")
  /\ IF Underflow(1) THEN Stop("abort")
     ELSE /\ define(Head(todo).name, Last(value_stack))
          /\ value_stack' = Front(value_stack)
          /\ Then(<<>>)
          /\ UNCHANGED <<file, port_infos, rule_array, return_stack, tasks, net, base>>

----------------------------------------------------------------------------
(* worker_run_until.c and frame.c. *)

\* The end of worker_run_until.
RunEnd ==
  /\ Doing("run")
  /\ Len(return_stack) <= Head(todo).base
  /\ Then(<<>>)
  /\ UNCHANGED <<program, machine, tasks, net, base, ended>>

Running == Doing("run") /\ Len(return_stack) > Head(todo).base

frame_is_finished(frame) == frame.cursor = Len(frame.code) + 1

\* A frame with nothing to do, that of a function with an empty body.
RunFinished ==
  /\ Running
  /\ frame_is_finished(Last(return_stack))
  /\ return_stack' = Front(return_stack)
  /\ UNCHANGED <<program, value_stack, todo, tasks, net, base, ended>>

\* The frame after its opcode was fetched, and the return_stack with it: a proper
\* tail call does not keep a frame that is finished.
Fetched == [Last(return_stack) EXCEPT !.cursor = @ + 1]
PushFrame(frame) ==
  return_stack' = Front(return_stack) \o (IF frame_is_finished(frame) THEN <<>> ELSE <<frame>>)

Fetch(op) ==
  /\ Running
  /\ ~frame_is_finished(Last(return_stack))
  /\ Last(return_stack).code[Last(return_stack).cursor].op = op
Opcode == Last(return_stack).code[Last(return_stack).cursor]

OpcodeLiteral ==
  /\ Fetch("literal")
  /\ value_stack' = Append(value_stack, Opcode.value)
  /\ PushFrame(Fetched)
  /\ UNCHANGED <<program, todo, tasks, net, base, ended>>

\* Mutant: a variable keeps its value.
frame_get_variable_copy ==
  LET variables == Last(return_stack).variables IN
    /\ Fetch("get_variable")
    /\ IF Opcode.index \notin DOMAIN variables THEN Stop("exit")
       ELSE /\ value_stack' = Append(value_stack, variables[Opcode.index])
            /\ PushFrame(Fetched)
            /\ UNCHANGED <<program, todo, tasks, net, base, ended>>

\* A variable can be taken once.
frame_get_variable ==
  LET variables == Last(return_stack).variables IN
    /\ Fetch("get_variable")
    /\ IF Opcode.index \notin DOMAIN variables THEN Stop("exit")
       ELSE /\ value_stack' = Append(value_stack, variables[Opcode.index])
            /\ PushFrame([Fetched EXCEPT !.variables =
                            [i \in DOMAIN variables \ {Opcode.index} |-> variables[i]]])
            /\ UNCHANGED <<program, todo, tasks, net, base, ended>>

\* A variable cannot be set while it has a value.
frame_set_variable ==
  LET variables == Last(return_stack).variables
      index == Opcode.index
  IN  /\ Fetch("set_variable")
      /\ IF Underflow(1) THEN Stop("abort")
         ELSE IF index \in DOMAIN variables THEN Stop("exit")
         ELSE /\ value_stack' = Front(value_stack)
              /\ PushFrame([Fetched EXCEPT !.variables =
                              [i \in DOMAIN variables \union {index} |->
                                 IF i = index THEN Last(value_stack) ELSE variables[i]]])
              /\ UNCHANGED <<program, todo, tasks, net, base, ended>>

Apply(target, arity) == [do |-> "apply", target |-> target, wire |-> target, arity |-> arity]

OpcodeApply ==
  /\ Fetch("apply")
  /\ IF Underflow(1) THEN Stop("abort")
     ELSE /\ value_stack' = Front(value_stack)
          /\ PushFrame(Fetched)
          /\ todo' = <<Apply(Last(value_stack), Opcode.arity)>> \o todo
          /\ UNCHANGED <<program, tasks, net, base, ended>>

----------------------------------------------------------------------------
(* worker_apply.c and worker_apply_wire.c. *)

Applying(kind) == Doing("apply") /\ Head(todo).target.kind = kind

HasCtor(v) == v.kind = "ctor" \/ (v.kind = "primitive" /\ v.ports # <<>>)

\* worker_new_node, then worker_reconnect_node.
ApplyNodeCtor ==
  LET ctor == Head(todo).target
      node == made + 1
  IN  /\ Doing("apply") /\ HasCtor(ctor)
      /\ made' = node
      /\ nodes' = With(nodes, node, [ctor |-> ctor, ports |-> [i \in DOMAIN Ports(ctor) |-> NULL],
                                     arg_count |-> 0])
      /\ Then(<<[do |-> "inputs", node |-> node, index |-> Head(todo).arity,
                 arity |-> Head(todo).arity, before |-> Cardinality(tasks)]>>)
      /\ UNCHANGED <<program, machine, tasks, fuzed, oppsite, base, ended>>

ApplyFunction ==
  LET function == Head(todo).target IN
    /\ Applying("function")
    /\ IF function.arity # Head(todo).arity THEN Stop("exit")
       ELSE /\ return_stack' = Append(return_stack, Frame(function.code))
            /\ Then(<<>>)
            /\ UNCHANGED <<program, value_stack, tasks, net, base, ended>>

ApplyPrimitive ==
  LET primitive == Head(todo).target IN
    /\ Applying("primitive") /\ ~HasCtor(primitive)
    /\ IF primitive.input_arity # Head(todo).arity THEN Stop("abort")
       ELSE /\ Then(<<[do |-> "primitive", primitive |-> primitive]>>)
            /\ UNCHANGED <<program, machine, tasks, net, base, ended>>

ApplyUnknown == (Applying("int") \/ Applying("principal")) /\ Stop("exit")

\* A round of defuze, which frees a wire that it leaves behind.
defuze ==
  LET w == Head(todo).target.wire IN
    /\ Applying("wire")
    /\ IF w \notin DOMAIN fuzed THEN Stop("freed")
       ELSE /\ fuzed[w] # NULL
            /\ fuzed' = Without(fuzed, {w})
            /\ Then(<<[Head(todo) EXCEPT !.target = fuzed[w]]>>)
            /\ UNCHANGED <<program, machine, tasks, nodes, oppsite, made, base, ended>>

\* The wire leads nowhere yet: a node waits for the function.  It is the wire
\* that was given, not the one that was found, that goes below the arguments.
worker_apply_wire ==
  LET item == Head(todo) IN
    /\ Applying("wire")
    /\ item.target.wire \in DOMAIN fuzed /\ fuzed[item.target.wire] = NULL
    /\ IF item.arity \notin 1 .. 4 THEN Stop("exit")
       ELSE IF Underflow(item.arity) THEN Stop("abort")
       ELSE /\ value_stack' = Pop(value_stack, item.arity) \o <<item.wire>> \o
                              Top(value_stack, item.arity)
            /\ Then(<<Apply(apply_primitive(item.arity), item.arity + 1)>>)
            /\ UNCHANGED <<program, return_stack, tasks, net, base, ended>>

----------------------------------------------------------------------------
(* worker_reconnect_node.c. *)

SetPort(node, index, value) == [nodes EXCEPT ![node].ports[index] = value]
Connect(left, right) == [do |-> "connect", left |-> left, right |-> right]

\* The last argument is on the top of the stack.
reconnect_input ==
  LET item == Head(todo)
      value == Last(value_stack)
      next == [item EXCEPT !.index = @ - 1]
      wire == Wire(made + 1)
      principal == PrincipalWire(item.node, item.index)
  IN  /\ Doing("inputs") /\ item.index > 0
      /\ IF Underflow(1) THEN Stop("abort")
         ELSE /\ value_stack' = Front(value_stack)
              /\ IF Ports(nodes[item.node].ctor)[item.index]
                 THEN /\ nodes' = SetPort(item.node, item.index, principal)
                      /\ Then(<<Connect(principal, value), next>>)
                      /\ UNCHANGED <<fuzed, made>>
                 ELSE IF is_principal_wire(value)
                 THEN /\ made' = made + 1
                      /\ fuzed' = With(fuzed, made', NULL)
                      /\ nodes' = SetPort(item.node, item.index, wire)
                      /\ Then(<<Connect(wire, value), next>>)
                 ELSE /\ nodes' = SetPort(item.node, item.index, value)
                      /\ Then(<<next>>)
                      /\ UNCHANGED <<fuzed, made>>
              /\ UNCHANGED <<program, return_stack, tasks, oppsite, base, ended>>

\* The ports that are left become the results.  There may be one task at most
\* among the connections of the inputs.
reconnect_output ==
  LET item == Head(todo)
      ports == Ports(nodes[item.node].ctor)
      Output(i) == IF ports[i] THEN PrincipalWire(item.node, i) ELSE Wire(made + i)
      wires == {i \in item.arity + 1 .. Len(ports) : ~ports[i]}
  IN  /\ Doing("inputs") /\ item.index = 0
      /\ IF Cardinality(tasks) > item.before + 1 THEN Stop("abort")
         ELSE /\ nodes' = [nodes EXCEPT ![item.node].ports =
                             [i \in DOMAIN ports |-> IF i > item.arity THEN Output(i) ELSE @[i]]]
              /\ fuzed' = [w \in DOMAIN fuzed \union {made + i : i \in wires} |->
                             IF w \in DOMAIN fuzed THEN fuzed[w] ELSE NULL]
              /\ made' = made + Len(ports)
              /\ value_stack' = value_stack \o
                   [i \in 1 .. Len(ports) - item.arity |-> Output(item.arity + i)]
              /\ Then(<<>>)
              /\ UNCHANGED <<program, return_stack, tasks, oppsite, base, ended>>

----------------------------------------------------------------------------
(* connect.c. *)

\* The wire and the value that fuze is called with.
FuzedWire == IF is_wire(Head(todo).left) THEN Head(todo).left.wire ELSE Head(todo).right.wire
FuzedWith == IF is_wire(Head(todo).left) THEN Head(todo).right ELSE Head(todo).left

fuze ==
  /\ Doing("connect") /\ (is_wire(Head(todo).left) \/ is_wire(Head(todo).right))
  /\ IF FuzedWire \notin DOMAIN fuzed THEN Stop("freed")
     ELSE /\ IF fuzed[FuzedWire] = NULL
             THEN fuzed' = [fuzed EXCEPT ![FuzedWire] = FuzedWith] /\ Then(<<>>)
             ELSE /\ fuzed' = Without(fuzed, {FuzedWire})
                  /\ Then(<<Connect(fuzed[FuzedWire], FuzedWith)>>)
          /\ UNCHANGED <<program, machine, tasks, nodes, oppsite, made, base, ended>>

Ctor(principal) == nodes[principal.node].ctor
Rules(ctor) == IF ctor.kind = "ctor" THEN rule_array[ctor.name] ELSE <<>>

\* Mutant: takes the wires as they come.
rule_match_unordered(rule, left, right) ==
  IF {rule.left, rule.right} = {Ctor(left), Ctor(right)}
  THEN {[kind |-> "pair", left |-> left, right |-> right, function |-> rule.function]}
  ELSE {}

\* The task of a rule, with its wires in the order of the rule.
rule_match(rule, left, right) ==
  IF rule.left = Ctor(left) /\ rule.right = Ctor(right)
  THEN {[kind |-> "pair", left |-> left, right |-> right, function |-> rule.function]}
  ELSE IF rule.left = Ctor(right) /\ rule.right = Ctor(left)
  THEN {[kind |-> "pair", left |-> right, right |-> left, function |-> rule.function]}
  ELSE {}

\* The first rule that matches, those of left before those of right.
connect_active_pair ==
  LET left == Head(todo).left
      right == Head(todo).right
      rules == Rules(Ctor(left)) \o Rules(Ctor(right))
      matching == {i \in DOMAIN rules : rule_match(rules[i], left, right) # {}}
  IN  /\ Doing("connect") /\ is_principal_wire(left) /\ is_principal_wire(right)
      /\ oppsite' = oppsite \union {{left, right}}
      /\ tasks' = tasks \union
           (IF matching = {} THEN {} ELSE rule_match(rules[Min(matching)], left, right))
      /\ Then(<<>>)
      /\ UNCHANGED <<program, machine, nodes, fuzed, made, base, ended>>

\* A value meets a principal wire: an argument of a primitive, whose last one
\* makes the task.
collect_primitive_arg ==
  LET item == Head(todo)
      principal == IF is_principal_wire(item.left) THEN item.left ELSE item.right
      arg == IF is_principal_wire(item.left) THEN item.right ELSE item.left
      n == nodes[principal.node]
      count == Cardinality({i \in DOMAIN n.ports : Ports(n.ctor)[i]})
  IN  /\ Doing("connect") /\ ~is_wire(item.left) /\ ~is_wire(item.right)
      /\ is_principal_wire(item.left) # is_principal_wire(item.right)
      /\ IF n.ctor.kind # "primitive" THEN Stop("abort")
         ELSE /\ nodes' = [SetPort(principal.node, principal.index, arg)
                             EXCEPT ![principal.node].arg_count = @ + 1]
              /\ tasks' = tasks \union
                   (IF n.arg_count + 1 = count
                    THEN {[kind |-> "primitive", node |-> principal.node]} ELSE {})
              /\ Then(<<>>)
              /\ UNCHANGED <<program, machine, fuzed, oppsite, made, base, ended>>

\* Two values.
ConnectValues ==
  LET plain == {"int", "function", "ctor", "primitive"} IN
    /\ Doing("connect")
    /\ Head(todo).left.kind \in plain /\ Head(todo).right.kind \in plain
    /\ Stop("abort")

----------------------------------------------------------------------------
(* worker_work.c, worker_handle_task.c, worker_apply_primitive.c. *)

worker_work ==
  /\ Doing("start")
  /\ base' = Len(value_stack)
  /\ Then(<<>>)
  /\ UNCHANGED <<program, machine, tasks, net, ended>>

\* No task is left: the end of run_exp.
WorkEnd ==
  /\ Doing("work") /\ tasks = {}
  /\ IF Len(value_stack) < Head(todo).count THEN Stop("abort")
     ELSE Then(<<>>) /\ UNCHANGED <<program, machine, tasks, net, base, ended>>

\* Mutant: pushes all of them.
RemainsAll(node) == nodes[node].ports

\* worker_disconnect_node pushes the values of the ports that are not principal.
Remains(node) == SelectSeq(nodes[node].ports, LAMBDA v : ~is_principal_wire(v))

worker_handle_task_active_pair(task) ==
  /\ Doing("work") /\ task.kind = "pair"
  /\ value_stack' = value_stack \o Remains(task.left.node) \o Remains(task.right.node)
  /\ nodes' = Without(nodes, {task.left.node, task.right.node})
  /\ oppsite' = oppsite \ {{task.left, task.right}}
  /\ return_stack' = Append(return_stack, Frame(task.function.code))
  /\ todo' = <<[do |-> "run", base |-> Len(return_stack)]>> \o todo
  /\ tasks' = tasks \ {task}
  /\ UNCHANGED <<program, fuzed, made, base, ended>>

worker_handle_task_primitive(task) ==
  LET n == nodes[task.node] IN
    /\ Doing("work") /\ task.kind = "primitive"
    /\ value_stack' = value_stack \o SubSeq(n.ports, 1, n.ctor.input_arity)
    /\ todo' = <<[do |-> "primitive", primitive |-> n.ctor],
                 [do |-> "run", base |-> Len(return_stack)],
                 [do |-> "results", node |-> task.node, index |-> Len(n.ports)]>> \o todo
    /\ tasks' = tasks \ {task}
    /\ UNCHANGED <<program, return_stack, net, base, ended>>

\* The results go to the wires of the outputs, the last one first; then the node
\* is recycled.
PrimitiveResults ==
  LET item == Head(todo)
      n == nodes[item.node]
  IN  /\ Doing("results")
      /\ IF item.index = n.ctor.input_arity
         THEN /\ nodes' = Without(nodes, {item.node})
              /\ Then(<<>>)
              /\ UNCHANGED <<program, machine, tasks, fuzed, oppsite, made, base, ended>>
         ELSE IF ~is_wire(n.ports[item.index]) \/ Underflow(1) THEN Stop("abort")
         ELSE /\ value_stack' = Front(value_stack)
              /\ Then(<<Connect(n.ports[item.index], Last(value_stack)),
                        [item EXCEPT !.index = @ - 1]>>)
              /\ UNCHANGED <<program, return_stack, tasks, net, base, ended>>

\* What xint_add and xint_sub return; they assert that they have ints.
PrimitiveFn2(name, x, y) == xint(IF name = "iadd" THEN x.i + y.i ELSE x.i - y.i)

worker_apply_primitive ==
  LET primitive == Head(todo).primitive
      n == primitive.input_arity
      args == Top(value_stack, n)
      below == Pop(value_stack, n)
      Is(name) == primitive.name = name
  IN  /\ Doing("primitive")
      /\ IF Underflow(n) \/ (Is("int-dup") /\ args[1].kind # "int")
              \/ (Is("fn-dup") /\ args[1].kind # "function")
              \/ (primitive.name \in {"iadd", "isub"} /\ ~({args[1].kind, args[2].kind} \subseteq {"int"}))
         THEN Stop("abort")
         ELSE /\ \/ /\ Is("connect")
                    /\ Then(<<Connect(args[1], args[2])>>)
                    /\ value_stack' = below
                    /\ UNCHANGED <<fuzed, made>>
                 \/ /\ Is("link")
                    /\ made' = made + 1
                    /\ fuzed' = With(fuzed, made', NULL)
                    /\ value_stack' = value_stack \o <<Wire(made'), Wire(made')>>
                    /\ Then(<<>>)
                 \/ /\ primitive.name \in {"iadd", "isub"}
                    /\ value_stack' = Append(below, PrimitiveFn2(primitive.name, args[1], args[2]))
                    /\ Then(<<>>)
                    /\ UNCHANGED <<fuzed, made>>
                 \/ /\ primitive.name \in {"int-dup", "fn-dup"}
                    /\ value_stack' = Append(value_stack, args[1])
                    /\ Then(<<>>)
                    /\ UNCHANGED <<fuzed, made>>
                 \/ /\ Is("apply")
                    /\ value_stack' = below \o Tail(args)
                    /\ Then(<<Apply(args[1], n - 1)>>)
                    /\ UNCHANGED <<fuzed, made>>
              /\ UNCHANGED <<program, return_stack, tasks, nodes, oppsite, base, ended>>

----------------------------------------------------------------------------
\* import_prelude; the primitives that are not here have the same shape.
import_prelude ==
  LET Binary(p) == Primitive(p, 2, 1, <<"x!", "y!", "result">>)
      Dup(p) == Primitive(p, 1, 2, <<"target!", "first", "second">>)
  IN  [p \in {"connect", "link", "iadd", "isub", "int-dup", "fn-dup"} |->
         CASE p = "connect" -> Primitive(p, 2, 0, <<>>)
           [] p = "link" -> Primitive(p, 0, 2, <<>>)
           [] p \in {"iadd", "isub"} -> Binary(p)
           [] p \in {"int-dup", "fn-dup"} -> Dup(p)]

\* load_mod.
Init ==
  /\ file \in Files
  /\ mod = import_prelude
  /\ port_infos = [c \in {} |-> <<>>] /\ rule_array = [c \in {} |-> <<>>]
  /\ value_stack = <<>> /\ return_stack = <<>>
  /\ todo = <<>> /\ tasks = {}
  /\ nodes = [n \in {} |-> NULL] /\ fuzed = [w \in {} |-> NULL] /\ oppsite = {} /\ made = 0
  /\ base = 0 /\ ended = "no"

Ended == ended # "no" \/ (file = <<>> /\ todo = <<>>)

Execute == define_node \/ define_function \/ define_rule_star \/ run_exp \/ define_value
Run == RunEnd \/ RunFinished \/ OpcodeLiteral \/ frame_get_variable \/ frame_set_variable \/ OpcodeApply
ApplyTarget ==
  ApplyNodeCtor \/ ApplyFunction \/ ApplyPrimitive \/ ApplyUnknown \/ defuze \/ worker_apply_wire
Build ==
  \/ reconnect_input \/ reconnect_output \/ fuze \/ connect_active_pair
  \/ collect_primitive_arg \/ ConnectValues
worker_handle_task ==
  \/ worker_work \/ WorkEnd
  \/ \E task \in tasks : worker_handle_task_active_pair(task)
  \/ \E task \in tasks : worker_handle_task_primitive(task)
  \/ PrimitiveResults \/ worker_apply_primitive

Step == Execute \/ Run \/ ApplyTarget \/ Build \/ worker_handle_task
Next == Step \/ (Ended /\ UNCHANGED vars)

Spec == Init /\ [][Next]_vars

----------------------------------------------------------------------------
(* Properties. *)

\* Every variable keeps its type.
TypeOK ==
  LET IsValue(v) ==
        \/ v.kind \in {"int", "ctor", "function", "primitive"}
        \/ v.kind = "wire" /\ v.wire \in 1 .. made
        \/ v.kind = "principal" /\ v.node \in 1 .. made /\ v.index \in Nat
  IN  /\ \A name \in DOMAIN mod : IsValue(mod[name])
      /\ DOMAIN port_infos = DOMAIN rule_array
      /\ \A i \in DOMAIN value_stack : IsValue(value_stack[i])
      /\ \A i \in DOMAIN return_stack : return_stack[i].cursor \in 1 .. Len(return_stack[i].code) + 1
      /\ DOMAIN nodes \subseteq 1 .. made /\ DOMAIN fuzed \subseteq 1 .. made
      /\ \A n \in DOMAIN nodes : Len(nodes[n].ports) = Len(Ports(nodes[n].ctor))
      /\ \A w \in DOMAIN fuzed : fuzed[w] = NULL \/ IsValue(fuzed[w])
      /\ base \in Nat
      /\ ended \in {"no", "exit", "abort", "freed"}

\* The ports of node n that count: a handler has taken the inputs of a primitive
\* node, and the outputs that it has connected.
PortsHeld(n) ==
  LET handled == {i \in DOMAIN todo : todo[i].do = "results" /\ todo[i].node = n}
  IN  IF handled = {} THEN DOMAIN nodes[n].ports
      ELSE nodes[n].ctor.input_arity + 1 .. todo[Min(handled)].index

\* The places that hold value v.
Places(v) ==
  {<<"stack", i>> : i \in {i \in DOMAIN value_stack : value_stack[i] = v}} \union
  UNION {{<<"variable", f, i>> : i \in {i \in DOMAIN return_stack[f].variables :
            return_stack[f].variables[i] = v}} : f \in DOMAIN return_stack} \union
  UNION {{<<"port", n, i>> : i \in {i \in PortsHeld(n) : nodes[n].ports[i] = v}}
           : n \in DOMAIN nodes} \union
  {<<"fuzed", w>> : w \in {w \in DOMAIN fuzed : fuzed[w] = v}} \union
  {<<"left", i>> : i \in {i \in DOMAIN todo : todo[i].do = "connect" /\ todo[i].left = v}} \union
  {<<"right", i>> : i \in {i \in DOMAIN todo : todo[i].do = "connect" /\ todo[i].right = v}} \union
  {<<"target", i>> : i \in {i \in DOMAIN todo : todo[i].do = "apply" /\ todo[i].target = v}}

\* What has been freed is used nowhere.
NoDangling ==
  \A w \in 1 .. made \ DOMAIN fuzed : Places(Wire(w)) = {}

\* No step of the machine, of a rule or of a primitive loses or copies an end of
\* a wire: a wire is held in two places, or in one when its other end has been
\* given a value; a principal wire by its node and in one other place, unless it
\* has met another; and what has been freed is held nowhere.
Linear ==
  /\ TypeOK /\ NoDangling
  /\ \A w \in DOMAIN fuzed :
       Cardinality(Places(Wire(w))) = IF fuzed[w] = NULL THEN 2 ELSE 1
  /\ \A n \in DOMAIN nodes : \A i \in DOMAIN nodes[n].ports :
       LET v == PrincipalWire(n, i) IN
         nodes[n].ports[i] = v =>
           Cardinality(Places(v)) = IF \E pair \in oppsite : v \in pair THEN 1 ELSE 2

\* Every task leaves the stack of its worker as it found it, so it does not
\* matter which worker handles it, and a call in tail position keeps no frame of
\* the caller.
StacksBalanced ==
  /\ Doing("work") => Len(value_stack) = base
  /\ \A i \in DOMAIN return_stack :
       frame_is_finished(return_stack[i]) => return_stack[i].code = <<>>
=============================================================================
