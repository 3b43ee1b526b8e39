----------------------------- MODULE Statements -----------------------------
(***************************************************************************)
(* From s-expressions to statements: lang/parse_stmt.c, lang/parse_exp.c,  *)
(* with the constructors and the printing of lang/stmt.c and lang/exp.c.   *)
(*                                                                         *)
(* An s-expression is an atom, with its word and the kind of its token, or *)
(* a list.  The parser walks each list with its cursor; an assertion that  *)
(* fails and a NULL that is followed both end the program: Refused.        *)
(***************************************************************************)
EXTENDS Memory

CONSTANT
  Sources,  \* the s-expressions that are parsed
  Numerals  \* the words that read as numbers

VARIABLES source, statement
statementVars == <<source, statement>>

Word(w) == [kind |-> "atom", word |-> w, token |-> IF w \in Numerals THEN "int" ELSE "generic"]
\* A word in quotes, which is a name even if it looks like a number.
Quoted(w) == [kind |-> "atom", word |-> w, token |-> "string"]
Group(items) == [kind |-> "list", items |-> items]

is_atom_sexp(s) == s # NULL /\ s.kind = "atom"
AreAtoms(s) == \A i \in DOMAIN s : is_atom_sexp(s[i])
Words(s) == [i \in DOMAIN s |-> s[i].word]

sexp_starts_with(s, w) ==
  s.kind = "list" /\ s.items # <<>> /\ s.items[1].kind = "atom" /\ s.items[1].word = w

\* What list_next answers after the i-th item of a list, and again after the
\* end: the cursor is NULL then, and starts again from the first.
NextItem(s, i) == IF i < Len(s) THEN i + 1 ELSE 0

Refused == [kind |-> "refused"]
AnyRefused(s) == \E i \in DOMAIN s : s[i] = Refused

----------------------------------------------------------------------------
(* parse_exp.c *)

exp_var(name) == [kind |-> "var", name |-> name]
exp_int(target) == [kind |-> "int", target |-> target]
exp_ap(target, arg_list) == [kind |-> "ap", target |-> target, arg_list |-> arg_list]
exp_assign(name_list, exp) == [kind |-> "assign", name_list |-> name_list, exp |-> exp]

\* The items after the keyword: names, and a last one that is no name.
Others(s) == Tail(s.items)
Names(s) == SubSeq(s.items, 2, Len(s.items) - 1)
Last1(s) == IF Len(s.items) = 1 THEN NULL ELSE s.items[Len(s.items)]

\* A float is not told from an int: the two differ in the number only.
RECURSIVE parse_exp(_)
parse_exp(s) ==
  IF sexp_starts_with(s, "=") \/ sexp_starts_with(s, "assign") THEN
    LET exp == IF Last1(s) = NULL THEN NULL ELSE parse_exp(Last1(s))
    IN  IF AreAtoms(Names(s)) /\ exp # Refused THEN exp_assign(Words(Names(s)), exp) ELSE Refused
  ELSE IF is_atom_sexp(s) THEN IF s.token = "int" THEN exp_int(s.word) ELSE exp_var(s.word)
  ELSE IF s.items = <<>> THEN Refused
  ELSE LET exps == [i \in DOMAIN s.items |-> parse_exp(s.items[i])]
       IN  IF AnyRefused(exps) THEN Refused ELSE exp_ap(exps[1], Tail(exps))

parse_exps(s) == [i \in DOMAIN s |-> parse_exp(s[i])]

----------------------------------------------------------------------------
(* parse_stmt.c.  Second is the item after the keyword, if there is one. *)

Second(s) == IF Len(s.items) < 2 THEN NULL ELSE s.items[2]
Body(s) == SubSeq(s.items, 3, Len(s.items))

parse_define_node(s) ==
  IF Second(s) = NULL \/ ~AreAtoms(Others(s)) THEN Refused
  ELSE [kind |-> "define-node", name |-> Second(s).word, port_name_list |-> Words(Body(s))]

\* Mutant: does not look for a third item.
parse_define_value_loose(s) ==
  IF Len(s.items) < 3 \/ parse_exp(s.items[3]) = Refused THEN Refused
  ELSE [kind |-> "define", name |-> Second(s).word, exp |-> parse_exp(s.items[3])]

\* There is nothing after the expression; when the expression is missing the
\* cursor has started again, and there seems to be something.
parse_define_value(s) ==
  LET i == NextItem(s.items, 2)
      after == NextItem(s.items, i)
  IN  IF after # 0 \/ parse_exp(s.items[i]) = Refused THEN Refused
      ELSE [kind |-> "define", name |-> Second(s).word, exp |-> parse_exp(s.items[i])]

parse_define_function(s) ==
  LET names == Second(s).items
      exps == parse_exps(Body(s))
  IN  IF names = <<>> \/ ~AreAtoms(names) \/ AnyRefused(exps) THEN Refused
      ELSE [kind |-> "define-function", name |-> names[1].word,
            arg_name_list |-> Words(Tail(names)), exp_list |-> exps]

parse_define(s) ==
  IF Second(s) = NULL THEN Refused
  ELSE IF is_atom_sexp(Second(s)) THEN parse_define_value(s)
  ELSE parse_define_function(s)

parse_define_rule(s) ==
  LET exps == parse_exps(Others(s))
  IN  IF exps = <<>> \/ AnyRefused(exps) THEN Refused
      ELSE [kind |-> "define-rule", pattern_exp |-> exps[1], exp_list |-> Tail(exps)]

parse_define_rule_star(s) ==
  IF Second(s) = NULL \/ is_atom_sexp(Second(s)) THEN Refused
  ELSE LET patterns == parse_exps(Second(s).items)
           exps == parse_exps(Body(s))
       IN  IF AnyRefused(patterns) \/ AnyRefused(exps) THEN Refused
           ELSE [kind |-> "define-rule*", pattern_exp_list |-> patterns, exp_list |-> exps]

parse_run_exp(s) ==
  LET exp == parse_exp(s) IN IF exp = Refused THEN Refused ELSE [kind |-> "run", exp |-> exp]

parse_import(s) ==
  IF ~AreAtoms(Others(s)) THEN Refused
  ELSE [kind |-> "import", name_list |-> Words(Names(s)),
        path |-> IF Last1(s) = NULL THEN NULL ELSE Last1(s).word]

parse_stmt(s) ==
  IF sexp_starts_with(s, "define-node") THEN parse_define_node(s)
  ELSE IF sexp_starts_with(s, "define-rule") THEN parse_define_rule(s)
  ELSE IF sexp_starts_with(s, "define-rule*") THEN parse_define_rule_star(s)
  ELSE IF sexp_starts_with(s, "define") THEN parse_define(s)
  ELSE IF sexp_starts_with(s, "import") THEN parse_import(s)
  ELSE parse_run_exp(s)

----------------------------------------------------------------------------
(* stmt_print and exp_print, as the s-expression that the text reads as: a *)
(* name is written without quotes, and the assigned expression is left out.*)

Spell(names) == [i \in DOMAIN names |-> Word(names[i])]

RECURSIVE exp_print(_)
exp_print(e) ==
  CASE e.kind = "var" -> Word(e.name)
    [] e.kind = "int" -> Word(e.target)
    [] e.kind = "ap" -> Group(<<exp_print(e.target)>> \o
                                [i \in DOMAIN e.arg_list |-> exp_print(e.arg_list[i])])
    [] e.kind = "assign" -> Group(<<Word("=")>> \o Spell(e.name_list))

exp_list_print(exps) == [i \in DOMAIN exps |-> exp_print(exps[i])]

stmt_print(t) ==
  CASE t.kind = "define" -> Group(<<Word("define"), Word(t.name), exp_print(t.exp)>>)
    [] t.kind = "define-function" ->
         Group(<<Word("define"), Group(Spell(<<t.name>> \o t.arg_name_list))>>
                 \o exp_list_print(t.exp_list))
    [] t.kind = "define-node" ->
         Group(Spell(<<"define-node", t.name>> \o t.port_name_list))
    [] t.kind = "define-rule" ->
         Group(<<Word("define-rule"), exp_print(t.pattern_exp)>> \o exp_list_print(t.exp_list))
    [] t.kind = "define-rule*" ->
         Group(<<Word("define-rule*"), Group(exp_list_print(t.pattern_exp_list))>>
                 \o exp_list_print(t.exp_list))
    [] t.kind = "run" -> exp_print(t.exp)
    [] t.kind = "import" ->
         Group(Spell(<<"import">> \o t.name_list) \o <<Quoted(t.path)>>)

----------------------------------------------------------------------------
StatementInit == source \in Sources /\ statement = NULL

parse_stmt_list == statement = NULL /\ statement' = parse_stmt(source) /\ UNCHANGED source

StatementNext == parse_stmt_list

----------------------------------------------------------------------------
(* Properties. *)

RECURSIVE Leaves(_), ExpWords(_)
\* The words of s-expressions, in order.
Leaves(s) ==
  IF s = <<>> THEN <<>>
  ELSE (IF is_atom_sexp(s[1]) THEN <<s[1].word>> ELSE Leaves(s[1].items)) \o Leaves(Tail(s))

\* The words of expressions, in order; "=" stands for both of its spellings.
ExpWords(exps) ==
  IF exps = <<>> THEN <<>>
  ELSE (CASE exps[1] = NULL -> <<>>
          [] exps[1] # NULL /\ exps[1].kind = "var" -> <<exps[1].name>>
          [] exps[1] # NULL /\ exps[1].kind = "int" -> <<exps[1].target>>
          [] exps[1] # NULL /\ exps[1].kind = "ap" -> ExpWords(<<exps[1].target>> \o exps[1].arg_list)
          [] exps[1] # NULL /\ exps[1].kind = "assign" ->
               <<"=">> \o exps[1].name_list \o ExpWords(<<exps[1].exp>>))
       \o ExpWords(Tail(exps))

StmtWords(t) ==
  CASE t.kind = "define" -> <<"define", t.name>> \o ExpWords(<<t.exp>>)
    [] t.kind = "define-function" ->
         <<"define", t.name>> \o t.arg_name_list \o ExpWords(t.exp_list)
    [] t.kind = "define-node" -> <<"define-node", t.name>> \o t.port_name_list
    [] t.kind = "define-rule" -> <<"define-rule">> \o ExpWords(<<t.pattern_exp>> \o t.exp_list)
    [] t.kind = "define-rule*" -> <<"define-rule*">> \o ExpWords(t.pattern_exp_list \o t.exp_list)
    [] t.kind = "run" -> ExpWords(<<t.exp>>)
    [] t.kind = "import" ->
         <<"import">> \o t.name_list \o (IF t.path = NULL THEN <<>> ELSE <<t.path>>)

Parsed == statement # NULL /\ statement # Refused

\* Nothing of a statement that is accepted is dropped, repeated or moved by the
\* walks along its lists: its words are the words of the source, in order.
WordsKept == Parsed => StmtWords(statement) = Leaves(<<source>>)

\* The language of expressions and of statements.
RECURSIVE GoodExp(_)
GoodExp(s) ==
  \/ is_atom_sexp(s)
  \/ /\ s.items # <<>>
     /\ IF s.items[1] \in {Word("="), Quoted("=")}
        THEN Len(s.items) = 1 \/ (AreAtoms(Names(s)) /\ GoodExp(s.items[Len(s.items)]))
        ELSE \A i \in DOMAIN s.items : GoodExp(s.items[i])

GoodExps(s) == \A i \in DOMAIN s : GoodExp(s[i])

GoodStmt(s) ==
  LET keyword == IF is_atom_sexp(s) \/ s.items = <<>> \/ ~is_atom_sexp(s.items[1]) THEN "none"
                 ELSE s.items[1].word
      named == Len(s.items) >= 2 /\ ~is_atom_sexp(s.items[2]) /\ s.items[2].items # <<>>
  IN  CASE keyword = "define-node" -> Len(s.items) >= 2 /\ AreAtoms(s.items)
        [] keyword = "define" ->
             \/ Len(s.items) = 3 /\ is_atom_sexp(s.items[2]) /\ GoodExp(s.items[3])
             \/ named /\ AreAtoms(s.items[2].items) /\ GoodExps(Body(s))
        [] keyword = "define-rule" -> Len(s.items) >= 2 /\ GoodExps(Others(s))
        [] keyword = "define-rule*" ->
             /\ Len(s.items) >= 2 /\ ~is_atom_sexp(s.items[2])
             /\ GoodExps(s.items[2].items) /\ GoodExps(Body(s))
        [] keyword = "import" -> AreAtoms(s.items)
        [] OTHER -> GoodExp(s)

\* The parser ends the program exactly on the sources that are no statements:
\* a definition without a name or with more than a value is never accepted,
\* although the cursor starts again after the end of a list.
RefusedExactly == statement # NULL => (statement # Refused <=> GoodStmt(source))

RECURSIVE Lacks(_)
\* An assignment of nothing somewhere in the expressions.
Lacks(exps) ==
  \E i \in DOMAIN exps :
    \/ exps[i] = NULL
    \/ exps[i].kind = "ap" /\ Lacks(<<exps[i].target>> \o exps[i].arg_list)
    \/ exps[i].kind = "assign" /\ Lacks(<<exps[i].exp>>)

RECURSIVE Assigns(_)
\* An assignment of something.
Assigns(exps) ==
  \E i \in DOMAIN exps :
    \/ exps[i].kind = "assign" /\ exps[i].exp # NULL
    \/ exps[i].kind = "ap" /\ Assigns(<<exps[i].target>> \o exps[i].arg_list)

Exps(t) ==
  CASE t.kind \in {"define", "run"} -> <<t.exp>>
    [] t.kind = "define-function" -> t.exp_list
    [] t.kind = "define-rule" -> <<t.pattern_exp>> \o t.exp_list
    [] t.kind = "define-rule*" -> t.pattern_exp_list \o t.exp_list
    [] OTHER -> <<>>

RECURSIVE Bare(_)
\* An "=" or an "import" alone in a list.
Bare(s) ==
  /\ ~is_atom_sexp(s)
  /\ \/ Len(s.items) = 1 /\ is_atom_sexp(s.items[1]) /\ s.items[1].word = "="
     \/ \E i \in DOMAIN s.items : Bare(s.items[i])

\* A statement that is accepted has all its parts, which compiling and loading
\* follow without looking: only (=) has no expression and (import) no path.
PartsThere ==
  Parsed =>
    /\ Lacks(Exps(statement)) => Bare(source)
    /\ statement.kind = "import" /\ statement.path = NULL => Len(source.items) = 1

RECURSIVE QuotedNumeral(_)
QuotedNumeral(s) ==
  IF is_atom_sexp(s) THEN s.token = "string" /\ s.word \in Numerals
  ELSE \E i \in DOMAIN s.items : QuotedNumeral(s.items[i])

\* A statement is printed as text that reads as the statement; one that assigns
\* is not, since exp_print leaves the assigned expression out, nor a name that
\* was quoted because it looks like a number.
StatementReads ==
  Parsed /\ (statement.kind = "import" => statement.path # NULL) /\ ~QuotedNumeral(source) =>
    (parse_stmt(stmt_print(statement)) = statement <=> ~Assigns(Exps(statement)))

\* The parser accepts the statements and nothing else, keeps all their words,
\* gives later stages all the parts they follow, and a statement is printed as
\* text that is read back.
StatementExact == RefusedExactly /\ WordsKept /\ PartsThere /\ StatementReads
=============================================================================
