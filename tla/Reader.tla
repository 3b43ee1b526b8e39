------------------------------- MODULE Reader -------------------------------
(***************************************************************************)
(* From text to s-expressions: packages/std/lexer and packages/std/sexp.   *)
(* The lexer goes through the text with a cursor and makes a list of       *)
(* tokens, the parser takes the tokens from the front of that list.  An    *)
(* assertion that fails ends the program.                                  *)
(*                                                                         *)
(* Characters are classes of characters: n stands for a letter that can be *)
(* escaped, 0 for a digit, which after a backslash is the end of a string. *)
(* The operators are those of the code, on the record of the lexer.        *)
(***************************************************************************)
EXTENDS Memory

CONSTANTS
  Characters, MaxText,  \* the texts that are read
  MAX_TOKEN_LENGTH

VARIABLES
  lexer,   \* [string, cursor, lineno, column, token_list, status]
  sexps    \* what sexp_parse_list returned
readerVars == <<lexer, sexps>>

isspace(c) == c \in {"space", "newline"}
IsDelimiter(c) == c \in {"(", ")"}

\* The character at the cursor; a string ends with \0.
CharAt(l, i) == IF i < Len(l.string) THEN l.string[i + 1] ELSE "end"
current_char(l) == CharAt(l, l.cursor)
is_finished(l) == l.cursor = Len(l.string)

lexer_new(text) ==
  [string |-> text, cursor |-> 0, lineno |-> 1, column |-> 1,
   token_list |-> <<>>, status |-> "run"]

Texts == UNION {[1 .. n -> Characters] : n \in 0 .. MaxText}

ReaderInit == \E text \in Texts : lexer = lexer_new(text) /\ sexps = NULL

step(l) ==
  [l EXCEPT !.cursor = @ + 1,
            !.lineno = IF current_char(l) = "newline" THEN @ + 1 ELSE @,
            !.column = IF current_char(l) = "newline" THEN 1 ELSE @ + 1]

Abort(l) == [l EXCEPT !.status = "abort"]

RECURSIVE ignore_space(_)
ignore_space(l) == IF isspace(current_char(l)) THEN ignore_space(step(l)) ELSE l

\* The rest of a comment, with the end of the line.
RECURSIVE ignore_comment(_)
ignore_comment(l) ==
  IF is_finished(l) THEN l
  ELSE IF current_char(l) = "newline" THEN step(l) ELSE ignore_comment(step(l))

Token(l, kind, string, start, end) ==
  [l EXCEPT !.token_list = Append(@, [kind |-> kind, string |-> string, start |-> start,
                                      end |-> end, lineno |-> l.lineno, column |-> l.column])]

collect_delimiter(l) == Token(step(l), "delimiter", <<current_char(l)>>, l.cursor, l.cursor + 1)

\* What collect_string makes of the character after a backslash.
Escaped(c) == IF c = "n" THEN "newline" ELSE IF c = "0" THEN "end" ELSE c
CanBeEscaped(c) == c \in {"n", "0", "quote", "backslash"}

\* What string_length and string_copy take of a buffer.
CString(buffer) ==
  LET ends == {i \in DOMAIN buffer : buffer[i] = "end"}
  IN  IF ends = {} THEN buffer
      ELSE SubSeq(buffer, 1, (CHOOSE i \in ends : \A j \in ends : i <= j) - 1)

\* The rest of a string; the buffer holds what was collected.
RECURSIVE collect_string(_, _)
collect_string(l, buffer) ==
  LET c == current_char(l) IN
    IF is_finished(l) \/ Len(buffer) > MAX_TOKEN_LENGTH THEN Abort(l)
    ELSE IF c = "backslash" THEN
      LET e == current_char(step(l)) IN
        IF CanBeEscaped(e) THEN collect_string(step(step(l)), Append(buffer, Escaped(e)))
        ELSE Abort(l)
    ELSE IF c = "quote"
      THEN step(Token(l, "string", CString(buffer), l.cursor - Len(CString(buffer)), l.cursor))
    ELSE collect_string(step(l), Append(buffer, c))

\* Mutant: goes on over parentheses.
RECURSIVE collect_generic_greedy(_, _)
collect_generic_greedy(l, buffer) ==
  IF Len(buffer) > MAX_TOKEN_LENGTH THEN Abort(l)
  ELSE IF isspace(current_char(l)) \/ is_finished(l)
    THEN Token(l, "generic", buffer, l.cursor - Len(buffer), l.cursor)
  ELSE collect_generic_greedy(step(l), Append(buffer, current_char(l)))

\* Comments and strings start only where a token may start.
RECURSIVE collect_generic(_, _)
collect_generic(l, buffer) ==
  IF Len(buffer) > MAX_TOKEN_LENGTH THEN Abort(l)
  ELSE IF isspace(current_char(l)) \/ IsDelimiter(current_char(l)) \/ is_finished(l)
    THEN Token(l, "generic", buffer, l.cursor - Len(buffer), l.cursor)
  ELSE collect_generic(step(l), Append(buffer, current_char(l)))

lexer_step(l) ==
  LET c == current_char(l) IN
    IF isspace(c) THEN ignore_space(l)
    ELSE IF c = ";" THEN ignore_comment(step(l))
    ELSE IF IsDelimiter(c) THEN collect_delimiter(l)
    ELSE IF c = "quote" THEN collect_string(step(l), <<>>)
    ELSE collect_generic(l, <<>>)

string_is_xint(s) == \A i \in DOMAIN s : s[i] = "0"

\* Generic tokens that read as numbers become numbers.
postprocess_int(tokens) ==
  [i \in DOMAIN tokens |->
     IF tokens[i].kind = "generic" /\ string_is_xint(tokens[i].string)
     THEN [tokens[i] EXCEPT !.kind = "int"] ELSE tokens[i]]

----------------------------------------------------------------------------
(* The parser, which asks for the string of a token, not for its kind. *)

Atom(t) == [kind |-> "atom", token |-> t]
ListSexp(items) == [kind |-> "list", sexp_list |-> items]

Opens(t) == t.string = <<"(">>
Closes(t) == t.string = <<")">>

\* parse_sexp and parse_list: what was read, and the tokens that are left.  At
\* the end of the tokens every open list ends too.
RECURSIVE parse_list(_)
parse_list(tokens) ==
  IF tokens = <<>> \/ Closes(tokens[1]) THEN [read |-> <<>>, left |-> tokens]
  ELSE LET inner == parse_list(Tail(tokens))
           first == IF Opens(tokens[1]) THEN ListSexp(inner.read) ELSE Atom(tokens[1])
           left == IF ~Opens(tokens[1]) THEN Tail(tokens)
                   ELSE IF inner.left = <<>> THEN <<>> ELSE Tail(inner.left)
           others == parse_list(left)
       IN  [read |-> <<first>> \o others.read, left |-> others.left]

RECURSIVE sexp_print(_)
sexp_print(s) ==
  IF s.kind = "atom"
  THEN IF s.token.kind = "string" THEN <<"quote">> \o s.token.string \o <<"quote">>
       ELSE s.token.string
  ELSE LET written[i \in 0 .. Len(s.sexp_list)] ==
             IF i = 0 THEN <<>>
             ELSE written[i - 1] \o (IF i = 1 THEN <<>> ELSE <<"space">>) \o sexp_print(s.sexp_list[i])
       IN  <<"(">> \o written[Len(s.sexp_list)] \o <<")">>

----------------------------------------------------------------------------
LexStep ==
  /\ lexer.status = "run" /\ ~is_finished(lexer)
  /\ lexer' = lexer_step(lexer)
  /\ UNCHANGED sexps

\* Mutant: what is left is dropped.
sexp_parse_list_lax ==
  /\ lexer.status = "run" /\ is_finished(lexer)
  /\ LET tokens == postprocess_int(lexer.token_list)
     IN  /\ lexer' = [lexer EXCEPT !.token_list = tokens, !.status = "read"]
         /\ sexps' = parse_list(tokens).read

\* The end of lexer_run and of sexp_parse_list: tokens that are left, from a
\* parenthesis too many on, end the program.
sexp_parse_list ==
  /\ lexer.status = "run" /\ is_finished(lexer)
  /\ LET tokens == postprocess_int(lexer.token_list)
         result == parse_list(tokens)
     IN  /\ lexer' = [lexer EXCEPT !.token_list = tokens,
                        !.status = IF result.left = <<>> THEN "read" ELSE "abort"]
         /\ sexps' = result.read

ReaderNext == LexStep \/ sexp_parse_list

ReaderSpec == ReaderInit /\ [][ReaderNext]_readerVars

----------------------------------------------------------------------------
(* Properties. *)

Newlines == {i \in 1 .. lexer.cursor : lexer.string[i] = "newline"}

\* The line and the column that the tokens are marked with are those of the
\* cursor, through comments, strings and escapes, which all move it their way.
Position ==
  lexer.status # "abort" =>
    /\ lexer.lineno = 1 + Cardinality(Newlines)
    /\ lexer.column = lexer.cursor + 1 -
         (IF Newlines = {} THEN 0 ELSE CHOOSE i \in Newlines : \A j \in Newlines : j <= i)

\* Every round of the lexer gets further, so that it comes to an end, and not
\* past the end of the text.
Progress ==
  lexer.status = "run" /\ ~is_finished(lexer) =>
    LET l == lexer_step(lexer)
    IN  l.status = "abort" \/ l.cursor \in lexer.cursor + 1 .. Len(lexer.string)

\* What the tokens of a text are, one character after the other: m is what the
\* character is part of, b the token so far, out the tokens before.
RECURSIVE Reference(_, _, _, _)
Reference(text, m, b, out) ==
  LET c == text[1]
      rest == Tail(text)
      done == IF m = "generic" THEN Append(out, <<"generic", b>>) ELSE out
  IN  IF Len(b) > MAX_TOKEN_LENGTH THEN <<"abort">>
      ELSE IF text = <<>> THEN IF m \in {"string", "escape"} THEN <<"abort">> ELSE done
      ELSE IF m = "comment" THEN Reference(rest, IF c = "newline" THEN "none" ELSE m, b, out)
      ELSE IF m = "escape" THEN
        IF CanBeEscaped(c) THEN Reference(rest, "string", Append(b, Escaped(c)), out) ELSE <<"abort">>
      ELSE IF m = "string" THEN
        IF c = "quote" THEN Reference(rest, "none", <<>>, Append(out, <<"string", CString(b)>>))
        ELSE IF c = "backslash" THEN Reference(rest, "escape", b, out)
        ELSE Reference(rest, m, Append(b, c), out)
      ELSE IF isspace(c) THEN Reference(rest, "none", <<>>, done)
      ELSE IF IsDelimiter(c) THEN Reference(rest, "none", <<>>, Append(done, <<"delimiter", <<c>>>>))
      ELSE IF m = "none" /\ c = ";" THEN Reference(rest, "comment", <<>>, out)
      ELSE IF m = "none" /\ c = "quote" THEN Reference(rest, "string", <<>>, out)
      ELSE Reference(rest, "generic", Append(b, c), out)

\* The lexer, which looks ahead for the end of each token, finds the tokens
\* that a reading character by character finds, and gives up on the same texts.
TokensFound ==
  LET tokens == lexer.token_list
      kind(t) == IF t.kind = "int" THEN "generic" ELSE t.kind
  IN  is_finished(lexer) \/ lexer.status = "abort" =>
        Reference(lexer.string, "none", <<>>, <<>>) =
          IF lexer.status = "abort" /\ sexps = NULL THEN <<"abort">>
          ELSE [i \in DOMAIN tokens |-> <<kind(tokens[i]), tokens[i].string>>]

\* The place of a token is where its string is in the text; a string with
\* escapes is shorter than its text, and only its end is right.
TokenPlaces ==
  \A i \in DOMAIN lexer.token_list :
    LET t == lexer.token_list[i]
        text == SubSeq(lexer.string, t.start + 1, t.end)
    IN  /\ t.start <= t.end /\ t.end <= lexer.cursor
        /\ i > 1 => lexer.token_list[i - 1].end <= t.start
        /\ t.kind # "string" => text = t.string
        /\ t.kind = "string" => text = t.string \/ "backslash" \in Elements(lexer.string)

\* The tokens, and the lines, columns and places that they are marked with, are
\* those of the text, and the lexer comes to an end.
TokensExact == TokensFound /\ Position /\ TokenPlaces /\ Progress

\* The tokens of s-expressions, without those that close lists.
RECURSIVE Flat(_)
Flat(list_) ==
  IF list_ = <<>> THEN <<>>
  ELSE (IF list_[1].kind = "atom" THEN <<list_[1].token.string>>
        ELSE <<<<"(">>>> \o Flat(list_[1].sexp_list) \o <<<<")">>>>) \o Flat(Tail(list_))

Depth(i) ==
  Cardinality({j \in 1 .. i : Opens(lexer.token_list[j])}) -
  Cardinality({j \in 1 .. i : Closes(lexer.token_list[j])})

\* A text is read if no parenthesis closes what is not open, and then nothing
\* of it is lost: the s-expressions are the tokens in their order, with the
\* closing parentheses that are missing at the end.
ParensClosed ==
  sexps # NULL =>
    LET strings == [i \in DOMAIN lexer.token_list |-> lexer.token_list[i].string]
        open == Depth(Len(strings))
    IN  /\ lexer.status = "read" <=> \A i \in DOMAIN strings : Depth(i) >= 0
        /\ lexer.status = "read" => Flat(sexps) = strings \o [i \in 1 .. open |-> <<")">>]

RECURSIVE Lexed(_)
Lexed(l) == IF is_finished(l) \/ l.status = "abort" THEN l ELSE Lexed(lexer_step(l))

RECURSIVE Shape(_)
Shape(s) ==
  IF s.kind = "list" THEN [kind |-> "list", sexp_list |-> [i \in DOMAIN s.sexp_list |-> Shape(s.sexp_list[i])]]
  ELSE [kind |-> s.token.kind, string |-> s.token.string]

\* What is printed reads as what was printed, if no string has a quote or a
\* backslash in it, which are printed as they are.
PrintReads ==
  lexer.status = "read" =>
    \A i \in DOMAIN sexps :
      LET tokens == lexer.token_list
          text == sexp_print(sexps[i])
          again == Lexed(lexer_new(text))
      IN  (\A t \in Elements(tokens) :
             t.kind = "string" => Elements(t.string) \intersect {"quote", "backslash"} = {})
          => /\ again.status = "run"
             /\ LET result == parse_list(postprocess_int(again.token_list))
                IN  result.left = <<>> /\ [j \in DOMAIN result.read |-> Shape(result.read[j])]
                                            = <<Shape(sexps[i])>>

\* What is read of a text is what it says: the parentheses match, and what is
\* printed is read back.
ParensMatch == ParensClosed /\ PrintReads
=============================================================================
