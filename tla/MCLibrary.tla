------------------------------ MODULE MCLibrary ------------------------------
(***************************************************************************)
(* The sequential parts for TLC: the first state chooses one of them, which*)
(* then makes all the steps, and the others rest in an initial state.      *)
(***************************************************************************)
EXTENDS List, Array, Hash, NetReader, Reader, Statements, Loader, TLC

CONSTANTS thing, twin1, twin2  \* values of lists

VARIABLE part
libraryVars == <<part, listVars, arrayVars, hashVars, netVars, readerVars, statementVars, loaderVars>>

MCEqual == {<<twin1, twin2>>, <<twin2, twin1>>}

\* Keys 1, 2 and 3 share a bucket at both sizes 5 and 7, and part at 11.
MCHashFn == <<0, 35, 70, 1>>
MCPrimes == <<5, 7, 11>>

MCArity == <<2, 2, 2>>
MCPrincipalPorts == {<<1, 0>>, <<2, 0>>, <<3, 1>>}

Keywords == {"define", "define-node", "define-rule", "define-rule*", "import", "=", "x", "1"}
MCAtoms == {Word(w) : w \in Keywords} \union {Quoted("1")}
Few == {Word("="), Word("x"), Word("1")}
MCGroups ==
  {Group(s) : s \in {<<>>} \union {<<v>> : v \in Few} \union {<<v, w>> : v, w \in Few}}
  \union {Group(<<Word("="), Word("x"), v>>) :
            v \in {Word("1"), Group(<<Word("=")>>), Group(<<Word("x"), Group(<<>>)>>)}}
MCItems == MCAtoms \union MCGroups
MCSources ==
  MCItems \union {Group(<<v>>) : v \in MCItems} \union {Group(<<v, w>>) : v, w \in MCItems}
  \union {Group(<<u, v, w>>) : u, v, w \in MCItems}
  \union {Group(<<k, u, v, w>>) : k \in MCAtoms, u \in Few \union {Group(<<Word("x")>>)}, v, w \in Few}

\* The files /a, /d/b and /d/c; the working directory is /d.
MCCwd == <<"", "d">>
Def(n) == [kind |-> "define", name |-> n]
Imp(names, path) == [kind |-> "import", names |-> names, path |-> path]
FilesA == {<<Def("x")>>}
  \union {<<Def("y"), Imp(<<"x">>, path)>> : path \in {<<"d", "b">>, <<"a">>, <<"d">>}}
FilesB == {<<Def("x")>>, <<Def("p")>>, <<Imp(<<"x">>, <<"c">>)>>, <<Imp(<<"x">>, <<"", "c">>), Def("z")>>}
  \union {<<Imp(<<"x">>, path), s>> : path \in {<<"..", "a">>, <<"..", "..", "a">>}, s \in {Def("z"), Def("x")}}
MCImports == {Imp(names, path) : names \in {<<"x">>, <<"x", "y">>},
                path \in {<<"..", "a">>, <<".", "b">>, <<"..", "d", "b">>, <<"c">>, <<"..", "..", "..", "a">>}}
FilesC == {<<s>> : s \in MCImports} \union {<<s, t>> : s \in MCImports, t \in MCImports \union {Def("x")}}
  \union {<<Def("x"), Def("y")>>}
MCProjects == {(<<"a">> :> f) @@ (<<"d", "b">> :> g) @@ (<<"d", "c">> :> h) :
                 f \in FilesA, g \in FilesB, h \in FilesC}
MCArguments == {<<<<"c">>>>, <<<<"b">>, <<"..", "d", "b">>, <<"", "d", ".", "c">>>>, <<<<"nothing">>>>}

Init ==
  /\ part \in {"list", "array", "hash", "net", "reader", "statements", "loader"}
  /\ ListInit /\ HashInit /\ NetInit
  /\ IF part = "array" THEN ArrayInit ELSE array = array_new(1) /\ contents = <<>>
  /\ IF part = "reader" THEN ReaderInit ELSE lexer = lexer_new(<<>>) /\ sexps = NULL
  /\ IF part = "statements" THEN StatementInit ELSE source = Word("x") /\ statement = NULL
  /\ IF part = "loader" THEN LoaderInit
     ELSE /\ project = <<>> /\ arguments = <<>> /\ calls = <<>> /\ mods = <<>>
          /\ global_mod_cache = <<>> /\ loaded = NULL /\ fate = "run"

Next ==
  \/ /\ part = "list" /\ ListNext
     /\ UNCHANGED <<part, arrayVars, hashVars, netVars, readerVars, statementVars, loaderVars>>
  \/ /\ part = "array" /\ ArrayNext
     /\ UNCHANGED <<part, listVars, hashVars, netVars, readerVars, statementVars, loaderVars>>
  \/ /\ part = "hash" /\ HashNext
     /\ UNCHANGED <<part, listVars, arrayVars, netVars, readerVars, statementVars, loaderVars>>
  \/ /\ part = "net" /\ NetNext
     /\ UNCHANGED <<part, listVars, arrayVars, hashVars, readerVars, statementVars, loaderVars>>
  \/ /\ part = "reader" /\ ReaderNext
     /\ UNCHANGED <<part, listVars, arrayVars, hashVars, netVars, statementVars, loaderVars>>
  \/ /\ part = "statements" /\ StatementNext
     /\ UNCHANGED <<part, listVars, arrayVars, hashVars, netVars, readerVars, loaderVars>>
  \/ /\ part = "loader" /\ LoaderNext
     /\ UNCHANGED <<part, listVars, arrayVars, hashVars, netVars, readerVars, statementVars>>

Spec == Init /\ [][Next]_libraryVars
=============================================================================
