------------------------------- MODULE Loader -------------------------------
(***************************************************************************)
(* Loading and imports: commands/cmd_run.c, lang/load.c, the definitions   *)
(* and imports of lang/execute.c, core/mod.c.  Each file is a module; an   *)
(* import loads the file, if no module was kept for its path, in the       *)
(* middle of the statements of the file that imports, and then defines the *)
(* imported names.  A module is kept when its last statement was executed. *)
(*                                                                         *)
(* calls are the activations of load_mod on the C stack, the innermost     *)
(* last.  A value is the module that made it and the name it has there.    *)
(***************************************************************************)
EXTENDS Path

CONSTANTS
  Cwd,           \* the text of the working directory
  Arguments,     \* what the command line may be: sequences of texts of paths
  Projects,      \* what the files may be: place -> statements
  PreludeNames,  \* the names that import_prelude defines
  MaxDepth       \* activations that the C stack has room for

ASSUME LoaderAssumption == StartsWithSlash(Cwd) /\ MaxDepth \in Nat

\* What the statements of a file can be.
FileStatements ==
  [kind : {"define"}, name : STRING] \union [kind : {"import"}, names : Seq(STRING), path : Seq(STRING)]

\* Names and segments are strings; getcwd answers a path without . and ..; the
\* C stack has room for as many activations as there are files; the null pointer
\* is no module and no value.
ASSUME FilesAssumption ==
  /\ Cwd \in Seq(STRING) /\ \A i \in DOMAIN Cwd : Cwd[i] \notin {".", ".."}
  /\ Arguments \subseteq Seq(Seq(STRING)) /\ PreludeNames \subseteq STRING
  /\ \A p \in Projects : /\ p \in [DOMAIN p -> Seq(FileStatements)]
                        /\ IsFiniteSet(DOMAIN p) /\ Cardinality(DOMAIN p) <= MaxDepth
  /\ NULL \notin Nat /\ NULL \notin Nat \X STRING

VARIABLES
  project, arguments,
  calls,             \* sequence of [mod, at: the statement that comes next]
  mods,              \* sequence of [path, value_hash, place (history: of the
                     \* file that was meant)]
  global_mod_cache,  \* text of a path -> module
  loaded,            \* the module that load_mod has just returned, or NULL
  fate               \* "run", "done", or what ended the program

loaderVars == <<project, arguments, calls, mods, global_mod_cache, loaded, fate>>

\* What the system makes of an absolute path: .. at the root is the root.
Place(string) ==
  LET at[i \in 0 .. Len(string)] ==
        IF i = 0 THEN <<>>
        ELSE IF string[i] \in {"", "."} THEN at[i - 1]
        ELSE IF string[i] # ".." THEN Append(at[i - 1], string[i])
        ELSE IF at[i - 1] = <<>> THEN <<>> ELSE SubSeq(at[i - 1], 1, Len(at[i - 1]) - 1)
  IN  at[Len(string)]

LoaderInit ==
  /\ project \in Projects /\ arguments \in Arguments
  /\ calls = <<>> /\ mods = <<>> /\ global_mod_cache = <<>>
  /\ loaded = NULL /\ fate = "run"

Top == calls[Len(calls)]
PlaceOf(m) == Place(path_string(mods[m].path))
Code(m) == project[PlaceOf(m)]
AtEnd == Top.at > Len(Code(Top.mod))
Statement == Code(Top.mod)[Top.at]
AtStatement(kind) == fate = "run" /\ calls # <<>> /\ ~AtEnd /\ Statement.kind = kind

End(how) == fate' = how /\ UNCHANGED <<calls, mods, global_mod_cache, loaded>>

mod_find(m, name) == IF name \in DOMAIN mods[m].value_hash THEN mods[m].value_hash[name] ELSE NULL

\* Defines the names of the statement one after the other; after the last the
\* next statement comes.  A name that is there already ends the program.
define(names, value) ==
  IF \E i \in DOMAIN names :
       mod_find(Top.mod, names[i]) # NULL \/ \E j \in 1 .. i - 1 : names[i] = names[j]
  THEN End("redefined")
  ELSE /\ mods' = [mods EXCEPT ![Top.mod].value_hash =
                     [n \in DOMAIN @ \union Elements(names) |->
                        IF n \in DOMAIN @ THEN @[n] ELSE value[n]]]
       /\ calls' = [calls EXCEPT ![Len(calls)].at = @ + 1]
       /\ loaded' = NULL /\ UNCHANGED <<global_mod_cache, fate>>

\* Mutant: does not look for the module.
IsKept_never(path) == FALSE

IsKept(path) == path_string(path) \in DOMAIN global_mod_cache

Keep(m, key) ==
  global_mod_cache' = [k \in DOMAIN global_mod_cache \union {key} |->
                         IF k = key THEN m ELSE global_mod_cache[k]]

\* load_mod: returns the module that was kept, or starts to load the file.
load_mod(path, place) ==
  IF IsKept(path)
  THEN loaded' = global_mod_cache[path_string(path)] /\ UNCHANGED <<calls, mods, global_mod_cache, fate>>
  ELSE IF Place(path_string(path)) \notin DOMAIN project THEN End("missing")
  ELSE IF Len(calls) = MaxDepth THEN End("overflow")
  ELSE /\ mods' = Append(mods, [path |-> path, place |-> place,
                                value_hash |-> [n \in PreludeNames |-> <<0, n>>]])
       /\ calls' = Append(calls, [mod |-> Len(mods) + 1, at |-> 1])
       /\ loaded' = NULL /\ UNCHANGED <<global_mod_cache, fate>>

----------------------------------------------------------------------------
\* The next argument of the command line.  What load_mod returns is not used.
run ==
  /\ fate = "run" /\ calls = <<>>
  /\ arguments # <<>> /\ arguments' = Tail(arguments)
  /\ load_mod(path_resolve(path_new(Cwd), arguments[1]),
              Place(IF StartsWithSlash(arguments[1]) THEN arguments[1] ELSE Cwd \o arguments[1]))
  /\ UNCHANGED project

finish ==
  /\ fate = "run" /\ calls = <<>> /\ arguments = <<>>
  /\ End("done")
  /\ UNCHANGED <<project, arguments>>

\* STMT_DEFINE, and the other definitions of a name.  The value is made from
\* the names that are there, see Evaluator.
execute_define ==
  /\ AtStatement("define")
  /\ define(<<Statement.name>>, [n \in {Statement.name} |-> <<Top.mod, n>>])
  /\ UNCHANGED <<project, arguments>>

\* Mutant: relative to the file that imports.
ImportPath_file(m, string) == path_join(path_copy(mods[m].path), path_string(path_new(string)))

\* Where an import looks: an absolute path, too, is joined to the directory of
\* the file that imports.
ImportPath(m, string) ==
  path_join(path_join(path_copy(mods[m].path), <<"..">>), path_string(path_new(string)))

MeantPlace == Place(path_string(mods[Top.mod].path) \o <<"..">> \o Statement.path)

\* Mutant: goes on without a file that is being loaded.
execute_import_skips ==
  /\ AtStatement("import") /\ loaded = NULL
  /\ IF \E i \in DOMAIN calls : mods[calls[i].mod].path = ImportPath(Top.mod, Statement.path)
     THEN /\ calls' = [calls EXCEPT ![Len(calls)].at = @ + 1]
          /\ UNCHANGED <<mods, global_mod_cache, loaded, fate>>
     ELSE load_mod(ImportPath(Top.mod, Statement.path), MeantPlace)
  /\ UNCHANGED <<project, arguments>>

\* STMT_IMPORT up to the return of load_mod.
execute_import ==
  /\ AtStatement("import") /\ loaded = NULL
  /\ load_mod(ImportPath(Top.mod, Statement.path), MeantPlace)
  /\ UNCHANGED <<project, arguments>>

\* The rest of STMT_IMPORT.
import_names ==
  /\ AtStatement("import") /\ loaded # NULL
  /\ IF \E i \in DOMAIN Statement.names : mod_find(loaded, Statement.names[i]) = NULL
     THEN End("unknown")
     ELSE define(Statement.names, [n \in Elements(Statement.names) |-> mod_find(loaded, n)])
  /\ UNCHANGED <<project, arguments>>

\* The end of load_mod: the module is kept, and it is an error if one is there.
load_mod_end ==
  /\ fate = "run" /\ calls # <<>> /\ AtEnd
  /\ IF IsKept(mods[Top.mod].path) THEN End("kept twice")
     ELSE /\ Keep(Top.mod, path_string(mods[Top.mod].path))
          /\ calls' = SubSeq(calls, 1, Len(calls) - 1)
          /\ loaded' = IF Len(calls) = 1 THEN NULL ELSE Top.mod
          /\ UNCHANGED <<mods, fate>>
  /\ UNCHANGED <<project, arguments>>

LoaderNext ==
  run \/ finish \/ execute_define \/ execute_import \/ import_names \/ load_mod_end

LoaderSpec == LoaderInit /\ [][LoaderNext]_loaderVars

----------------------------------------------------------------------------
(* Properties. *)

Kept == Elements(global_mod_cache)

\* The places that the file at a place imports, and those they import, ...
Imports(place) ==
  {Place(place \o <<"..">> \o project[place][i].path) :
     i \in {j \in DOMAIN project[place] : project[place][j].kind = "import"}} \intersect DOMAIN project

Needed(place) ==
  LET f[i \in 0 .. Cardinality(DOMAIN project)] ==
        IF i = 0 THEN Imports(place) ELSE f[i - 1] \union UNION {Imports(q) : q \in f[i - 1]}
  IN  f[Cardinality(DOMAIN project)]

Cyclic(place) == place \in Needed(place)
\* .. that leads above the root stays in a path, which then is another text for
\* the same file.
AboveRoot(m) == ".." \in Elements(mods[m].path.segment_stack)

\* The paths in messages lead from the working directory to the file.
RelativeLeads ==
  \A m \in DOMAIN mods :
    LET cwd == path_new(Cwd)
    IN  path_join(cwd, path_string(path_relative(cwd, mods[m].path))) = mods[m].path

\* Names are taken from modules that have all of theirs: no module is kept
\* while it is being loaded, and the one that is being loaded is never there
\* when it is to be kept.
KeptWhenLoaded ==
  /\ fate # "kept twice"
  /\ \A i \in DOMAIN calls : calls[i].mod \notin Kept
  /\ loaded # NULL => loaded \in Kept

\* An imported name means what it means in the module that it was taken from,
\* through any number of imports, for as long as the two modules are there.
SameValue ==
  \A m \in Kept :
    \A i \in DOMAIN Code(m) :
      LET s == Code(m)[i]
      IN  s.kind = "import" =>
            LET from == global_mod_cache[path_string(ImportPath(m, s.path))]
            IN  \A j \in DOMAIN s.names : mod_find(m, s.names[j]) = mod_find(from, s.names[j])

\* A file is loaded once, however its imports spell its path: modules that
\* import it from several sides get the same nodes and rules.  It is loaded
\* again only if it imports itself, or by a path that leads above the root.
LoadedOnce ==
  /\ KeptWhenLoaded /\ SameValue
  /\ \A m, n \in DOMAIN mods :
       PlaceOf(m) = PlaceOf(n) /\ m # n =>
         Cyclic(PlaceOf(m)) \/ AboveRoot(m) \/ AboveRoot(n)

\* The file that is loaded is the one that the import or the argument means,
\* although .. is taken from the text of the path and not by the system; and
\* an import finds no file only if there is none.
PlaceMeant ==
  /\ RelativeLeads
  /\ \A m \in DOMAIN mods : PlaceOf(m) = mods[m].place
  /\ fate = "missing" /\ calls # <<>> => MeantPlace \notin DOMAIN project

\* Loading goes on forever, here until the C stack is full, only when files
\* import each other in a circle, and then it never comes to an end.
OverflowExact ==
  /\ fate = "overflow" => \E i \in DOMAIN calls : Cyclic(PlaceOf(calls[i].mod))
  /\ \A m \in Kept : ~Cyclic(PlaceOf(m))
=============================================================================
