------------------------------ MODULE MCOptions ------------------------------
(***************************************************************************)
(* Instances of Options: the commands, a file, which has the name of an    *)
(* option, without and with a value, and options with and without values.  *)
(***************************************************************************)
EXTENDS Options

Word(n)      == [is_opt |-> FALSE, name |-> n, value |-> NoValue]
Option(n, v) == [is_opt |-> TRUE, name |-> n, value |-> v]

Arguments ==
  {Word(n) : n \in {"compile", "build", "all", "release", "main.gsc", "output"}} \cup
  {[Word("output") EXCEPT !.value = <<"y">>],
   Option("output", <<"x">>), Option("output", NoValue), Option("mode", <<"lib">>),
   Option("mode", <<"exe">>), Option("help", NoValue),
   Option("link-paths", <<"lib">>), Option("link-paths", <<"lib", "ext">>),
   Option("import-paths", <<"src">>), Option("import-paths", <<"src", "">>),
   Option("import-paths", <<"">>)}
=============================================================================
