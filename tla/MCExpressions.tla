---------------------------- MODULE MCExpressions ----------------------------
(***************************************************************************)
(* Instances of Expressions: every type of up to four factors in a typedef *)
(* and a few of each kind in the program.                                  *)
(***************************************************************************)
EXTENDS Expressions, TLC

CONSTANTS a, b, alias

WrittenTypes == {node \in TypeNode(4) : node.refs = 0}

Written(r, s, f, k) == [refs |-> r, sign |-> s, factors |-> f, kind |-> k]
ProgramTypes ==
  {Written(0, NoSign, <<>>, "int"),
   Written(0, NoSign, <<>>, "float"),
   Written(0, "unsigned", <<"half">>, "int"),
   Written(0, NoSign, <<>>, alias),
   Written(1, NoSign, <<>>, alias)}

MiddleScales == {-1, 1}
Variables == Permutations(Var)
=============================================================================
