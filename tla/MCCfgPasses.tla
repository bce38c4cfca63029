---------------------------- MODULE MCCfgPasses -----------------------------
(***************************************************************************)
(* Programs of every shape the passes treat apart: a branch, two of them,  *)
(* a loop, a loop with a conditional part, with `continue`, with `break`,  *)
(* a loop in a loop, code after a branch that never returns (its block,    *)
(* which nothing reaches, leads to the merge), a `for`, with a condition   *)
(* on its target and without, a `for` in a `while`, and a match, alone, in *)
(* a loop, and of arms that set the variable a condition reads.            *)
(***************************************************************************)
EXTENDS CfgPasses

XY == {"x", "y"}
Body == {<<>>, <<Lit("x")>>, <<Lit("y")>>, <<Copy("y", "x")>>, <<Pure("x", "y")>>,
         <<Call>>, <<Expr("x")>>, <<Expr("y"), Pure("x", "y")>>,
         <<Lit("y"), Pure("x", "y")>>, <<Pure("y", "y")>>, <<Copy("y", "x"), Lit("x")>>}

S == Straight
C == "compare"
Shapes == {<<S, If(C, <<S>>, <<>>), S>>,
           <<S, If(C, <<S>>, <<S>>)>>,
           <<If(C, <<S>>, <<S>>), S>>,
           <<S, If("x", <<S>>, <<>>), S>>,
           <<If(C, <<S>>, <<>>), S, If("literal", <<>>, <<>>), S>>,
           <<S, While(C, <<S>>), S>>,
           <<S, While(C, <<S>>), While("y", <<S>>)>>,
           <<S, If(C, <<While(C, <<S>>)>>, <<>>), S>>,
           <<While(C, <<If(C, <<S>>, <<S>>), S>>)>>,
           <<S, While("x", <<S, If(C, <<S>>, <<>>)>>)>>,
           <<S, While(C, <<If(C, <<S, Continue>>, <<>>), S>>)>>,
           <<S, While(C, <<If(C, <<Break>>, <<>>), S>>), S>>,
           <<S, While(C, <<S, While("x", <<S>>)>>)>>,
           <<If(C, <<If(C, <<Ret>>, <<Ret>>)>>, <<S>>), S>>,
           <<S, For("x", <<S>>), S>>,
           <<S, For("x", <<S, If("x", <<>>, <<>>), S>>)>>,
           <<For("x", <<S, If("literal", <<>>, <<>>), S>>)>>,
           <<S, While(C, <<S, For("x", <<S>>)>>)>>,
           <<S, For("x", <<S, While(C, <<S>>)>>)>>,
           <<S, For("y", <<>>), While(C, <<S>>)>>,
           <<S, Match(Nothing), S>>,
           <<S, Match("y"), S>>,
           <<Match("x"), S, If("x", <<>>, <<>>), S>>,
           <<S, While(C, <<Match(Nothing), S>>)>>}
=============================================================================
