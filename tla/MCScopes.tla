------------------------------ MODULE MCScopes ------------------------------
(***************************************************************************)
(* One variable, and one function that has the name of a special builtin,  *)
(* through three levels: a function called by a function, eval in a        *)
(* function and a function in eval.  Two parameters are allowed, and two   *)
(* or three are given.                                                     *)
(***************************************************************************)
EXTENDS Scopes

Assign(n, v) == [name |-> n, val |-> v]
MCAssignments == {<<>>, <<Assign("x", "a")>>}
MCArguments == {<<"a", "b">>, <<"a", "b", "c">>}
=============================================================================
