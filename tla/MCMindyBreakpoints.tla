------------------------- MODULE MCMindyBreakpoints -------------------------
(* Instances of MindyBreakpoints for TLC: two components, one with a call  *)
(* and a loop.  The threads are alike.                                     *)
EXTENDS MindyBreakpoints, TLC
CONSTANTS c1, c2
MCComponents == {c1, c2}
MCOriginal == (c1 :> <<"call", "branch", "return">>) @@ (c2 :> <<"return">>)
MCSymmetry == Permutations(Threads)
=============================================================================
