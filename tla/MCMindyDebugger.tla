--------------------------- MODULE MCMindyDebugger --------------------------
(* An instance of MindyDebugger for TLC: a careful user nests commands     *)
(* deeper than a careless one, who reaches many more states.               *)
EXTENDS MindyDebugger
MCThreads == 0..1
MCMaxFrames == [careful |-> 4, careless |-> 3]
MCMaxCount == [careful |-> 3, careless |-> 1]
=============================================================================
