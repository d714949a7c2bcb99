-------------------------- MODULE MCMindyCollector --------------------------
(* Instances of MindyCollector for TLC: the roots are alike.               *)
EXTENDS MindyCollector, TLC
MCSymmetry == Permutations(Roots)
=============================================================================
