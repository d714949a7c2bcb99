--------------------------- MODULE MCMindyThreads ---------------------------
(* Instances of MindyThreads small enough for TLC. *)
EXTENDS MindyThreads

MCThreads == 0..2
=============================================================================
