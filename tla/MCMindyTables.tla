--------------------------- MODULE MCMindyTables ---------------------------
(* Instances of MindyTables for TLC: a symbol that hashes to 13 beside the *)
(* keys that are hashed by address.  The objects are alike.                *)
EXTENDS MindyTables
CONSTANT s
MCSymmetry == Permutations(Pointers) \cup Permutations(Elts)
MCFixedHash == s :> 13
=============================================================================
