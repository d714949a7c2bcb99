---------------------------- MODULE MCMindyDriver ---------------------------
(* Instances of MindyDriver for TLC: a few threads and descriptors. *)
EXTENDS MindyDriver
MCThreads == 0..1
MCThreeThreads == 0..2
MCEvents == {<<0, "read">>, <<1, "write">>}
MCNumberOf(e) == e[1]
MCReadEvents == {e \in MCEvents : e[2] = "read"}
=============================================================================
