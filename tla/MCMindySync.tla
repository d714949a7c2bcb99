----------------------------- MODULE MCMindySync ----------------------------
(* Instances of MindySync for TLC. *)
EXTENDS MindySync
MCThreeThreads == 0..2
MCAvailable(o) == <<"available", o>>
MCEvents == {<<"available", Semaphore>>, <<"available", Multilock>>, UserEvent}
=============================================================================
