------------------------------- MODULE Queues -------------------------------
(***************************************************************************)
(* The lists a thread can be on, as sequences without repetition: the two  *)
(* operators on them that the VM's C code needs and that keep the order of *)
(* the other members.                                                      *)
(***************************************************************************)
EXTENDS Integers, Sequences, Functions, SequencesExt

(* The queue q once its member t is unlinked from it. *)
Without(q, t) == RemoveFirst(q, t)

(* The members of q that are in K, in queue order.  A recursive function   *)
(* rather than SelectSeq, so that what it returns can be proved.           *)
SubQueue(q, K) ==
  LET upTo[i \in 0..Len(q)] ==
        IF i = 0 THEN <<>>
        ELSE IF q[i] \in K THEN Append(upTo[i - 1], q[i])
        ELSE upTo[i - 1]
  IN upTo[Len(q)]

(* No thread is on a list twice: the links are in the thread itself. *)
IsQueue(q) == IsInjective(q)
=============================================================================
