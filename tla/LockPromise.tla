----------------------------- MODULE LockPromise ----------------------------
(***************************************************************************)
(* What a Dylan <lock> promises its callers: grab-lock returns only when   *)
(* nobody else holds the lock, and a lock that is free goes to one of the  *)
(* threads that have called grab-lock.  Which one is not promised.         *)
(***************************************************************************)
EXTENDS Integers

CONSTANTS
  Callers,    \* the threads
  Nobody,
  Reentrant   \* whether the holder may grab the lock again

VARIABLES
  holder,     \* the thread whose grab-lock returned last, or Nobody
  depth,      \* how often it has to be released
  calling     \* the threads inside grab-lock

lockVars == <<holder, depth, calling>>

Free == holder = Nobody /\ depth = 0 /\ calling = {}

Call(t) ==
  /\ t \notin calling
  /\ calling' = calling \cup {t}
  /\ UNCHANGED <<holder, depth>>

MayHave(t) == holder = Nobody \/ (Reentrant /\ holder = t)

Acquire(t) ==
  /\ t \in calling /\ MayHave(t)
  /\ holder' = t
  /\ depth' = depth + 1
  /\ calling' = calling \ {t}

(* By the holder, or in the case of a semaphore by anybody. *)
Release ==
  /\ holder # Nobody
  /\ depth' = depth - 1
  /\ holder' = IF depth = 1 THEN Nobody ELSE holder
  /\ UNCHANGED calling

LockNext == Release \/ \E t \in Callers : Call(t) \/ Acquire(t)

LockSafety == Free /\ [][LockNext]_lockVars

(* A lock that stays free does not leave its callers waiting. *)
LockProgress == WF_lockVars(\E t \in Callers : Acquire(t))

LockSpec == LockSafety /\ LockProgress
=============================================================================
