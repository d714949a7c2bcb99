------------------------------ MODULE MindySync -----------------------------
(***************************************************************************)
(* The locks of the Dylan library: <semaphore> (semaphore.dylan) and       *)
(* <multilock> (multilock.dylan).  Both are monitors written in Dylan on a *)
(* spinlock and an event of thread.c; the thread that runs them can be     *)
(* preempted between any two of their steps.                               *)
(*                                                                         *)
(* There is one semaphore and one multilock.  An object and the spinlock   *)
(* in its slot "lock" go by the same name.                                 *)
(***************************************************************************)
EXTENDS MindyThreads

CONSTANTS
  Semaphore, Multilock,   \* the two objects, and their spinlocks
  Available(_),           \* the event in the slot "available" of each
  UserEvent,              \* an event a program waits for with the semaphore
  MaxDepth                \* bound on how often the multilock is grabbed

ASSUME SyncAssumption ==
  /\ Locks = {Semaphore, Multilock} /\ Semaphore # Multilock
  /\ Events = {Available(Semaphore), Available(Multilock), UserEvent}
  /\ MaxDepth \in Nat \ {0}
  /\ IsFiniteSet(Threads)

VARIABLES
  lockedQ,   \* slot "locked?" of the semaphore
  locker,    \* slot "locker" of the multilock
  count,     \* slot "count" of the multilock
  step,      \* what each thread is doing, and how far it is
  taker,     \* who set "locked?" last: not in the code
  deserted   \* who has left the monitor of the multilock with its spinlock,
             \* by an error: not in the code

objectVars == <<lockedQ, locker, count, taker, deserted>>
syncVars == <<vm, pause, objectVars, step>>

Idle == [op |-> "none", on |-> NoObj, at |-> "done"]

At(t, op, place) == step[t].op = op /\ step[t].at = place
Moves(t, place) == step' = [step EXCEPT ![t].at = place]
Finishes(t) == step' = [step EXCEPT ![t] = Idle]

Takes(o) == IF o = Semaphore THEN lockedQ ELSE locker # NoThread

-----------------------------------------------------------------------------
(* Calling an operation. *)
Begin(t, op, o) ==
  /\ Executes(t) /\ step[t] = Idle
  /\ step' = [step EXCEPT ![t] = [op |-> op, on |-> o, at |-> "enter"]]
  /\ UNCHANGED <<vm, pause, objectVars>>

(* A thread does not grab a semaphore it has; a multilock it may.          *)
CallGrab(t) ==
  \/ taker # t /\ Begin(t, "grab", Semaphore)
  \/ (locker = t => count < MaxDepth) /\ Begin(t, "grab", Multilock)

(* Also by a thread that does not hold the lock. *)
CallRelease(t) == \E o \in Locks : Begin(t, "release", o)

CallWait(t) == Begin(t, "wait", Semaphore)

CallSignal(t) == step[t] = Idle /\ SignalEvent(t, UserEvent) /\ UNCHANGED <<objectVars, step>>

(* grab-lock of the spinlock, where every operation starts. *)
Enter(t) ==
  /\ step[t].at = "enter"
  /\ GrabLock(t, step[t].on)
  /\ Moves(t, IF step[t].op = "grab" THEN "test" ELSE "check")
  /\ UNCHANGED objectVars

Leave(t) ==
  /\ step[t].at = "leave"
  /\ ReleaseLock(t, step[t].on)
  /\ Finishes(t)
  /\ UNCHANGED objectVars

-----------------------------------------------------------------------------
(* grab-lock. *)

(* Mutant: a thread that was woken takes the lock without a second look. *)
SleepOnce(t) ==
  /\ At(t, "grab", "sleep")
  /\ WaitForEvent(t, Available(step[t].on), step[t].on)
  /\ Moves(t, "take")
  /\ UNCHANGED objectVars

Test(t) ==
  /\ At(t, "grab", "test") /\ Executes(t)
  /\ Moves(t, IF step[t].on = Multilock /\ locker = t THEN "again"
              ELSE IF Takes(step[t].on) THEN "sleep" ELSE "take")
  /\ UNCHANGED <<vm, pause, objectVars>>

Sleep(t) ==
  /\ At(t, "grab", "sleep")
  /\ WaitForEvent(t, Available(step[t].on), step[t].on)
  /\ Moves(t, "enter")
  /\ UNCHANGED objectVars

Take(t) ==
  /\ At(t, "grab", "take") /\ Executes(t)
  /\ IF step[t].on = Semaphore
       THEN lockedQ' = TRUE /\ taker' = t /\ UNCHANGED <<locker, count>>
       ELSE locker' = t /\ count' = 1 /\ UNCHANGED <<lockedQ, taker>>
  /\ Moves(t, "leave")
  /\ UNCHANGED <<vm, pause, deserted>>

Again(t) ==
  /\ At(t, "grab", "again") /\ Executes(t)
  /\ count' = count + 1
  /\ Moves(t, "leave")
  /\ UNCHANGED <<vm, pause, lockedQ, locker, taker, deserted>>

-----------------------------------------------------------------------------
(* release-lock, and wait-for-event of the semaphore. *)

(* Mutant: the spinlock is not released before the error. *)
CheckKeeps(t) ==
  /\ step[t].at = "check" /\ Executes(t)
  /\ IF Takes(step[t].on) THEN Moves(t, "clear") ELSE Finishes(t)
  /\ UNCHANGED <<vm, pause, objectVars>>

(* Whether t may release o.  If not, the spinlock is released before the   *)
(* error, but for a multilock that nobody holds.                           *)
Check(t) ==
  /\ step[t].at = "check" /\ Executes(t)
  /\ IF step[t].on = Multilock /\ locker = NoThread
       THEN deserted' = t /\ Finishes(t)
       ELSE /\ Moves(t, IF step[t].on = Semaphore
                          THEN IF lockedQ THEN "clear" ELSE "leave"
                          ELSE IF locker = t THEN "clear" ELSE "leave")
            /\ UNCHANGED deserted
  /\ UNCHANGED <<vm, pause, lockedQ, locker, count, taker>>

Clear(t) ==
  /\ step[t].at = "clear" /\ Executes(t)
  /\ IF step[t].on = Semaphore
       THEN /\ lockedQ' = FALSE /\ taker' = NoThread /\ UNCHANGED <<locker, count>>
            /\ Moves(t, "signal")
       ELSE /\ count' = count - 1
            /\ locker' = IF count = 1 THEN NoThread ELSE locker
            /\ Moves(t, IF count = 1 THEN "signal" ELSE "leave")
            /\ UNCHANGED <<lockedQ, taker>>
  /\ UNCHANGED <<vm, pause, deserted>>

(* Mutant: nobody is told that the lock is free. *)
SignalNobody(t) ==
  /\ step[t].at = "signal" /\ Executes(t)
  /\ Moves(t, IF step[t].op = "wait" THEN "wait_event" ELSE "leave")
  /\ UNCHANGED <<vm, pause, objectVars>>

Signal(t) ==
  /\ step[t].at = "signal"
  /\ SignalEvent(t, Available(step[t].on))
  /\ Moves(t, IF step[t].op = "wait" THEN "wait_event" ELSE "leave")
  /\ UNCHANGED objectVars

WaitUser(t) ==
  /\ At(t, "wait", "wait_event")
  /\ WaitForEvent(t, UserEvent, Semaphore)
  /\ Finishes(t)
  /\ UNCHANGED objectVars

-----------------------------------------------------------------------------
(* The ring of all threads: they have been made and restarted in the order *)
(* of their ids.                                                           *)
Rings ==
  {ring \in [1..Cardinality(Threads) -> Threads] :
     /\ Range(ring) = Threads
     /\ \A i, j \in DOMAIN ring : i < j => ring[i] < ring[j]}

SyncInit ==
  /\ \E ring \in Rings :
       vm = [EmptyVM EXCEPT !.status = [t \in Threads |-> "Running"], !.runnable = ring]
  /\ pause = "NoReason"
  /\ lockedQ = FALSE /\ taker = NoThread
  /\ locker = NoThread /\ count = 0 /\ deserted = NoThread
  /\ step = [t \in Threads |-> Idle]

Continues(t) ==
  \/ Enter(t) \/ Leave(t) \/ Test(t) \/ Sleep(t) \/ Take(t) \/ Again(t)
  \/ Check(t) \/ Clear(t) \/ Signal(t) \/ WaitUser(t)

SwitchThread == PickNext /\ UNCHANGED <<objectVars, step>>

SyncNext ==
  \/ \E t \in Threads :
       CallGrab(t) \/ CallRelease(t) \/ CallWait(t) \/ CallSignal(t) \/ Continues(t)
  \/ SwitchThread

(* Slices end, and a thread that is picked again and again gets on with    *)
(* the operation it is in: a slice executes up to a hundred operations     *)
(* before the next thread is picked.                                       *)
SyncSpec ==
  /\ SyncInit /\ [][SyncNext]_syncVars
  /\ WF_syncVars(SwitchThread)
  /\ \A t \in Threads : SF_syncVars(Continues(t))

-----------------------------------------------------------------------------
(***************************************************************************)
(* Properties.                                                             *)
(***************************************************************************)

(* The threads inside grab-lock of o that do not have it yet. *)
CallersOf(o) ==
  {t \in Threads : step[t].op = "grab" /\ step[t].on = o /\ step[t].at # "leave"}

(* The semaphore keeps the promise of a lock: grab-lock returns to one     *)
(* thread at a time, and no wakeup is lost between the test of locked?,    *)
(* the wait for available, and the signal.                                 *)
S == INSTANCE LockPromise WITH
       Callers <- Threads, Nobody <- NoThread, Reentrant <- FALSE,
       holder <- taker, depth <- IF lockedQ THEN 1 ELSE 0,
       calling <- CallersOf(Semaphore)

SemaphoreKeepsPromise == S!LockSpec

(* The multilock keeps it too, and lets its holder grab it again: who is   *)
(* let in is right with any calls of release-lock, and nobody waits for a  *)
(* lock that stays free unless a thread has deserted its monitor           *)
(* (multilock.dylan:82).                                                   *)
M == INSTANCE LockPromise WITH
       Callers <- Threads, Nobody <- NoThread, Reentrant <- TRUE,
       holder <- locker, depth <- count,
       calling <- CallersOf(Multilock)

MultilockKeepsPromise ==
  M!LockSafety /\ (<>(deserted # NoThread) \/ M!LockProgress)

(* Nobody stays inside the monitor: when a spinlock is locked, the thread  *)
(* it was granted to is in one of the steps that lead to its release, or   *)
(* it is the one that released a multilock while nobody held it, which     *)
(* nobody holds ever after (multilock.dylan:82).                           *)
SpinlockHeldInside ==
  \A o \in Locks : \A t \in vm.owners[o] :
    \/ step[t].on = o /\ step[t].at # "enter"
    \/ o = Multilock /\ deserted = t /\ locker = NoThread
=============================================================================
