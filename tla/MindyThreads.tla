---------------------------- MODULE MindyThreads ----------------------------
(***************************************************************************)
(* The green threads of the Mindy virtual machine: thread.c, with the part *)
(* of the driver loop that picks a thread, and the debugger commands that  *)
(* do nothing but call thread.c (kill, disable, enable, continue).         *)
(*                                                                         *)
(* The VM runs one thread at a time and switches only between two          *)
(* operations, so every C function of thread.c is one atomic change of the *)
(* thread tables.  Each is an operator from the tables before to the       *)
(* tables after; the actions apply them where the VM calls them.  Other    *)
(* modules compose the same operators.                                     *)
(***************************************************************************)
EXTENDS Queues

CONSTANTS
  Threads,      \* the thread ids the VM will ever hand out (NextId)
  Locks,        \* the <spinlock> objects
  Events,       \* the <event> objects
  NoThread,     \* a NULL thread pointer
  NoObj,        \* obj_False
  OwnersOnly,   \* TRUE: programs release only a lock they were granted
  MaxSuspend    \* bound on how often the user disables one thread

ASSUME ThreadsAssumption == Threads \subseteq Nat /\ NoThread \notin Threads
ASSUME ObjectsAssumption ==
  Locks \cap Events = {} /\ NoObj \notin Locks /\ NoObj \notin Events
ASSUME BoundsAssumption == OwnersOnly \in BOOLEAN /\ MaxSuspend \in Nat

VARIABLES
  vm,      \* the thread tables, a record (see VMStates)
  pause    \* PauseReason: why the driver loop last stopped

vars == <<vm, pause>>

-----------------------------------------------------------------------------
(***************************************************************************)
(* The thread tables.  The intrusive lists of the C code are sequences:    *)
(* runnable is the ring of runnable threads read from Runnable, waiting[o] *)
(* the queue of lock or event o read from its head.  owners is not in the  *)
(* code: it remembers which threads were granted a lock and have not       *)
(* released it, which thread.c does not record.                            *)
(***************************************************************************)
Queues == Locks \cup Events

LiveStatuses == {"Running", "Suspended", "Debuggered", "Blocked", "Waiting"}
Statuses == LiveStatuses \cup {"Unmade", "Exited", "Killed"}

VMStates ==
  [status       : [Threads -> Statuses],
   suspendCount : [Threads -> Nat],
   datum        : [Threads -> Queues \cup {NoObj}],
   runnable     : Seq(Threads),
   current      : Threads \cup {NoThread},
   locked       : [Locks -> BOOLEAN],
   waiting      : [Queues -> Seq(Threads)],
   owners       : [Locks -> SUBSET Threads],
   fault        : {"none", "hang", "crash"}]

PauseReasons == {"NoReason", "PickNewThread", "Interrupted",
                 "DebuggerInvoked", "DebuggerCommandFinished", "NothingToRun"}

Live(s) == {t \in Threads : s.status[t] \in LiveStatuses}

(* Nothing exists before the main thread is made. *)
EmptyVM ==
  [status       |-> [t \in Threads |-> "Unmade"],
   suspendCount |-> [t \in Threads |-> 0],
   datum        |-> [t \in Threads |-> NoObj],
   runnable     |-> <<>>,
   current      |-> NoThread,
   locked       |-> [l \in Locks |-> FALSE],
   waiting      |-> [o \in Queues |-> <<>>],
   owners       |-> [l \in Locks |-> {}],
   fault        |-> "none"]

-----------------------------------------------------------------------------
(* The run ring. *)

(* Mutant: a thread that has been stopped is woken all the same. *)
WakeupThreadAlways(s, t) ==
  [s EXCEPT !.runnable = Append(@, t), !.status[t] = "Running"]

(* A thread whose list links are NULL cannot be unlinked: the C code       *)
(* dereferences them.                                                      *)
SuspendThread(s, t) ==
  IF t \in Range(s.runnable)
    THEN [s EXCEPT !.runnable = Without(@, t)]
    ELSE [s EXCEPT !.fault = "crash"]

(* Mutant: Runnable is not moved past the thread picked. *)
PickThreadAgain(s) ==
  [s EXCEPT !.current = IF s.runnable = <<>> THEN NoThread
                        ELSE Head(s.runnable)]

WakeupThread(s, t) ==
  LET free == s.suspendCount[t] = 0
  IN [s EXCEPT !.runnable = IF free THEN Append(@, t) ELSE @,
               !.status[t] = IF free THEN "Running" ELSE "Suspended"]

PickThread(s) ==
  IF s.runnable = <<>>
    THEN [s EXCEPT !.current = NoThread]
    ELSE [s EXCEPT !.current = Head(s.runnable),
                   !.runnable = Append(Tail(s.runnable), Head(s.runnable))]

(* NextId only grows: the next thread made is the least id never used.     *)
IsNextId(s, t) ==
  /\ s.status[t] = "Unmade"
  /\ \A u \in Threads : s.status[u] = "Unmade" => t <= u

(* Mutant: the count goes the wrong way. *)
ThreadStopCountsDown(s, t) ==
  [s EXCEPT !.suspendCount[t] = @ - 1]

ThreadMake(s, t) ==
  [s EXCEPT !.status[t] = "Suspended", !.suspendCount[t] = 1]

ThreadStop(s, t) ==
  LET stopped ==
        IF s.suspendCount[t] = 0 /\ s.status[t] = "Running"
          THEN [SuspendThread(s, t) EXCEPT !.status[t] = "Suspended"]
          ELSE s
  IN [stopped EXCEPT !.suspendCount[t] = @ + 1]

ThreadRestart(s, t) ==
  LET left == s.suspendCount[t] - 1
      counted == [s EXCEPT !.suspendCount[t] = left]
  IN IF left < 0 THEN s
     ELSE IF left = 0 /\ s.status[t] = "Suspended"
       THEN WakeupThread(counted, t)
     ELSE counted

ThreadDebuggered(s, t) ==
  [SuspendThread(s, t) EXCEPT !.status[t] = "Debuggered", !.datum[t] = NoObj]

(* Mutant: the thread goes to the head of the queue, not to its end. *)
EnqueueFirst(s, t, o, status) ==
  [SuspendThread(s, t) EXCEPT !.waiting[o] = <<t>> \o @,
                              !.status[t] = status,
                              !.datum[t] = o]

-----------------------------------------------------------------------------
(* Locks and events. *)

Enqueue(s, t, o, status) ==
  [SuspendThread(s, t) EXCEPT !.waiting[o] = Append(@, t),
                              !.status[t] = status,
                              !.datum[t] = o]

(* Mutant: the lock is taken without a look at whether it is locked. *)
LockGrabAnyway(s, t, l) ==
  [s EXCEPT !.locked[l] = TRUE, !.owners[l] = @ \cup {t}]

LockGrab(s, t, l) ==
  IF s.locked[l]
    THEN Enqueue(s, t, l, "Blocked")
    ELSE [s EXCEPT !.locked[l] = TRUE, !.owners[l] = @ \cup {t}]

(* Waking the longest waiter of o. *)
WakeFirst(s, o) ==
  LET t == Head(s.waiting[o])
  IN [WakeupThread([s EXCEPT !.waiting[o] = Tail(@)], t)
        EXCEPT !.datum[t] = NoObj]

(* Mutant: the first waiter is woken but the lock is unlocked all the same. *)
LockReleaseUnlocks(s, t, l) ==
  IF s.waiting[l] # <<>>
    THEN [WakeFirst(s, l) EXCEPT
            !.locked[l] = FALSE,
            !.owners[l] = (@ \ {t}) \cup {Head(s.waiting[l])}]
    ELSE [s EXCEPT !.locked[l] = FALSE, !.owners[l] = @ \ {t}]

(* With a waiter the lock stays locked and passes to it; t is the thread   *)
(* that releases.                                                          *)
LockRelease(s, t, l) ==
  IF s.waiting[l] # <<>>
    THEN [WakeFirst(s, l) EXCEPT
            !.owners[l] = (@ \ {t}) \cup {Head(s.waiting[l])}]
    ELSE [s EXCEPT !.locked[l] = FALSE, !.owners[l] = @ \ {t}]

EventWait(s, t, e, l) ==
  LET queued == Enqueue(s, t, e, "Waiting")
  IN IF l = NoObj THEN queued ELSE LockRelease(queued, t, l)

EventSignal(s, e) ==
  IF s.waiting[e] # <<>> THEN WakeFirst(s, e) ELSE s

(* Every waiter is woken in queue order; the suspended ones only change    *)
(* status.                                                                 *)
EventBroadcast(s, e) ==
  LET woken == Range(s.waiting[e])
  IN [s EXCEPT
        !.runnable = @ \o SubQueue(s.waiting[e],
                                   {t \in Threads : s.suspendCount[t] = 0}),
        !.status = [t \in Threads |->
                      IF t \notin woken THEN @[t]
                      ELSE IF s.suspendCount[t] = 0 THEN "Running"
                      ELSE "Suspended"],
        !.datum = [t \in Threads |-> IF t \in woken THEN NoObj ELSE @[t]],
        !.waiting[e] = <<>>]

(* The search loops of remove_from_lock and remove_from_event test the     *)
(* head of the queue again and again (prev is never advanced): they end    *)
(* only when the thread is the head, or the queue is empty.                *)
RemoveFromQueue(s, t) ==
  LET o == s.datum[t]
  IN CASE o = NoObj \/ s.waiting[o] = <<>> -> [s EXCEPT !.fault = "crash"]
       [] Head(s.waiting[o]) # t -> [s EXCEPT !.fault = "hang"]
       [] OTHER ->
            [s EXCEPT !.waiting[o] = Tail(@),
                      !.datum[t] = IF o \in Events THEN NoObj ELSE @]

-----------------------------------------------------------------------------
(* Mutant: a thread that waits for an event is left on the event's queue. *)
UnlinkNotWaiting(s, t) ==
  CASE s.status[t] = "Running" -> SuspendThread(s, t)
    [] s.status[t] = "Blocked" -> RemoveFromQueue(s, t)
    [] OTHER -> s

(* Taking a thread off whatever list its status says it is on. *)
Unlink(s, t) ==
  CASE s.status[t] = "Running" -> SuspendThread(s, t)
    [] s.status[t] \in {"Blocked", "Waiting"} -> RemoveFromQueue(s, t)
    [] OTHER -> s

ThreadKill(s, t) ==
  LET unlinked == Unlink(s, t)
  IN IF unlinked.fault # "none" THEN unlinked
     ELSE [unlinked EXCEPT !.status[t] = "Killed",
                           !.current = IF @ = t THEN NoThread ELSE @]

-----------------------------------------------------------------------------
(***************************************************************************)
(* The Dylan program.  The current thread performs the operation; it is    *)
(* the current thread only until it pauses.                                *)
(***************************************************************************)
Executes(t) == vm.current = t /\ pause = "NoReason" /\ vm.fault = "none"

(* spawn-thread makes a suspended thread and restarts it. *)
Spawn(t) ==
  /\ Executes(t)
  /\ \E u \in Threads :
       /\ IsNextId(vm, u)
       /\ vm' = ThreadRestart(ThreadMake(vm, u), u)
  /\ UNCHANGED pause

(* Mutant: the slice goes on although the thread is blocked. *)
GrabLockGoesOn(t, l) ==
  /\ Executes(t)
  /\ vm' = LockGrab(vm, t, l)
  /\ UNCHANGED pause

GrabLock(t, l) ==
  /\ Executes(t)
  /\ vm' = LockGrab(vm, t, l)
  /\ pause' = IF vm.locked[l] THEN "PickNewThread" ELSE pause

(* What a program may release: the VM checks only that the lock is locked. *)
MayRelease(t, l) == vm.locked[l] /\ (OwnersOnly => t \in vm.owners[l])

ReleaseLock(t, l) ==
  /\ Executes(t)
  /\ MayRelease(t, l)
  /\ vm' = LockRelease(vm, t, l)
  /\ UNCHANGED pause

(* wait-for-event without a lock, or with one that is released once the    *)
(* thread is on the event's queue; it is not grabbed again on return.      *)
WaitForEvent(t, e, l) ==
  /\ Executes(t)
  /\ l # NoObj => MayRelease(t, l)
  /\ vm' = EventWait(vm, t, e, l)
  /\ pause' = "PickNewThread"

SignalEvent(t, e) ==
  /\ Executes(t)
  /\ vm' = EventSignal(vm, e)
  /\ UNCHANGED pause

BroadcastEvent(t, e) ==
  /\ Executes(t)
  /\ vm' = EventBroadcast(vm, e)
  /\ UNCHANGED pause

(* kill-thread does not look whether the thread still exists: for one that *)
(* does not, the thread pointer is NULL.                                   *)
KillThread(t, u) ==
  /\ Executes(t)
  /\ vm.status[u] # "Unmade"
  /\ vm' = IF u \in Live(vm) THEN ThreadKill(vm, u)
           ELSE [vm EXCEPT !.fault = "crash"]
  /\ pause' = IF u = t THEN "PickNewThread" ELSE pause

(* The thread's function returns: stop_thread. *)
ExitThread(t) ==
  /\ Executes(t)
  /\ vm' = [ThreadKill(vm, t) EXCEPT !.status[t] = "Exited"]
  /\ pause' = "PickNewThread"

(* An unhandled condition.  The debugger prompt has no current thread.     *)
InvokeDebugger(t) ==
  /\ Executes(t)
  /\ vm' = [ThreadDebuggered(vm, t) EXCEPT !.current = NoThread]
  /\ pause' = "DebuggerInvoked"

ProgramStep(t) ==
  \/ Spawn(t)
  \/ \E l \in Locks : GrabLock(t, l) \/ ReleaseLock(t, l)
  \/ \E e \in Events, l \in Locks \cup {NoObj} : WaitForEvent(t, e, l)
  \/ \E e \in Events : SignalEvent(t, e) \/ BroadcastEvent(t, e)
  \/ \E u \in Threads : KillThread(t, u)
  \/ ExitThread(t)
  \/ InvokeDebugger(t)

-----------------------------------------------------------------------------
(***************************************************************************)
(* The driver loop.  A time slice may end after any operation, and must    *)
(* end when the current thread pauses; then the head of the ring is next.  *)
(***************************************************************************)
PickNext ==
  /\ pause \in {"NoReason", "PickNewThread"} /\ vm.fault = "none"
  /\ vm' = PickThread(vm)
  /\ pause' = IF vm.runnable = <<>> /\ Live(vm) = {} THEN "NothingToRun"
              ELSE "NoReason"

(* Control-C, noticed by the driver at the end of the slice. *)
Interrupt ==
  /\ pause = "NoReason" /\ vm.fault = "none"
  /\ vm' = [vm EXCEPT !.current = NoThread]
  /\ pause' = "Interrupted"

-----------------------------------------------------------------------------
(* The user at the debugger prompt. *)
AtPrompt == pause \notin {"NoReason", "PickNewThread"}

AtCommand(t) == AtPrompt /\ vm.fault = "none" /\ t \in Live(vm)

KillCommand(t) ==
  /\ AtCommand(t)
  /\ vm' = ThreadKill(vm, t)
  /\ UNCHANGED pause

DisableCommand(t) ==
  /\ AtCommand(t)
  /\ vm.suspendCount[t] < MaxSuspend
  /\ vm' = ThreadStop(vm, t)
  /\ UNCHANGED pause

(* enable restarts the thread until its suspend count is zero. *)
EnableCommand(t) ==
  /\ AtCommand(t)
  /\ vm.suspendCount[t] > 0
  /\ vm' = ThreadRestart([vm EXCEPT !.suspendCount[t] = 1], t)
  /\ UNCHANGED pause

(* continue with no thread selected, or a runnable one. *)
ContinueCommand ==
  /\ AtPrompt /\ vm.fault = "none"
  /\ \E t \in Threads : vm.status[t] \in {"Running", "Waiting"}
  /\ pause' = "PickNewThread"
  /\ UNCHANGED vm

UserCommand(t) == KillCommand(t) \/ DisableCommand(t) \/ EnableCommand(t)

-----------------------------------------------------------------------------
(* The main thread is made and restarted, and the driver loop entered. *)
Init ==
  /\ \E t \in Threads :
       /\ IsNextId(EmptyVM, t)
       /\ vm = ThreadRestart(ThreadMake(EmptyVM, t), t)
  /\ pause = "NoReason"

Next ==
  \/ \E t \in Threads : ProgramStep(t) \/ UserCommand(t)
  \/ PickNext
  \/ Interrupt
  \/ ContinueCommand

Spec == Init /\ [][Next]_vars

(* The 100 operations of a slice end, and the driver loop then goes on. *)
FairSpec == Spec /\ WF_vars(PickNext)

-----------------------------------------------------------------------------
(***************************************************************************)
(* Properties.                                                             *)
(***************************************************************************)

(* The type of the thread tables and of the pause reason. *)
TypeOK == vm \in VMStates /\ pause \in PauseReasons

(* A thread is on the ring exactly when its status is Running.             *)
OnRing(s) ==
  /\ IsQueue(s.runnable)
  /\ \A t \in Threads : t \in Range(s.runnable) <=> s.status[t] = "Running"

(* By its status and its datum, t waits for the lock or event o.           *)
WaitsFor(s, t, o) ==
  /\ s.status[t] = IF o \in Locks THEN "Blocked" ELSE "Waiting"
  /\ s.datum[t] = o

(* A thread is on the queue of a lock or event exactly when it waits there *)
(* by its status and datum, so it is on no other queue.                    *)
OnQueue(s) ==
  \A o \in Queues :
    /\ IsQueue(s.waiting[o])
    /\ \A t \in Threads : t \in Range(s.waiting[o]) <=> WaitsFor(s, t, o)

(* Every thread is on exactly the list its status names, once: the lists   *)
(* share the links next and prev of struct thread, so a thread on two      *)
(* lists, or on the wrong one, corrupts both (suspend_thread,              *)
(* wakeup_thread and the queue code of thread.c).                          *)
EveryThreadInItsPlace == OnRing(vm) /\ OnQueue(vm)

(* A lock somebody waits for is locked: otherwise nobody would ever wake   *)
(* the waiters, since only a release of a locked lock does.                *)
WaitedAreLocked(s) ==
  \A l \in Locks : s.waiting[l] # <<>> => s.locked[l]

WaitedLocksAreLocked == WaitedAreLocked(vm)

(* A lock has at most one owner, and one exactly while it is locked.       *)
OneOwner(s) ==
  \A l \in Locks :
    /\ s.locked[l] <=> s.owners[l] # {}
    /\ \A t, u \in s.owners[l] : t = u

(* When programs release only what they were granted, no two threads ever  *)
(* own the same lock, also across the direct hand-off of lock_release and  *)
(* the release inside event_wait; a killed owner leaves the lock locked.   *)
MutualExclusion == OwnersOnly => OneOwner(vm)

(* The suspend count and the status agree: a stopped thread is off the     *)
(* ring, and a thread whose status is Suspended has a count that restart   *)
(* can bring to zero, which is the only way for it to run again.           *)
CountsAgree(s) ==
  \A t \in Threads :
    /\ s.status[t] = "Running" => s.suspendCount[t] = 0
    /\ s.status[t] = "Suspended" => s.suspendCount[t] > 0

SuspendedIffCounted == CountsAgree(vm)

(* What the driver resumes is a thread that may run: current is on the     *)
(* ring while its slice lasts, and NULL while the debugger prompts, so the *)
(* operations of thread.c that unlink it find it linked.                   *)
CurrentIsRunning ==
  /\ pause = "NoReason" /\ vm.fault = "none" /\ vm.current # NoThread
       => vm.status[vm.current] = "Running"
  /\ AtPrompt => vm.current = NoThread

(* t is ahead of u in the queue q. *)
Ahead(q, t, u) ==
  \E i, j \in DOMAIN q : i < j /\ q[i] = t /\ q[j] = u

(* While t waits for a lock or an event it is overtaken by nobody: a       *)
(* thread behind it, or one that was not waiting at all, does not get      *)
(* ahead of it in the queue, is not taken off the queue before it, and is  *)
(* not granted the lock (no barging into a hand-off).                      *)
NoOvertaking ==
  [][\A o \in Queues : \A t, u \in Threads :
       LET before == vm.waiting[o]  after == vm'.waiting[o]
       IN /\ t \in Range(before) /\ t \in Range(after)
          /\ u # t /\ ~ Ahead(before, u, t)
          => /\ ~ Ahead(after, u, t)
             /\ u \in Range(before) => u \in Range(after)
             /\ o \in Locks => u \notin vm'.owners[o] \ vm.owners[o]]_vars

(* Round robin: a thread on the ring becomes the current thread, unless it *)
(* leaves the ring first or the user takes over at the debugger prompt.    *)
NobodyStarves ==
  \A t \in Threads :
    vm.status[t] = "Running"
      ~> \/ vm.current = t
         \/ vm.status[t] # "Running"
         \/ AtPrompt \/ vm.fault # "none"
=============================================================================
