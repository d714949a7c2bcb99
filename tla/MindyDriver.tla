----------------------------- MODULE MindyDriver ----------------------------
(***************************************************************************)
(* The driver loop of the Mindy virtual machine, driver.c: time slices,    *)
(* the pause reason, SIGINT, and waiting for file descriptors.             *)
(*                                                                         *)
(* MindyThreads takes a slice and the loop around it as one step.  Here a  *)
(* signal may arrive between any two of the loop's assignments, so the     *)
(* loop is split where a signal can tell the difference.                   *)
(***************************************************************************)
EXTENDS MindyThreads

CONSTANTS
  NumberOf(_),   \* the descriptor that an event of Events stands for
  ReadEvents,    \* the events of Readers; the others are those of Writers
  OpsPerSlice    \* OPS_PER_TIME_SLICE

ASSUME EventsAssumption ==
  /\ ReadEvents \subseteq Events
  /\ \A e \in Events : NumberOf(e) \in Nat
  /\ \A e, f \in Events :
       NumberOf(e) = NumberOf(f) /\ (e \in ReadEvents <=> f \in ReadEvents) => e = f
ASSUME SliceAssumption == OpsPerSlice \in Nat \ {0}

(***************************************************************************)
(* An event stands for one descriptor and one direction: it is the event   *)
(* that Readers or Writers has for it.                                     *)
(***************************************************************************)
VARIABLES
  at,        \* where in do_stuff, or at the prompt, the program is
  timer,     \* the operations left of the slice
  inside,    \* InInterpreter
  handler,   \* SIGINT's handler: "none", "pause" or "blow_off"
  pending,   \* SignalPending[SIGINT]
  doSelect,  \* do_select
  watched,   \* the descriptors in Readers.fds and Writers.fds
  numFds,    \* NumFds
  ready,     \* the descriptors that select would report
  broken,    \* the descriptors that have been closed
  early      \* a SIGINT left do_stuff between InInterpreter and the handler

loopVars == <<at, timer, inside, doSelect>>
signalVars == <<handler, pending, early>>
fdVars == <<watched, numFds>>
worldVars == <<ready, broken>>
driverVars == <<vm, pause, loopVars, signalVars, fdVars, worldVars>>

-----------------------------------------------------------------------------
(* Descriptors. *)

OnePast(es) ==
  IF es = {} THEN 0
  ELSE 1 + CHOOSE n \in {NumberOf(e) : e \in es} : \A e \in es : NumberOf(e) <= n

(* Mutant: one waiter of each descriptor is woken. *)
SignalAll(s, es) ==
  LET Wake(r, here) ==
        IF here = {} THEN r ELSE EventSignal(r, CHOOSE e \in here : TRUE)
      upTo[n \in 0..numFds] ==
        IF n = 0 THEN s
        ELSE LET at_n == {e \in es : NumberOf(e) = n - 1}
             IN Wake(Wake(upTo[n - 1], at_n \cap ReadEvents), at_n \ ReadEvents)
  IN upTo[numFds]

(* Everyone who waits for a descriptor of es is woken, by number, and for  *)
(* each first those who want to read.                                      *)
Tell(s, es) == IF es = {} THEN s ELSE EventBroadcast(s, CHOOSE e \in es : TRUE)

TellAt(s, es, n) ==
  LET here == {e \in es : NumberOf(e) = n}
  IN Tell(Tell(s, here \cap ReadEvents), here \ ReadEvents)

BroadcastAll(s, es) ==
  LET upTo[n \in 0..numFds] == IF n = 0 THEN s ELSE TellAt(upTo[n - 1], es, n - 1)
  IN upTo[numFds]

Watch(left) == watched' = left /\ numFds' = OnePast(left)

(* What select would look at: descriptors below NumFds. *)
Selected == {e \in watched : NumberOf(e) < numFds}

(* What check_fds does once select returns: with a bad descriptor everyone *)
(* is woken to find out, otherwise those whose descriptors are ready.      *)
SelectReturns ==
  LET found == Selected \cap ready
  IN IF Selected \cap broken # {}
       THEN /\ vm' = BroadcastAll(vm, Selected)
            /\ Watch({})
     ELSE IF found # {}
       THEN /\ vm' = BroadcastAll(vm, found)
            /\ Watch(watched \ found)
     ELSE UNCHANGED <<vm, fdVars>>

-----------------------------------------------------------------------------
(***************************************************************************)
(* do_stuff.                                                               *)
(***************************************************************************)
Goes(from, to) == at = from /\ at' = to /\ vm.fault = "none"

(* Mutant: descriptors are looked at only when nothing can run. *)
PollLess ==
  /\ Goes("poll", "pick")
  /\ doSelect' = TRUE
  /\ UNCHANGED <<vm, pause, timer, inside, signalVars, fdVars, worldVars>>

Poll ==
  /\ Goes("poll", "pick")
  /\ IF doSelect THEN SelectReturns ELSE UNCHANGED <<vm, fdVars>>
  /\ doSelect' = TRUE
  /\ UNCHANGED <<pause, timer, inside, signalVars, worldVars>>

Pick ==
  /\ vm' = PickThread(vm)
  /\ \/ /\ vm.runnable # <<>> /\ Goes("pick", "arm")
        /\ pause' = "NoReason" /\ inside' = TRUE /\ timer' = OpsPerSlice
     \/ /\ vm.runnable = <<>> /\ Live(vm) # {} /\ Goes("pick", "arm_idle")
        /\ pause' = "NoReason" /\ UNCHANGED <<inside, timer>>
     \/ /\ Live(vm) = {} /\ Goes("pick", "test")
        /\ pause' = "NothingToRun" /\ UNCHANGED <<inside, timer>>
  /\ UNCHANGED <<doSelect, signalVars, fdVars, worldVars>>

(* Mutant: a signal that arrived earlier is not looked at. *)
ArmForgets ==
  /\ Goes("arm", "setjmp") \/ Goes("arm_idle", "idle")
  /\ handler' = "pause"
  /\ UNCHANGED <<vm, pause, timer, inside, doSelect, pending, early, fdVars, worldVars>>

(* set_interrupt_handler(set_pause_interrupted), which delivers a signal   *)
(* that arrived while there was no handler.                                *)
Arm ==
  /\ Goes("arm", "setjmp") \/ Goes("arm_idle", "idle")
  /\ handler' = "pause"
  /\ pause' = IF pending THEN "Interrupted" ELSE pause
  /\ pending' = FALSE
  /\ UNCHANGED <<vm, timer, inside, doSelect, early, fdVars, worldVars>>

(* Where the slice starts, and where go_on and mindy_pause jump to. *)
Setjmp ==
  /\ Goes("setjmp", IF pause = "NoReason" THEN "slice" ELSE "disarm")
  /\ UNCHANGED <<vm, pause, timer, inside, doSelect, signalVars, fdVars, worldVars>>

(***************************************************************************)
(* One operation of the current thread.  It returns to the loop, which     *)
(* does not look at the pause reason, or jumps back with go_on, or pauses. *)
(***************************************************************************)
Spends == timer > 0 /\ timer' = timer - 1 /\ UNCHANGED <<pause, inside, doSelect>>

Computes ==
  /\ Goes("slice", "slice") \/ Goes("slice", "setjmp")
  /\ Spends
  /\ \/ UNCHANGED vm
     \/ \E u \in Threads :
          /\ IsNextId(vm, u)
          /\ vm' = ThreadRestart(ThreadMake(vm, u), u)
     \/ \E u \in Live(vm) \ {vm.current} : vm' = ThreadKill(vm, u)
  /\ UNCHANGED <<signalVars, fdVars, worldVars>>

(* close, of a descriptor that others may be waiting for. *)
Closes ==
  /\ Goes("slice", "slice") /\ Spends
  /\ \E e \in Events :
       broken' = broken \cup {f \in Events : NumberOf(f) = NumberOf(e)}
  /\ UNCHANGED <<vm, signalVars, fdVars, ready>>

(* wait_for_fd.  Its callers first ask select about the descriptor, and    *)
(* fail instead when it is a bad one; it may have become ready since.      *)
WaitForFd(e) ==
  /\ Goes("slice", "pausing") /\ Spends
  /\ e \notin broken
  /\ watched' = watched \cup {e}
  /\ numFds' = IF numFds <= NumberOf(e) THEN NumberOf(e) + 1 ELSE numFds
  /\ vm' = EventWait(vm, vm.current, e, NoObj)
  /\ UNCHANGED <<signalVars, worldVars>>

(* The other operations that pause: the thread exits, or has an error. *)
Stops ==
  /\ Goes("slice", "pausing") /\ Spends
  /\ vm' \in {[ThreadKill(vm, vm.current) EXCEPT !.status[vm.current] = "Exited"],
              ThreadDebuggered(vm, vm.current)}
  /\ UNCHANGED <<signalVars, fdVars, worldVars>>

(* mindy_pause clears the handler and then sets the reason. *)
Pausing ==
  /\ Goes("pausing", "paused")
  /\ handler' = "none"
  /\ UNCHANGED <<vm, pause, timer, inside, doSelect, pending, early, fdVars, worldVars>>

Paused ==
  /\ Goes("paused", "setjmp")
  /\ pause' = IF vm.current # NoThread /\ vm.status[vm.current] = "Debuggered"
                THEN "DebuggerInvoked" ELSE "PickNewThread"
  /\ UNCHANGED <<vm, timer, inside, doSelect, signalVars, fdVars, worldVars>>

SliceOver ==
  /\ timer = 0 /\ Goes("slice", "disarm")
  /\ UNCHANGED <<vm, pause, timer, inside, doSelect, signalVars, fdVars, worldVars>>

(* Mutant: InInterpreter stays set. *)
DisarmStays ==
  /\ Goes("disarm", "test") \/ Goes("disarm_idle", "test")
  /\ handler' = "none"
  /\ UNCHANGED <<vm, pause, timer, inside, doSelect, pending, early, fdVars, worldVars>>

Disarm ==
  /\ Goes("disarm", "test") \/ Goes("disarm_idle", "test")
  /\ inside' = FALSE
  /\ handler' = "none"
  /\ UNCHANGED <<vm, pause, timer, doSelect, pending, early, fdVars, worldVars>>

(* Between the handler and select. *)
GoToSleep ==
  /\ Goes("idle", "asleep")
  /\ UNCHANGED <<vm, pause, timer, inside, doSelect, signalVars, fdVars, worldVars>>

(* select returns for a descriptor.  With none to wait for the code calls  *)
(* sigsuspend(0), which has no mask to install and returns at once.        *)
WakeUp ==
  /\ Goes("asleep", "disarm_idle")
  /\ numFds = 0 \/ Selected \cap (ready \cup broken) # {}
  /\ SelectReturns
  /\ doSelect' = FALSE
  /\ UNCHANGED <<pause, timer, inside, signalVars, worldVars>>

(* Mutant: an interrupted slice is followed by the next one. *)
TestGoesOn ==
  /\ Goes("test", IF pause \in {"NoReason", "PickNewThread", "Interrupted"}
                    THEN "poll" ELSE "prompt")
  /\ vm' = IF at' = "prompt" THEN [vm EXCEPT !.current = NoThread] ELSE vm
  /\ handler' = IF at' = "prompt" THEN "blow_off" ELSE handler
  /\ pending' = (at' # "prompt" /\ pending)
  /\ UNCHANGED <<pause, timer, inside, doSelect, early, fdVars, worldVars>>

(* The loop's condition.  The debugger that do_stuff returns to sets its   *)
(* own handler, which shows the prompt once more for a pending signal.     *)
Test ==
  /\ Goes("test", IF pause \in {"NoReason", "PickNewThread"} THEN "poll" ELSE "prompt")
  /\ vm' = IF at' = "prompt" THEN [vm EXCEPT !.current = NoThread] ELSE vm
  /\ handler' = IF at' = "prompt" THEN "blow_off" ELSE handler
  /\ pending' = (at' # "prompt" /\ pending)
  /\ UNCHANGED <<pause, timer, inside, doSelect, early, fdVars, worldVars>>

-----------------------------------------------------------------------------
(* The user, the signal and the descriptors. *)

(* continue, which fails an assertion of do_stuff when InInterpreter is    *)
(* set; a command may have killed, disabled or enabled a thread before.    *)
Command ==
  /\ at = "prompt" /\ vm.fault = "none"
  /\ \/ /\ \E t \in Live(vm) : vm' = ThreadKill(vm, t)
        /\ UNCHANGED <<at, doSelect>>
     \/ /\ \E t \in Live(vm) : \/ vm.suspendCount[t] < MaxSuspend /\ vm' = ThreadStop(vm, t)
                               \/ vm.suspendCount[t] > 0 /\ vm' = ThreadRestart(vm, t)
        /\ UNCHANGED <<at, doSelect>>
     \/ /\ \E t \in Threads : vm.status[t] \in {"Running", "Waiting"}
        /\ ~ inside /\ at' = "poll" /\ doSelect' = TRUE
        /\ UNCHANGED vm
     \/ /\ inside /\ vm' = [vm EXCEPT !.fault = "crash"]
        /\ UNCHANGED <<at, doSelect>>
  /\ UNCHANGED <<pause, timer, inside, signalVars, fdVars, worldVars>>

(***************************************************************************)
(* SIGINT.  It ends a select, but only one that has begun; blow_off_cmd    *)
(* jumps to the prompt from wherever the program is.                       *)
(***************************************************************************)
Signal ==
  /\ vm.fault = "none"
  /\ \/ handler = "pause" /\ pause' = "Interrupted" /\ UNCHANGED <<pending, at>>
        /\ at # "asleep"
     \/ handler = "pause" /\ pause' = "Interrupted" /\ UNCHANGED pending
        /\ at = "asleep" /\ at' = "disarm_idle"
     \/ handler = "none" /\ pending' = TRUE /\ UNCHANGED <<pause, at>>
     \/ handler = "blow_off" /\ at' = "prompt" /\ UNCHANGED <<pending, pause>>
  /\ early' = (early \/ (handler = "blow_off" /\ inside))
  /\ doSelect' = (doSelect /\ ~ (at = "asleep"))
  /\ UNCHANGED <<vm, timer, inside, handler, fdVars, worldVars>>

BecomesReady ==
  /\ \E e \in Events \ broken : ready' \in {ready \cup {e}, ready \ {e}}
  /\ UNCHANGED <<vm, pause, loopVars, signalVars, fdVars, broken>>

-----------------------------------------------------------------------------
DriverInit ==
  /\ Init
  /\ at = "poll" /\ timer = 0 /\ inside = FALSE /\ doSelect = TRUE
  /\ handler = "none" /\ pending \in BOOLEAN
  /\ watched = {} /\ numFds = 0
  /\ ready = {} /\ broken = {} /\ early = FALSE

DriverStep ==
  \/ Poll \/ Pick \/ Arm \/ Setjmp
  \/ Computes \/ Closes \/ Stops
  \/ \E e \in Events : WaitForFd(e)
  \/ Pausing \/ Paused \/ SliceOver \/ Disarm \/ GoToSleep \/ WakeUp \/ Test

DriverNext == DriverStep \/ Command \/ Signal \/ BecomesReady

DriverSpec == DriverInit /\ [][DriverNext]_driverVars /\ WF_driverVars(DriverStep)

-----------------------------------------------------------------------------
(***************************************************************************)
(* Properties.                                                             *)
(***************************************************************************)

(* Who waits for a descriptor will be told: the descriptor is among those  *)
(* that the next select looks at, also after select has dropped others,    *)
(* lowered NumFds or met a bad descriptor (wait_for_fd, check_fds).        *)
WaitersAreWatched ==
  \A e \in Events : vm.waiting[e] # <<>> => e \in Selected

(* A thread that waits for a descriptor wakes up once it is ready and      *)
(* stays so, however busy the other threads are, because every turn of     *)
(* the loop asks select.                                                   *)
ReadyWakes ==
  \A e \in Events, t \in Threads :
    t \in Range(vm.waiting[e]) /\ e \in ready
      ~> \/ t \notin Range(vm.waiting[e])
         \/ e \notin ready \/ at = "prompt" \/ vm.fault # "none"

(* A SIGINT that arrives while no handler is set is not lost: it becomes   *)
(* the pause reason when the next handler is set (SignalPending), or finds *)
(* the prompt.                                                             *)
PendingIsDelivered ==
  pending ~> pause = "Interrupted" \/ at = "prompt" \/ vm.fault # "none"

(* A SIGINT during a slice ends at the prompt within the time slice,       *)
(* unless the thread pauses in what is left of it: mindy_pause then puts   *)
(* its own reason in the place of Interrupted.                             *)
InterruptReachesPrompt ==
  pause = "Interrupted" /\ at \in {"setjmp", "slice", "disarm", "test"}
    ~> at \in {"prompt", "pausing"} \/ vm.fault # "none"

(* The program is inside the interpreter only during a slice: every way    *)
(* back to the prompt leaves it, but for a SIGINT that strikes after       *)
(* do_stuff has set InInterpreter and before it has set its own handler.   *)
NotInsideYet == at \in {"poll", "prompt"} /\ inside => early
=============================================================================
