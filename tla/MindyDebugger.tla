---------------------------- MODULE MindyDebugger ---------------------------
(***************************************************************************)
(* Debugger commands that run Dylan code: debug.c with the escape frames   *)
(* of thread.c.  Such a command pushes an escape frame on the selected     *)
(* thread (or makes a helper thread when none is selected), suspends every *)
(* other thread and restarts this one; the C continuation it installed     *)
(* pops the frame and restarts the others when the code returns.           *)
(***************************************************************************)
EXTENDS MindyThreads, FiniteSets, FiniteSetsExt

CONSTANTS
  Uses,       \* the sets of uses that a careless user makes (see UseKinds)
  MaxFrames,  \* bound on the frames of one thread, for each kind of user
  MaxCount    \* bound on the suspensions of one thread, likewise

(* Uses of the commands that the code does not cope with, named so that an *)
(* instance can leave each out: a command on a thread that has not started *)
(* ("fresh"), is blocked on a lock ("blocked") or was disabled while it    *)
(* could not run ("disabled"); a return or restart that is refused         *)
(* ("refused"); code that leaves a command by a non-local exit ("unwound");*)
(* killing a thread a command uses ("killed"); a command on one thread     *)
(* while another has a command under way ("overlap"); disabling or         *)
(* enabling a thread while a command is under way ("meanwhile"); and a     *)
(* flush with no thread selected ("flush").                                *)
UseKinds == {"fresh", "blocked", "disabled", "refused", "unwound", "killed",
             "overlap", "meanwhile", "flush"}

ASSUME UsesAssumption ==
  /\ Uses \subseteq SUBSET UseKinds
  /\ MaxFrames \in [careful : Nat, careless : Nat]
  /\ MaxCount \in [careful : Nat, careless : Nat]

VARIABLES
  code,      \* what each thread has on its stack, and what it does next
  selected,  \* CurThread: the thread the commands are about
  disabled,  \* how often the user disabled each thread and did not enable it
  uses       \* the uses of UseKinds that the user makes

debugVars == <<vm, pause, code, selected, disabled, uses>>

Bound(of) == IF uses = {} THEN of.careful ELSE of.careless

-----------------------------------------------------------------------------
(***************************************************************************)
(* A thread's stack, reduced to what the continuations find there: started *)
(* functions with the continuation their linkage saved, escape frames, and *)
(* the flag that return and step push below theirs.  entry says whether    *)
(* the thread is inside a function or about to start one (advance is       *)
(* start_thread), or has nothing to start; cont is c_continuation.  An     *)
(* escape frame holds the status, datum, count and entry to go back to.    *)
(***************************************************************************)
Finishers == {"debugger_cmd_finished", "debugger_cmd_finished_without_restart",
              "maybe_return"}
Killers == {"kill_me", "kill_me_without_restart"}

Call(c) == [kind |-> "call", cont |-> c]
Flag(b) == [kind |-> "flag", keepGoing |-> b]

NoCode == [frames |-> <<>>, entry |-> "nothing", cont |-> "none"]
Fresh(c) == [frames |-> <<>>, entry |-> "start", cont |-> c]

EscapesOf(t) == {i \in DOMAIN code[t].frames : code[t].frames[i].kind = "escape"}

(* A command is under way on t: it has not undone what it did.             *)
UnderWay(t) ==
  \/ EscapesOf(t) # {}
  \/ code[t].entry = "start" /\ code[t].cont \in Killers
  \/ \E i \in DOMAIN code[t].frames : code[t].frames[i] \in {Call(c) : c \in Killers}

SomeUnderWay == \E t \in Live(vm) : UnderWay(t)

MayOverlap(t) ==
  (\E u \in Live(vm) \ {t} : UnderWay(u)) => "overlap" \in uses

-----------------------------------------------------------------------------
(* thread_stop for every thread but t. *)
SuspendOthers(s, t) ==
  LET others == Live(s) \ {t}
      stopped == {u \in others : s.suspendCount[u] = 0 /\ s.status[u] = "Running"}
  IN [s EXCEPT
        !.runnable = SubQueue(@, Threads \ stopped),
        !.status = [u \in Threads |-> IF u \in stopped THEN "Suspended" ELSE @[u]],
        !.suspendCount = [u \in Threads |-> IF u \in others THEN @[u] + 1 ELSE @[u]]]

(* AllThreads keeps the threads in the order they were made, which is that *)
(* of their ids.                                                           *)
OldestFirst(ts) == SubQueue([n \in 1..(Max(ts \cup {0}) + 1) |-> n - 1], ts)

(* thread_restart for every thread but t, in the order they were made.     *)
RestartOthers(s, t) ==
  LET counted == {u \in Live(s) \ {t} : s.suspendCount[u] > 0}
      woken == {u \in counted : s.suspendCount[u] = 1 /\ s.status[u] = "Suspended"}
  IN [s EXCEPT
        !.runnable = @ \o OldestFirst(woken),
        !.status = [u \in Threads |-> IF u \in woken THEN "Running" ELSE @[u]],
        !.suspendCount = [u \in Threads |-> IF u \in counted THEN @[u] - 1 ELSE @[u]]]

(* The tables after thread_push_escape: t is off its list, with a count of *)
(* its own.  The frame remembers the count of a suspended thread only.     *)
PushEscape(s, t) ==
  LET unlinked == Unlink(s, t)
  IN IF unlinked.fault # "none" THEN unlinked
     ELSE [unlinked EXCEPT !.status[t] = "Suspended", !.suspendCount[t] = 1,
                           !.datum[t] = NoObj]

EscapeFrame(s, t) ==
  [kind |-> "escape", status |-> s.status[t], datum |-> Unlink(s, t).datum[t],
   count |-> IF s.status[t] = "Suspended" THEN s.suspendCount[t] ELSE 0,
   entry |-> code[t].entry]

(* Mutant: a suspended thread does not get its count back. *)
PopEscapeNoCount(s, t, e) ==
  LET restored == [s EXCEPT !.status[t] = e.status, !.datum[t] = e.datum]
      offRing == [restored EXCEPT !.runnable = Without(@, t)]
      l == e.datum
  IN CASE e.status = "Running" -> restored
       [] e.status = "Suspended" -> offRing
       [] e.status = "Debuggered" -> offRing
       [] e.status = "Waiting" -> [restored EXCEPT !.status[t] = "Running"]
       [] e.status = "Blocked" ->
            IF s.locked[l] THEN [offRing EXCEPT !.waiting[l] = Append(@, t)]
            ELSE [restored EXCEPT !.locked[l] = TRUE, !.datum[t] = NoObj,
                                  !.owners[l] = @ \cup {t}]

(* thread_pop_escape, by the running thread t: it goes back to what it was *)
(* stopped in; a thread that waited for an event does not wait again, and  *)
(* one that was blocked queues up again or takes a lock that is free, but  *)
(* then keeps the status Blocked.                                          *)
PopEscape(s, t, e) ==
  LET restored == [s EXCEPT !.status[t] = e.status, !.datum[t] = e.datum]
      offRing == [restored EXCEPT !.runnable = Without(@, t)]
      l == e.datum
  IN CASE e.status = "Running" -> restored
       [] e.status = "Suspended" -> [offRing EXCEPT !.suspendCount[t] = e.count]
       [] e.status = "Debuggered" -> offRing
       [] e.status = "Waiting" -> [restored EXCEPT !.status[t] = "Running"]
       [] e.status = "Blocked" ->
            IF s.locked[l] THEN [offRing EXCEPT !.waiting[l] = Append(@, t)]
            ELSE [restored EXCEPT !.locked[l] = TRUE, !.datum[t] = NoObj,
                                  !.owners[l] = @ \cup {t}]

-----------------------------------------------------------------------------
(***************************************************************************)
(* The program's steps, as in MindyThreads, by a thread that is inside a   *)
(* function.                                                               *)
(***************************************************************************)
Inside(t) == Executes(t) /\ code[t].entry = "inside"

(* What the stacks are once the threads of s are left. *)
CodeOf(s) == [t \in Threads |-> IF t \in Live(s) THEN code[t] ELSE NoCode]

(* explain_reason, which also drops a selected thread that has gone.       *)
Validated(s) == IF selected \in Live(s) THEN selected ELSE NoThread

(* start_thread. *)
EnterFunction(t) ==
  /\ Executes(t) /\ code[t].entry # "inside"
  /\ vm' = IF code[t].entry = "start" THEN vm ELSE [vm EXCEPT !.fault = "crash"]
  /\ code' = [code EXCEPT ![t] = [frames |-> Append(@.frames, Call(@.cont)),
                                  entry |-> "inside", cont |-> @.cont]]
  /\ UNCHANGED <<pause, selected, disabled, uses>>

SpawnThread(t) ==
  /\ Inside(t) /\ Spawn(t)
  /\ code' = [u \in Threads |-> IF u \in Live(vm') \ Live(vm)
                                  THEN Fresh("stop_thread") ELSE code[u]]
  /\ UNCHANGED <<selected, disabled, uses>>

Operate(t) ==
  /\ Inside(t)
  /\ \/ \E l \in Locks : GrabLock(t, l) \/ ReleaseLock(t, l)
     \/ \E e \in Events, l \in Locks \cup {NoObj} : WaitForEvent(t, e, l)
     \/ \E e \in Events : SignalEvent(t, e) \/ BroadcastEvent(t, e)
  /\ UNCHANGED <<code, selected, disabled, uses>>

MayKill(t) == UnderWay(t) => "killed" \in uses

KillLiveThread(t, u) ==
  /\ Inside(t) /\ u \in Live(vm) /\ MayKill(u)
  /\ KillThread(t, u)
  /\ code' = CodeOf(vm')
  /\ disabled' = [disabled EXCEPT ![u] = 0]
  /\ UNCHANGED <<selected, uses>>

(* A non-local exit to a function that a command interrupted: the escape   *)
(* frames in between are gone.                                             *)
Unwind(t) ==
  /\ Inside(t) /\ "unwound" \in uses
  /\ \E k \in DOMAIN code[t].frames :
       /\ code[t].frames[k].kind = "call"
       /\ \E i \in EscapesOf(t) : i > k
       /\ code' = [code EXCEPT ![t].frames = SubSeq(@, 1, k)]
  /\ UNCHANGED <<vm, pause, selected, disabled, uses>>

-----------------------------------------------------------------------------
(***************************************************************************)
(* Starting a command on the thread t: push an escape frame, suspend the   *)
(* others, restart t.  pushed is what the command pushes below the frame.  *)
(***************************************************************************)
BelowMaxCount == \A u \in Live(vm) : vm.suspendCount[u] < Bound(MaxCount)

MayUse(t) ==
  /\ BelowMaxCount
  /\ Len(code[t].frames) + 2 <= Bound(MaxFrames)
  /\ vm.status[t] = "Blocked" => "blocked" \in uses
  /\ code[t].entry # "inside" => "fresh" \in uses
  /\ disabled[t] > 0 => vm.status[t] = "Suspended" \/ "disabled" \in uses

(* Mutant: the flag is pushed after the escape frame, not before. *)
RunOnFlagOnTop(s, t, c, pushed, suspendOthers) ==
  LET ready == PushEscape(s, t)
      alone == IF suspendOthers THEN SuspendOthers(ready, t) ELSE ready
  IN /\ MayUse(t)
     /\ vm' = IF ready.fault # "none" THEN ready ELSE ThreadRestart(alone, t)
     /\ code' = [code EXCEPT ![t] = [frames |-> Append(@.frames, EscapeFrame(s, t)) \o pushed,
                                     entry |-> "start", cont |-> c]]
     /\ pause' = "PickNewThread"

RunOn(s, t, c, pushed, suspendOthers) ==
  LET ready == PushEscape(s, t)
      alone == IF suspendOthers THEN SuspendOthers(ready, t) ELSE ready
  IN /\ MayUse(t)
     /\ vm' = IF ready.fault # "none" THEN ready ELSE ThreadRestart(alone, t)
     /\ code' = [code EXCEPT ![t] = [frames |-> Append(@.frames \o pushed, EscapeFrame(s, t)),
                                     entry |-> "start", cont |-> c]]
     /\ pause' = "PickNewThread"

(* Starting it on a new thread, when none is selected. *)
RunOnHelper(c, suspendOthers) ==
  \E t \in Threads :
    LET made == ThreadMake(vm, t)
    IN /\ BelowMaxCount /\ IsNextId(vm, t)
       /\ vm' = ThreadRestart(IF suspendOthers THEN SuspendOthers(made, t)
                              ELSE made, t)
       /\ code' = [code EXCEPT ![t] = Fresh(c)]
       /\ pause' = "PickNewThread"

(* An unhandled condition: thread_debuggered, then explain_condition at    *)
(* the prompt, which prints a condition that is a format string and calls  *)
(* debugger-report-condition for any other.                                *)
EnterDebugger(t) ==
  /\ Inside(t)
  /\ LET stopped == [ThreadDebuggered(vm, t) EXCEPT !.current = NoThread]
     IN \/ vm' = stopped /\ pause' = "DebuggerInvoked" /\ UNCHANGED code
        \/ RunOn(stopped, t, "debugger_cmd_finished", <<>>, TRUE)
  /\ selected' = t
  /\ UNCHANGED <<disabled, uses>>

-----------------------------------------------------------------------------
(***************************************************************************)
(* The function a thread runs returns to its continuation.                 *)
(***************************************************************************)
Top(t) == Last(code[t].frames)
Below(t) == Front(code[t].frames)

Returns(t, cs) ==
  /\ Inside(t)
  /\ code[t].frames # <<>> /\ Top(t).kind = "call" /\ Top(t).cont \in cs

(* stop_thread. *)
StopThread(t) ==
  /\ Returns(t, {"stop_thread"})
  /\ ExitThread(t)
  /\ code' = CodeOf(vm')
  /\ disabled' = [disabled EXCEPT ![t] = 0]
  /\ UNCHANGED <<selected, uses>>

(* Mutant: the thread is stopped, not killed. *)
KillMeStops(t) ==
  /\ Returns(t, Killers)
  /\ LET stopped == [ThreadStop(vm, t) EXCEPT !.current = NoThread]
     IN vm' = IF Top(t).cont = "kill_me" THEN RestartOthers(stopped, t)
              ELSE stopped
  /\ pause' = "DebuggerCommandFinished"
  /\ code' = [code EXCEPT ![t] = NoCode]
  /\ selected' = NoThread
  /\ disabled' = [disabled EXCEPT ![t] = 0]
  /\ UNCHANGED uses

(* kill_me, kill_me_without_restart. *)
KillMe(t) ==
  /\ Returns(t, Killers)
  /\ LET killed == ThreadKill(vm, t)
     IN vm' = IF Top(t).cont = "kill_me" THEN RestartOthers(killed, NoThread)
              ELSE killed
  /\ pause' = "DebuggerCommandFinished"
  /\ code' = CodeOf(vm')
  /\ selected' = NoThread
  /\ disabled' = [disabled EXCEPT ![t] = 0]
  /\ UNCHANGED uses

(* A continuation of a command pops the escape frame, which it expects     *)
(* below the function that returned.                                       *)
FindsEscape(t) == Below(t) # <<>> /\ Last(Below(t)).kind = "escape"

WildPop(t) ==
  /\ Returns(t, Finishers)
  /\ ~ FindsEscape(t)
  /\ vm' = [vm EXCEPT !.fault = "crash"]
  /\ UNCHANGED <<pause, code, selected, disabled, uses>>

(* The thread t with its escape frame popped, and the n-th frame from the  *)
(* top the last one that stays.  The continuation that ran is still the    *)
(* value of c_continuation.                                                *)
Escaped(t, n) ==
  [code EXCEPT ![t] = [frames |-> SubSeq(code[t].frames, 1, Len(code[t].frames) - n),
                       entry  |-> Last(Below(t)).entry,
                       cont   |-> Top(t).cont]]

(* debugger_cmd_finished, debugger_cmd_finished_without_restart. *)
CommandFinished(t) ==
  /\ Returns(t, Finishers \ {"maybe_return"})
  /\ FindsEscape(t)
  /\ LET popped == [PopEscape(vm, t, Last(Below(t))) EXCEPT !.current = NoThread]
     IN vm' = IF Top(t).cont = "debugger_cmd_finished" THEN RestartOthers(popped, t)
              ELSE popped
  /\ code' = Escaped(t, 2)
  /\ pause' = "DebuggerCommandFinished"
  /\ selected' = Validated(vm)
  /\ UNCHANGED <<disabled, uses>>

(* What return and step pushed; restart pushes nothing. *)
HasFlag(t) ==
  LET n == Len(code[t].frames) - 2
  IN n > 0 /\ code[t].frames[n].kind = "flag"

(* maybe_return, when the program does not allow to return: the thread is  *)
(* Debuggered again, and nothing restarts the others.  Without a flag the  *)
(* stack pointer is left inside the linkage of the frame below, which the  *)
(* next push overwrites.                                                   *)
ReturnRefused(t) ==
  /\ Returns(t, {"maybe_return"}) /\ "refused" \in uses
  /\ FindsEscape(t)
  /\ vm' = [PopEscape(vm, t, Last(Below(t)))
              EXCEPT !.current = NoThread,
                     !.fault = IF HasFlag(t) THEN "none" ELSE "crash"]
  /\ code' = Escaped(t, IF HasFlag(t) THEN 3 ELSE 2)
  /\ pause' = "DebuggerCommandFinished"
  /\ selected' = Validated(vm)
  /\ UNCHANGED <<disabled, uses>>

(* maybe_return with values, for a thread that was Debuggered:             *)
(* thread_buggered, and the call to invoke-debugger returns.  step stops   *)
(* there; return and restart go on with the slice.                         *)
ReturnTaken(t) ==
  /\ Returns(t, {"maybe_return"})
  /\ FindsEscape(t) /\ Last(Below(t)).status = "Debuggered"
  /\ LET popped == PopEscape(vm, t, Last(Below(t)))
         buggered == [WakeupThread(popped, t) EXCEPT !.status[t] = "Running",
                                                     !.datum[t] = NoObj]
         goOn == HasFlag(t) => code[t].frames[Len(code[t].frames) - 2].keepGoing
     IN /\ vm' = [RestartOthers(buggered, t)
                    EXCEPT !.current = IF goOn THEN t ELSE NoThread]
        /\ pause' = IF goOn THEN pause ELSE "DebuggerCommandFinished"
        /\ selected' = IF goOn THEN selected ELSE Validated(vm)
  /\ code' = Escaped(t, IF HasFlag(t) THEN 3 ELSE 2)
  /\ UNCHANGED <<disabled, uses>>

-----------------------------------------------------------------------------
(***************************************************************************)
(* The commands.                                                           *)
(***************************************************************************)
Ready == AtPrompt /\ vm.fault = "none"

(* call, print, inspect, xinspect, abort, describe, disassemble,           *)
(* breakpoint, and restart without a number: they run Dylan code and end   *)
(* with debugger_cmd_finished.                                             *)
CallCommand ==
  /\ Ready
  /\ MayOverlap(selected)
  /\ \E others \in BOOLEAN :
       \/ /\ selected = NoThread
          /\ RunOnHelper(IF others THEN "kill_me" ELSE "kill_me_without_restart",
                         others)
       \/ /\ selected # NoThread
          /\ RunOn(vm, selected,
                   IF others THEN "debugger_cmd_finished"
                   ELSE "debugger_cmd_finished_without_restart",
                   <<>>, others)
  /\ UNCHANGED <<selected, disabled, uses>>

(* flush: as call, but the helper gets an escape frame as well, and the    *)
(* continuation kill_me is replaced.                                       *)
FlushCommand ==
  /\ Ready /\ "flush" \in uses /\ selected = NoThread /\ MayOverlap(NoThread)
  /\ \E t \in Threads :
       LET made == ThreadMake(vm, t)
       IN /\ BelowMaxCount /\ IsNextId(vm, t)
          /\ vm' = ThreadRestart(SuspendOthers(PushEscape(made, t), t), t)
          /\ code' = [code EXCEPT ![t] =
                        [frames |-> <<[kind |-> "escape", status |-> "Suspended",
                                       datum |-> NoObj, count |-> 1,
                                       entry |-> "nothing"]>>,
                         entry |-> "start", cont |-> "debugger_cmd_finished"]]
  /\ pause' = "PickNewThread"
  /\ UNCHANGED <<selected, disabled, uses>>

(* return, and continue for a thread that is Debuggered. *)
ReturnCommand ==
  /\ Ready /\ selected # NoThread /\ vm.status[selected] = "Debuggered"
  /\ MayOverlap(selected)
  /\ RunOn(vm, selected, "maybe_return", <<Flag(TRUE)>>, TRUE)
  /\ UNCHANGED <<selected, disabled, uses>>

(* step and next, for a thread that is Debuggered. *)
StepCommand ==
  /\ Ready /\ selected # NoThread /\ vm.status[selected] = "Debuggered"
  /\ MayOverlap(selected)
  /\ RunOn(vm, selected, "maybe_return", <<Flag(FALSE)>>, TRUE)
  /\ UNCHANGED <<selected, disabled, uses>>

(* restart with a number. *)
RestartCommand ==
  /\ Ready /\ selected # NoThread
  /\ vm.status[selected] = "Debuggered" \/ "refused" \in uses
  /\ MayOverlap(selected)
  /\ RunOn(vm, selected, "maybe_return", <<>>, TRUE)
  /\ UNCHANGED <<selected, disabled, uses>>

SelectCommand(t) ==
  /\ Ready /\ t \in Live(vm)
  /\ selected' = t
  /\ UNCHANGED <<vm, pause, code, disabled, uses>>

(* Mutant: the killed thread stays selected. *)
KillSelectedKeeps(t) ==
  /\ KillCommand(t) /\ MayKill(t)
  /\ code' = CodeOf(vm')
  /\ disabled' = [disabled EXCEPT ![t] = 0]
  /\ UNCHANGED <<selected, uses>>

KillSelected(t) ==
  /\ KillCommand(t) /\ MayKill(t)
  /\ code' = CodeOf(vm')
  /\ selected' = IF t = selected /\ vm'.fault = "none" THEN NoThread ELSE selected
  /\ disabled' = [disabled EXCEPT ![t] = 0]
  /\ UNCHANGED uses

Disable(t) ==
  /\ DisableCommand(t) /\ disabled[t] < MaxSuspend
  /\ SomeUnderWay => "meanwhile" \in uses
  /\ disabled' = [disabled EXCEPT ![t] = @ + 1]
  /\ UNCHANGED <<code, selected, uses>>

Enable(t) ==
  /\ EnableCommand(t)
  /\ SomeUnderWay => "meanwhile" \in uses
  /\ disabled' = [disabled EXCEPT ![t] = 0]
  /\ UNCHANGED <<code, selected, uses>>

(* continue: a suspended thread that is selected is enabled first. *)
Continue ==
  \/ /\ ContinueCommand
     /\ selected # NoThread => vm.status[selected] \notin {"Suspended", "Debuggered"}
     /\ UNCHANGED <<code, selected, disabled, uses>>
  \/ /\ Ready /\ selected # NoThread /\ vm.status[selected] = "Suspended"
     /\ SomeUnderWay => "meanwhile" \in uses
     /\ vm' = ThreadRestart([vm EXCEPT !.suspendCount[selected] = 1], selected)
     /\ disabled' = [disabled EXCEPT ![selected] = 0]
     /\ pause' = "PickNewThread"
     /\ UNCHANGED <<code, selected, uses>>

-----------------------------------------------------------------------------
(* The driver, and the prompt after it. *)
PickNextThread ==
  /\ PickNext
  /\ selected' = IF pause' = "NothingToRun" THEN NoThread ELSE selected
  /\ UNCHANGED <<code, disabled, uses>>

InterruptThread ==
  /\ Interrupt
  /\ selected' = vm.current
  /\ UNCHANGED <<code, disabled, uses>>

DebugInit ==
  /\ Init
  /\ code = [t \in Threads |-> IF t \in Live(vm) THEN Fresh("stop_thread") ELSE NoCode]
  /\ selected = NoThread
  /\ disabled = [t \in Threads |-> 0]
  /\ uses \in {{}} \cup Uses

DebugNext ==
  \/ \E t \in Threads :
       \/ EnterFunction(t) \/ SpawnThread(t) \/ Operate(t) \/ Unwind(t)
       \/ \E u \in Threads : KillLiveThread(t, u)
       \/ EnterDebugger(t) \/ StopThread(t) \/ KillMe(t)
       \/ WildPop(t) \/ CommandFinished(t) \/ ReturnRefused(t) \/ ReturnTaken(t)
       \/ SelectCommand(t) \/ KillSelected(t) \/ Disable(t) \/ Enable(t)
  \/ CallCommand \/ FlushCommand
  \/ ReturnCommand \/ StepCommand \/ RestartCommand \/ Continue
  \/ PickNextThread \/ InterruptThread

DebugSpec == DebugInit /\ [][DebugNext]_debugVars

-----------------------------------------------------------------------------
(***************************************************************************)
(* Properties.                                                             *)
(***************************************************************************)

(* When no command is under way, the only threads with a suspend count are *)
(* those the user disabled, and as often: each command undid the           *)
(* suspensions it made, neither more nor fewer, however the commands       *)
(* nested (suspend_other_threads, restart_other_threads, escape frames),   *)
(* unless the user is careless.                                            *)
OnlyDisableSuspends ==
  uses = {} /\ ~ SomeUnderWay /\ vm.fault = "none" =>
    \A t \in Live(vm) : vm.suspendCount[t] = disabled[t]

(* Every continuation of a careful user's command that is still to run     *)
(* will find the escape frame it pops: the one just below the function     *)
(* that returns to it, or on top when that function is yet to be started.  *)
EscapeAwaitsIt(fs, i) == i > 0 /\ fs[i].kind = "escape"

ContinuationsFindFrames ==
  uses = {} => \A t \in Live(vm) :
    LET fs == code[t].frames
    IN /\ \A i \in DOMAIN fs :
            fs[i] \in {Call(c) : c \in Finishers} => EscapeAwaitsIt(fs, i - 1)
       /\ code[t].entry = "start" /\ code[t].cont \in Finishers
            => EscapeAwaitsIt(fs, Len(fs))

(* A live thread has code to run or to return to: no careful user's        *)
(* command leaves behind the thread it made.                               *)
NobodyLeftBehind ==
  uses = {} => \A t \in Live(vm) : code[t].entry = "nothing" => UnderWay(t)

(* The thread the next command is about exists, whatever the user did:     *)
(* CurThread is a pointer that the program, kill_me and the user's kill    *)
(* all invalidate.                                                         *)
SelectedExists == AtPrompt => selected \in Live(vm) \cup {NoThread}
=============================================================================
