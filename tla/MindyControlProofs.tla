-------------------------- MODULE MindyControlProofs -------------------------
(***************************************************************************)
(* Proofs about the two parts of the program that decide which threads     *)
(* run: MindyDriver, for any threads and descriptors, and MindyDebugger,   *)
(* for any threads and any nesting of the user's commands.  That the       *)
(* thread tables stay consistent under the operations of thread.c is taken *)
(* from the lemmas about MindyThreads.                                     *)
(***************************************************************************)
EXTENDS MindyDriver, MindyDebugger, MindyThreadsProofs, FiniteSetTheorems

-----------------------------------------------------------------------------
(***************************************************************************)
(* The driver loop.                                                        *)
(***************************************************************************)

(* Where an operation may run before the loop looks at the pause reason.   *)
InSlice == at \in {"arm", "slice"} \/ (at = "setjmp" /\ pause = "NoReason")

SliceRuns ==
  vm.fault = "none" /\ InSlice
    => vm.current \in Threads /\ vm.status[vm.current] = "Running"

(* What wait_for_fd and check_fds keep between them. *)
Watching ==
  /\ watched \subseteq Events /\ numFds \in Nat
  /\ \A e \in watched : NumberOf(e) < numFds
  /\ \A e \in Events : vm.waiting[e] # <<>> => e \in watched

(* Where InInterpreter is clear, unless a signal struck. *)
Outside ==
  /\ at \in {"poll", "pick", "arm_idle", "idle", "asleep", "disarm_idle", "test", "prompt"}
  /\ inside
  => early

(***************************************************************************)
(* The inductive invariant: the tables are consistent, a thread runs while *)
(* the slice lasts, and every event with waiters is one that select is     *)
(* asked about.                                                            *)
(***************************************************************************)
DriverInv ==
  /\ Consistent(vm) /\ LocksAgree(vm)
  /\ SliceRuns /\ Watching /\ Outside

-----------------------------------------------------------------------------
(* NumFds: one past the greatest number of a descriptor in es.             *)
LEMMA OnePastAll ==
  ASSUME NEW es \in SUBSET Events, NEW n \in Nat, \A e \in es : NumberOf(e) < n
  PROVE  /\ OnePast(es) \in Nat
         /\ \A e \in es : NumberOf(e) < OnePast(es)
  <1>1. CASE es = {}
    BY <1>1 DEF OnePast
  <1>2. CASE es # {}
    <2>1. \A e \in es : NumberOf(e) \in Nat
      BY EventsAssumption
    <2> DEFINE numbers == {NumberOf(e) : e \in es}
               T == {k \in Nat : \A e \in es : NumberOf(e) <= k}
               Greatest(k) == \A e \in es : NumberOf(e) <= k
    <2>2. T \in SUBSET Nat /\ n \in T
      BY <2>1
    <2>3. PICK k \in T : \A m \in T : k <= m
      BY <2>2, LeastNat
    <2>4. k \in numbers
      <3>1. SUFFICES ASSUME k \notin numbers PROVE FALSE
        OBVIOUS
      <3>2. \A e \in es : NumberOf(e) < k
        BY <2>1, <2>3, <3>1
      <3>3. PICK e \in es : TRUE
        BY <1>2
      <3>4. k - 1 \in T
        BY <2>1, <2>3, <3>2, <3>3
      <3> QED BY <2>3, <3>4
    <2>5. Greatest(k)
      BY <2>3
    <2> DEFINE top == CHOOSE m \in numbers : Greatest(m)
    <2>6. top \in numbers /\ Greatest(top)
      <3> HIDE DEF numbers, Greatest
      <3> QED BY <2>4, <2>5
    <2>7. OnePast(es) = 1 + top
      BY <1>2 DEF OnePast
    <2> HIDE DEF top
    <2> QED BY <2>1, <2>6, <2>7
  <1> QED BY <1>1, <1>2

-----------------------------------------------------------------------------
(***************************************************************************)
(* Telling the waiters of descriptors.                                     *)
(***************************************************************************)
(* From s to r the waiters of es were told, and nobody came to wait. *)
Told(r, s, es) ==
  /\ Consistent(r) /\ SameLocks(r, s) /\ r.fault = s.fault
  /\ \A e \in Events : r.waiting[e] # <<>> => s.waiting[e] # <<>> /\ e \notin es

LEMMA ToldTwice ==
  ASSUME NEW s, NEW q, NEW r, NEW a, NEW b, Told(q, s, a), Told(r, q, b)
  PROVE  Told(r, s, a \cup b)
  BY DEF Told, SameLocks

LEMMA BroadcastTells ==
  ASSUME NEW s, Consistent(s), NEW e \in Events
  PROVE  Told(EventBroadcast(s, e), s, {e})
  <1>1. /\ Consistent(EventBroadcast(s, e))
        /\ SameLocks(EventBroadcast(s, e), s)
        /\ EventBroadcast(s, e).fault = s.fault
    BY EventBroadcastConsistent
  <1>2. e \in Queues /\ s.waiting \in [Queues -> Seq(Threads)] /\ Events \subseteq Queues
    BY DEF Queues, Consistent, VMStates
  <1>3. EventBroadcast(s, e).waiting = [s.waiting EXCEPT ![e] = <<>>]
    BY DEF EventBroadcast, Consistent, VMStates
  <1> QED BY <1>1, <1>2, <1>3 DEF Told

LEMMA TellTells ==
  ASSUME NEW s, Consistent(s), NEW es \in SUBSET Events, \A e, f \in es : e = f
  PROVE  Told(Tell(s, es), s, es)
  <1>1. CASE es = {}
    BY <1>1 DEF Tell, Told, SameLocks
  <1>2. CASE es # {}
    <2> DEFINE e == CHOOSE e \in es : TRUE
    <2>1. e \in es /\ es = {e} /\ e \in Events
      BY <1>2
    <2>2. Tell(s, es) = EventBroadcast(s, e)
      BY <1>2 DEF Tell
    <2> HIDE DEF e
    <2>3. Told(EventBroadcast(s, e), s, {e})
      BY <2>1, BroadcastTells
    <2> QED BY <2>1, <2>2, <2>3
  <1> QED BY <1>1, <1>2

LEMMA TellAtTells ==
  ASSUME NEW s, Consistent(s), NEW es \in SUBSET Events, NEW n \in Nat
  PROVE  Told(TellAt(s, es, n), s, {e \in es : NumberOf(e) = n})
  <1> DEFINE here == {e \in es : NumberOf(e) = n}
             toRead == here \cap ReadEvents
             toWrite == here \ ReadEvents
             q == Tell(s, toRead)
  <1>1. /\ \A e, f \in toRead : e = f
        /\ \A e, f \in toWrite : e = f
        /\ here = toRead \cup toWrite
        /\ toRead \in SUBSET Events /\ toWrite \in SUBSET Events
    BY EventsAssumption
  <1>2. TellAt(s, es, n) = Tell(q, toWrite)
    BY DEF TellAt
  <1> HIDE DEF here, toRead, toWrite
  <1>3. Told(q, s, toRead)
    BY <1>1, TellTells
  <1>4. Consistent(q)
    BY <1>3 DEF Told
  <1> HIDE DEF q
  <1>5. Told(Tell(q, toWrite), q, toWrite)
    BY <1>1, <1>4, TellTells
  <1>6. Told(Tell(q, toWrite), s, toRead \cup toWrite)
    BY <1>3, <1>5, ToldTwice
  <1> QED BY <1>1, <1>2, <1>6 DEF here

(* What the loop over the descriptors has come to. *)
LEMMA BroadcastAllTells ==
  ASSUME NEW s, Consistent(s), NEW es \in SUBSET Events, numFds \in Nat,
         \A e \in es : NumberOf(e) < numFds
  PROVE  Told(BroadcastAll(s, es), s, es)
  <1> DEFINE S == {r \in VMStates : Consistent(r)}
             F == [x \in (1..numFds) \X S |-> TellAt(x[2], es, x[1] - 1)]
             Body(h) == [i \in 0..numFds |-> IF i = 0 THEN s ELSE TellAt(h[i - 1], es, i - 1)]
             upTo == CHOOSE h : h = Body(h)
  <1>1. \A r \in S : Consistent(r)
    OBVIOUS
  <1>2. s \in S
    BY DEF Consistent
  <1>3. ASSUME NEW r \in S, NEW n \in Nat
        PROVE  /\ TellAt(r, es, n) \in S
               /\ Told(TellAt(r, es, n), r, {e \in es : NumberOf(e) = n})
    <2>1. Told(TellAt(r, es, n), r, {e \in es : NumberOf(e) = n})
      BY <1>1, TellAtTells
    <2>2. Consistent(TellAt(r, es, n))
      BY <2>1 DEF Told
    <2> QED BY <2>1, <2>2 DEF Consistent
  <1> HIDE DEF S
  <1>4. F \in [(1..numFds) \X S -> S]
    <2>1. \A x \in (1..numFds) \X S : x[2] \in S /\ x[1] - 1 \in Nat
      OBVIOUS
    <2> QED BY <1>3, <2>1
  <1>5. \A i \in 1..numFds : \A v \in S : F[<<i, v>>] = TellAt(v, es, i - 1)
    OBVIOUS
  <1>6. BroadcastAll(s, es) = upTo[numFds]
    BY DEF BroadcastAll
  <1> HIDE DEF F
  <1>7. PICK g \in [0..numFds -> S] : Follows(g, numFds, s, F)
    BY <1>2, <1>4, RecursionExists
  <1>8. \A i \in 1..numFds : g[i - 1] \in S
    OBVIOUS
  <1>9. g = Body(g)
    BY <1>5, <1>7, <1>8 DEF Follows
  <1>10. upTo = Body(upTo)
    BY <1>9
  <1> HIDE DEF upTo
  <1>11. /\ upTo[0] = s
         /\ \A i \in 1..numFds : upTo[i] = TellAt(upTo[i - 1], es, i - 1)
    BY <1>10
  <1> DEFINE Within(n) == {e \in es : NumberOf(e) < n}
             Right(n) == upTo[n] \in S /\ Told(upTo[n], s, Within(n))
             T == {n \in Nat : n <= numFds /\ ~ Right(n)}
  <1>12. Right(0)
    <2>1. Within(0) = {}
      BY EventsAssumption
    <2> HIDE DEF Below
    <2>2. Told(s, s, {})
      BY DEF Told, SameLocks
    <2> QED BY <1>2, <1>11, <2>1, <2>2
  <1>13. ASSUME NEW n \in 1..numFds, Right(n - 1) PROVE Right(n)
    <2> DEFINE q == upTo[n - 1]
               here == {e \in es : NumberOf(e) = n - 1}
    <2>1. q \in S /\ Told(q, s, Within(n - 1)) /\ upTo[n] = TellAt(q, es, n - 1)
      BY <1>11, <1>13
    <2>2. Within(n) = Within(n - 1) \cup here
      BY EventsAssumption
    <2> HIDE DEF q, Below
    <2>3. n - 1 \in Nat
      OBVIOUS
    <2>4. TellAt(q, es, n - 1) \in S /\ Told(TellAt(q, es, n - 1), q, here)
      BY <1>3, <2>1, <2>3
    <2> HIDE DEF here
    <2>5. Told(TellAt(q, es, n - 1), s, Within(n - 1) \cup here)
      BY <2>1, <2>4, ToldTwice
    <2> QED BY <2>1, <2>2, <2>4, <2>5
  <1> HIDE DEF Right
  <1>14. ASSUME T # {} PROVE FALSE
    <2>1. PICK n \in T : \A m \in T : n <= m
      <3>1. T \in SUBSET Nat
        OBVIOUS
      <3> QED BY <1>14, <3>1, LeastNat
    <2>2. n \in 1..numFds
      BY <1>12, <2>1
    <2>3. Right(n - 1)
      BY <2>1, <2>2
    <2> QED BY <1>13, <2>1, <2>2, <2>3
  <1>15. Right(numFds)
    BY <1>14
  <1>16. Within(numFds) = es
    OBVIOUS
  <1> HIDE DEF Below
  <1> QED BY <1>6, <1>15, <1>16 DEF Right

-----------------------------------------------------------------------------
(***************************************************************************)
(* The other operations: nobody waits for a descriptor that nobody was     *)
(* waiting for before, except by wait_for_fd.                              *)
(***************************************************************************)
NobodyComes(r, s) == \A e \in Events : r.waiting[e] # <<>> => s.waiting[e] # <<>>

LEMMA RingKeepsQueues ==
  ASSUME NEW s \in VMStates, NEW t \in Threads
  PROVE  /\ SuspendThread(s, t).waiting = s.waiting
         /\ WakeupThread(s, t).waiting = s.waiting
         /\ ThreadMake(s, t).waiting = s.waiting /\ ThreadMake(s, t) \in VMStates
         /\ ThreadStop(s, t).waiting = s.waiting
         /\ ThreadRestart(s, t).waiting = s.waiting
         /\ ThreadDebuggered(s, t).waiting = s.waiting
         /\ PickThread(s).waiting = s.waiting
  <1>1. SuspendThread(s, t).waiting = s.waiting /\ WakeupThread(s, t).waiting = s.waiting
    BY DEF SuspendThread, WakeupThread, VMStates
  <1>2. ThreadMake(s, t).waiting = s.waiting /\ ThreadMake(s, t) \in VMStates
    BY DEF ThreadMake, VMStates, Statuses, LiveStatuses
  <1>3. ThreadStop(s, t).waiting = s.waiting
    BY DEF ThreadStop, SuspendThread, VMStates
  <1>4. ThreadRestart(s, t).waiting = s.waiting
    BY DEF ThreadRestart, WakeupThread, VMStates
  <1>5. ThreadDebuggered(s, t).waiting = s.waiting
    BY DEF ThreadDebuggered, SuspendThread, VMStates
  <1>6. PickThread(s).waiting = s.waiting
    BY DEF PickThread, VMStates
  <1> QED BY <1>1, <1>2, <1>3, <1>4, <1>5, <1>6

(* A killed thread leaves the queue it was on. *)
LEMMA KillKeepsQueues ==
  ASSUME NEW s \in VMStates, NEW t \in Threads
  PROVE  /\ NobodyComes(ThreadKill(s, t), s)
         /\ NobodyComes([ThreadKill(s, t) EXCEPT !.status[t] = "Exited"], s)
  <1> DEFINE p == Unlink(s, t)
             o == s.datum[t]
  <1>1. NobodyComes(p, s)
    <2>1. CASE s.status[t] = "Running"
      BY <2>1, RingKeepsQueues DEF Unlink, NobodyComes
    <2>2. CASE s.status[t] \in {"Blocked", "Waiting"}
      <3>1. p = RemoveFromQueue(s, t)
        BY <2>2 DEF Unlink
      <3>2. CASE p \in {[s EXCEPT !.fault = "crash"], [s EXCEPT !.fault = "hang"]}
        BY <3>2 DEF NobodyComes, VMStates
      <3>3. CASE ~ (o = NoObj \/ s.waiting[o] = <<>>) /\ Head(s.waiting[o]) = t
        <4>1. p = [s EXCEPT !.waiting[o] = Tail(@),
                            !.datum[t] = IF o \in Events THEN NoObj ELSE @]
          BY <3>1, <3>3 DEF RemoveFromQueue
        <4>2. o \in Queues
          BY <3>3 DEF VMStates
        <4>3. p.waiting = [s.waiting EXCEPT ![o] = Tail(@)]
          BY <4>1 DEF VMStates
        <4>4. \A e \in Events : p.waiting[e] = IF e = o THEN Tail(s.waiting[e])
                                                ELSE s.waiting[e]
          BY <4>2, <4>3 DEF VMStates, Queues
        <4> QED BY <3>3, <4>4 DEF NobodyComes
      <3> QED BY <3>1, <3>2, <3>3 DEF RemoveFromQueue
    <2>3. CASE s.status[t] \notin {"Running", "Blocked", "Waiting"}
      <3>1. p = s
        BY <2>3 DEF Unlink
      <3> QED BY <3>1 DEF NobodyComes
    <2> QED BY <2>1, <2>2, <2>3
  <1>2. /\ ThreadKill(s, t).waiting = p.waiting
        /\ [ThreadKill(s, t) EXCEPT !.status[t] = "Exited"].waiting = p.waiting
    <2>1. DOMAIN p = DOMAIN s
      BY DEF Unlink, RemoveFromQueue, SuspendThread
    <2>2. "waiting" \in DOMAIN s
      BY DEF VMStates
    <2> HIDE DEF p
    <2> QED BY <2>1, <2>2 DEF ThreadKill, p
  <1> QED BY <1>1, <1>2 DEF NobodyComes

LEMMA StaysWatched ==
  ASSUME Watching, NobodyComes(vm', vm), UNCHANGED fdVars
  PROVE  Watching'
  BY DEF Watching, NobodyComes, fdVars

-----------------------------------------------------------------------------
(***************************************************************************)
(* The steps of the loop.                                                  *)
(***************************************************************************)
LEMMA WatchFewer ==
  ASSUME Watching, NEW es \in SUBSET watched, Watch(watched \ es)
  PROVE  /\ watched' = watched \ es /\ numFds' \in Nat
         /\ \A e \in watched' : NumberOf(e) < numFds'
  <1>1. watched \ es \in SUBSET Events /\ \A e \in watched \ es : NumberOf(e) < numFds
    BY DEF Watching
  <1>2. numFds \in Nat
    BY DEF Watching
  <1>3. watched' = watched \ es /\ numFds' = OnePast(watched \ es)
    BY DEF Watch
  <1> DEFINE left == watched \ es
  <1> HIDE DEF left
  <1>4. OnePast(left) \in Nat /\ \A e \in left : NumberOf(e) < OnePast(left)
    BY <1>1, <1>2, OnePastAll DEF left
  <1> QED BY <1>3, <1>4 DEF left

(* select reports some of the descriptors it was asked about, or that one  *)
(* of them is bad.                                                         *)
LEMMA SelectKeeps ==
  ASSUME DriverInv, SelectReturns
  PROVE  Consistent(vm') /\ LocksAgree(vm') /\ Watching'
  <1>1. Consistent(vm) /\ LocksAgree(vm) /\ Watching
    BY DEF DriverInv
  <1>2. ASSUME NEW es \in SUBSET Selected, vm' = BroadcastAll(vm, es), Watch(watched \ es)
        PROVE  Consistent(vm') /\ LocksAgree(vm') /\ Watching'
    <2>1. es \in SUBSET Events /\ es \in SUBSET watched /\ numFds \in Nat
      BY <1>1 DEF Selected, Watching
    <2>2. \A e \in es : NumberOf(e) < numFds
      BY DEF Selected
    <2>3. Told(vm', vm, es)
      BY <1>1, <1>2, <2>1, <2>2, BroadcastAllTells
    <2>4. /\ watched' = watched \ es /\ numFds' \in Nat
          /\ \A e \in watched' : NumberOf(e) < numFds'
      BY <1>1, <1>2, <2>1, WatchFewer
    <2>5. Consistent(vm') /\ SameLocks(vm', vm)
      BY <2>3 DEF Told
    <2>6. LocksAgree(vm')
      BY <1>1, <2>5, SameLocksAgree
    <2>7. \A e \in Events : vm'.waiting[e] # <<>> => e \in watched'
      BY <1>1, <2>3, <2>4 DEF Told, Watching
    <2>8. watched' \subseteq Events
      BY <1>1, <2>4 DEF Watching
    <2> QED BY <2>4, <2>5, <2>6, <2>7, <2>8 DEF Watching
  <1>3. CASE Selected \cap broken # {}
    <2>1. Selected = watched
      BY <1>1 DEF Selected, Watching
    <2>2. vm' = BroadcastAll(vm, Selected) /\ Watch({})
      BY <1>3 DEF SelectReturns
    <2>3. Watch(watched \ Selected)
      <3>1. watched \ Selected = {}
        BY <2>1
      <3> QED BY <2>2, <3>1
    <2> QED BY <1>2, <2>2, <2>3
  <1>4. CASE Selected \cap broken = {} /\ Selected \cap ready # {}
    <2>1. vm' = BroadcastAll(vm, Selected \cap ready) /\ Watch(watched \ (Selected \cap ready))
      BY <1>4 DEF SelectReturns
    <2>2. Selected \cap ready \in SUBSET Selected
      OBVIOUS
    <2> QED BY <1>2, <2>1, <2>2
  <1>5. CASE UNCHANGED <<vm, fdVars>>
    <2>1. Watching'
      BY <1>1, <1>5 DEF Watching, fdVars
    <2> QED BY <1>1, <1>5, <2>1
  <1> QED BY <1>3, <1>4, <1>5 DEF SelectReturns

(* The steps that touch neither the tables nor the descriptors. *)
LEMMA LoopInv ==
  ASSUME DriverInv,
         Arm \/ Setjmp \/ Closes \/ Pausing \/ Paused \/ SliceOver \/ Disarm
         \/ GoToSleep \/ Signal \/ BecomesReady
  PROVE  DriverInv'
  <1>1. Consistent(vm) /\ LocksAgree(vm) /\ Watching /\ SliceRuns /\ Outside
    BY DEF DriverInv
  <1>2. vm' = vm /\ UNCHANGED fdVars
    BY DEF Arm, Setjmp, Closes, Spends, Pausing, Paused, SliceOver, Disarm, GoToSleep, Signal,
           BecomesReady
  <1>3. Watching' /\ Consistent(vm') /\ LocksAgree(vm')
    BY <1>1, <1>2 DEF Watching, fdVars
  <1>4. SliceRuns' /\ Outside'
    <2>1. CASE Arm
      BY <1>1, <1>2, <2>1 DEF Arm, Goes, SliceRuns, InSlice, Outside
    <2>2. CASE Setjmp
      BY <1>1, <1>2, <2>2 DEF Setjmp, Goes, SliceRuns, InSlice, Outside, signalVars
    <2>3. CASE Closes
      BY <1>1, <1>2, <2>3 DEF Closes, Spends, Goes, SliceRuns, InSlice, Outside, signalVars
    <2>4. CASE Pausing
      BY <1>1, <1>2, <2>4 DEF Pausing, Goes, SliceRuns, InSlice, Outside
    <2>5. CASE Paused
      BY <1>1, <1>2, <2>5 DEF Paused, Goes, SliceRuns, InSlice, Outside, signalVars
    <2>6. CASE SliceOver
      BY <1>1, <1>2, <2>6 DEF SliceOver, Goes, SliceRuns, InSlice, Outside, signalVars
    <2>7. CASE Disarm
      BY <1>1, <1>2, <2>7 DEF Disarm, Goes, SliceRuns, InSlice, Outside
    <2>8. CASE GoToSleep
      BY <1>1, <1>2, <2>8 DEF GoToSleep, Goes, SliceRuns, InSlice, Outside, signalVars
    <2>9. CASE Signal
      BY <1>1, <1>2, <2>9 DEF Signal, SliceRuns, InSlice, Outside
    <2>10. CASE BecomesReady
      BY <1>1, <1>2, <2>10 DEF BecomesReady, SliceRuns, InSlice, Outside, loopVars, signalVars
    <2> QED BY <2>1, <2>2, <2>3, <2>4, <2>5, <2>6, <2>7, <2>8, <2>9, <2>10
  <1> QED BY <1>3, <1>4 DEF DriverInv

LEMMA PollInv ==
  ASSUME DriverInv, Poll \/ WakeUp
  PROVE  DriverInv'
  <1>1. Consistent(vm') /\ LocksAgree(vm') /\ Watching'
    <2>1. CASE SelectReturns
      BY <2>1, SelectKeeps
    <2>2. CASE UNCHANGED <<vm, fdVars>>
      BY <2>2 DEF DriverInv, Watching, fdVars
    <2> QED BY <2>1, <2>2 DEF Poll, WakeUp
  <1>2. SliceRuns' /\ Outside'
    BY DEF Poll, WakeUp, Goes, SliceRuns, InSlice, Outside, DriverInv, signalVars
  <1> QED BY <1>1, <1>2 DEF DriverInv

LEMMA PickInv ==
  ASSUME DriverInv, Pick
  PROVE  DriverInv'
  <1>1. Consistent(vm) /\ LocksAgree(vm) /\ Watching /\ Outside /\ vm \in VMStates
    BY DEF DriverInv, Consistent
  <1>2. vm' = PickThread(vm) /\ UNCHANGED fdVars
    BY DEF Pick
  <1>3. /\ Consistent(vm') /\ SameLocks(vm', vm)
        /\ vm'.current # NoThread => vm'.status[vm'.current] = "Running"
    BY <1>1, <1>2, PickThreadConsistent
  <1>4. LocksAgree(vm')
    BY <1>1, <1>3, SameLocksAgree
  <1>5. Watching'
    <2>1. PickThread(vm).waiting = vm.waiting
      BY <1>1 DEF PickThread, VMStates
    <2> QED BY <1>1, <1>2, <2>1, StaysWatched DEF NobodyComes
  <1>6. vm.runnable # <<>> => vm'.current \in Threads /\ vm'.current # NoThread
    <2>1. vm.runnable # <<>> => Head(vm.runnable) \in Threads
      BY <1>1 DEF VMStates
    <2>2. vm.runnable # <<>> => PickThread(vm).current = Head(vm.runnable)
      BY <1>1 DEF PickThread, VMStates
    <2> QED BY <1>2, <2>1, <2>2, ThreadsAssumption
  <1>7. SliceRuns'
    BY <1>3, <1>6 DEF Pick, Goes, SliceRuns, InSlice
  <1>8. Outside'
    BY <1>1 DEF Pick, Goes, Outside, signalVars
  <1> QED BY <1>3, <1>4, <1>5, <1>7, <1>8 DEF DriverInv

(* The operation that runs leaves its thread running. *)
LEMMA ComputesInv ==
  ASSUME DriverInv, Computes
  PROVE  DriverInv'
  <1> DEFINE t == vm.current
  <1>1. Consistent(vm) /\ LocksAgree(vm) /\ Watching /\ vm \in VMStates
    BY DEF DriverInv, Consistent
  <1>2. t \in Threads /\ vm.status[t] = "Running" /\ vm.fault = "none"
    BY DEF DriverInv, SliceRuns, InSlice, Computes, Goes
  <1>3. at' \in {"slice", "setjmp"} /\ UNCHANGED fdVars
    BY DEF Computes, Goes
  <1>4. SUFFICES /\ Consistent(vm') /\ LocksAgree(vm') /\ NobodyComes(vm', vm)
                 /\ vm'.fault = "none" => vm'.current = t /\ vm'.status[t] = "Running"
    <2>1. Outside'
      BY <1>3 DEF Outside
    <2> QED BY <1>1, <1>2, <1>3, <2>1, StaysWatched DEF DriverInv, SliceRuns
  <1>5. CASE UNCHANGED vm
    BY <1>1, <1>2, <1>5 DEF NobodyComes
  <1>6. ASSUME NEW u \in Threads, IsNextId(vm, u), vm' = ThreadRestart(ThreadMake(vm, u), u)
        PROVE  /\ Consistent(vm') /\ LocksAgree(vm') /\ NobodyComes(vm', vm)
               /\ vm'.current = t /\ vm'.status[t] = "Running"
    <2>1. /\ Consistent(vm') /\ LocksAgree(vm')
          /\ vm'.current = vm.current /\ KeepsRunning(vm', vm)
      BY <1>1, <1>6, MakeAndRestart
    <2>2. vm'.waiting = vm.waiting
      <3>1. ThreadMake(vm, u).waiting = vm.waiting /\ ThreadMake(vm, u) \in VMStates
        BY <1>1, RingKeepsQueues
      <3> QED BY <1>6, <3>1, RingKeepsQueues
    <2> QED BY <1>2, <2>1, <2>2 DEF NobodyComes, KeepsRunning
  <1>7. ASSUME NEW u \in Live(vm) \ {vm.current}, vm' = ThreadKill(vm, u)
        PROVE  /\ Consistent(vm') /\ LocksAgree(vm') /\ NobodyComes(vm', vm)
               /\ vm'.fault = "none" => vm'.current = t /\ vm'.status[t] = "Running"
    <2>1. u \in Threads /\ u # t /\ "Killed" \in {"Killed", "Exited"}
      BY DEF Live
    <2>2. /\ Consistent(vm') /\ SameLocks(vm', vm) /\ OthersSame(vm', vm, u)
          /\ vm'.fault = "none" =>
               vm'.current = IF vm.current = u THEN NoThread ELSE vm.current
      BY <1>1, <1>2, <1>7, <2>1, ThreadKillConsistent
    <2>3. NobodyComes(vm', vm)
      BY <1>1, <1>7, <2>1, KillKeepsQueues
    <2>4. LocksAgree(vm')
      BY <1>1, <2>2, SameLocksAgree
    <2> QED BY <1>2, <2>1, <2>2, <2>3, <2>4 DEF OthersSame
  <1> QED BY <1>5, <1>6, <1>7 DEF Computes

(* wait_for_fd watches the descriptor before its thread waits. *)
LEMMA WaitForFdInv ==
  ASSUME DriverInv, NEW e \in Events, WaitForFd(e)
  PROVE  DriverInv'
  <1> DEFINE t == vm.current
  <1>1. Consistent(vm) /\ LocksAgree(vm) /\ Watching
    BY DEF DriverInv
  <1>2. t \in Threads /\ vm.status[t] = "Running"
    BY DEF DriverInv, SliceRuns, InSlice, WaitForFd, Goes
  <1>3. /\ at' = "pausing" /\ vm' = EventWait(vm, t, e, NoObj)
        /\ watched' = watched \cup {e}
        /\ numFds' = IF numFds <= NumberOf(e) THEN NumberOf(e) + 1 ELSE numFds
    BY DEF WaitForFd, Goes
  <1>4. Consistent(vm') /\ LocksAgree(vm')
    BY <1>1, <1>2, <1>3, EventWaitConsistent
  <1>5. vm'.waiting = [vm.waiting EXCEPT ![e] = Append(@, t)]
    <2>1. e \in Queues /\ "Waiting" \in {"Blocked", "Waiting"} /\ e \notin Locks
      BY QueuesDisjoint DEF Queues
    <2>2. Enqueue(vm, t, e, "Waiting").waiting = [vm.waiting EXCEPT ![e] = Append(@, t)]
      BY <1>1, <1>2, <2>1, EnqueueConsistent
    <2> QED BY <1>3, <2>2 DEF EventWait
  <1>6. Watching'
    <2>1. NumberOf(e) \in Nat /\ \A f \in watched : NumberOf(f) \in Nat
      BY <1>1, EventsAssumption DEF Watching
    <2>2. watched' \subseteq Events /\ numFds' \in Nat
      BY <1>1, <1>3, <2>1 DEF Watching
    <2>3. \A f \in watched' : NumberOf(f) < numFds'
      BY <1>1, <1>3, <2>1 DEF Watching
    <2>4. ASSUME NEW f \in Events, vm'.waiting[f] # <<>>, f # e PROVE f \in watched'
      <3>1. vm'.waiting[f] = vm.waiting[f]
        BY <1>1, <1>5, <2>4 DEF Consistent, VMStates, Queues
      <3> QED BY <1>1, <1>3, <2>4, <3>1 DEF Watching
    <2> QED BY <1>3, <2>2, <2>3, <2>4 DEF Watching
  <1>7. SliceRuns' /\ Outside'
    BY <1>3 DEF SliceRuns, InSlice, Outside
  <1> QED BY <1>4, <1>6, <1>7 DEF DriverInv

LEMMA StopsInv ==
  ASSUME DriverInv, Stops
  PROVE  DriverInv'
  <1> DEFINE t == vm.current
  <1>1. Consistent(vm) /\ LocksAgree(vm) /\ Watching /\ vm \in VMStates
    BY DEF DriverInv, Consistent
  <1>2. t \in Threads /\ vm.status[t] = "Running" /\ vm.fault = "none"
    BY DEF DriverInv, SliceRuns, InSlice, Stops, Goes
  <1>3. at' = "pausing" /\ UNCHANGED fdVars
    BY DEF Stops, Goes
  <1>4. Consistent(vm') /\ SameLocks(vm', vm) /\ NobodyComes(vm', vm)
    <2>1. CASE vm' = [ThreadKill(vm, t) EXCEPT !.status[t] = "Exited"]
      <3>1. "Killed" \in {"Killed", "Exited"}
        OBVIOUS
      <3>2. Consistent(vm') /\ SameLocks(vm', vm)
        BY <1>1, <1>2, <2>1, <3>1, ThreadKillConsistent
      <3> QED BY <1>1, <1>2, <2>1, <3>2, KillKeepsQueues
    <2>2. CASE vm' = ThreadDebuggered(vm, t)
      <3>1. Consistent(vm') /\ SameLocks(vm', vm)
        BY <1>1, <1>2, <2>2, ThreadDebuggeredConsistent
      <3>2. vm'.waiting = vm.waiting
        BY <1>1, <1>2, <2>2, RingKeepsQueues
      <3> QED BY <3>1, <3>2 DEF NobodyComes
    <2> QED BY <2>1, <2>2 DEF Stops
  <1>5. LocksAgree(vm')
    BY <1>1, <1>4, SameLocksAgree
  <1>6. SliceRuns' /\ Outside' /\ Watching'
    BY <1>1, <1>3, <1>4, StaysWatched DEF SliceRuns, InSlice, Outside
  <1> QED BY <1>4, <1>5, <1>6 DEF DriverInv

LEMMA TestInv ==
  ASSUME DriverInv, Test
  PROVE  DriverInv'
  <1>1. Consistent(vm) /\ LocksAgree(vm) /\ Watching /\ Outside /\ vm \in VMStates
    BY DEF DriverInv, Consistent
  <1>2. vm' \in {vm, [vm EXCEPT !.current = NoThread]} /\ UNCHANGED fdVars
    BY DEF Test
  <1>3. Consistent(vm') /\ LocksAgree(vm')
    BY <1>1, <1>2, NoCurrentConsistent
  <1>4. NobodyComes(vm', vm)
    BY <1>1, <1>2 DEF NobodyComes, VMStates
  <1>5. at' \in {"poll", "prompt"} /\ at = "test" /\ UNCHANGED <<inside, early>>
    BY DEF Test, Goes
  <1>6. SliceRuns' /\ Outside'
    BY <1>1, <1>5 DEF SliceRuns, InSlice, Outside
  <1> QED BY <1>1, <1>2, <1>3, <1>4, <1>6, StaysWatched DEF DriverInv

(* A command at the prompt. *)
LEMMA CommandInv ==
  ASSUME DriverInv, Command
  PROVE  DriverInv'
  <1>1. Consistent(vm) /\ LocksAgree(vm) /\ Watching /\ Outside /\ vm \in VMStates
        /\ vm.fault = "none"
    BY DEF DriverInv, Consistent, Command
  <1>2. /\ at = "prompt" /\ at' \in {"prompt", "poll"}
        /\ UNCHANGED <<fdVars, inside, early>>
    BY DEF Command, signalVars
  <1>3. Consistent(vm') /\ SameLocks(vm', vm) /\ NobodyComes(vm', vm)
    <2>1. ASSUME NEW t \in Threads, vm' = ThreadKill(vm, t)
          PROVE  Consistent(vm') /\ SameLocks(vm', vm) /\ NobodyComes(vm', vm)
      <3>1. "Killed" \in {"Killed", "Exited"}
        OBVIOUS
      <3>2. Consistent(vm') /\ SameLocks(vm', vm)
        BY <1>1, <2>1, <3>1, ThreadKillConsistent
      <3> QED BY <1>1, <2>1, <3>2, KillKeepsQueues
    <2>2. ASSUME NEW t \in Threads, vm' = ThreadStop(vm, t)
          PROVE  Consistent(vm') /\ SameLocks(vm', vm) /\ NobodyComes(vm', vm)
      <3>1. Consistent(vm') /\ SameLocks(vm', vm)
        BY <1>1, <2>2, ThreadStopConsistent
      <3>2. vm'.waiting = vm.waiting
        BY <1>1, <2>2, RingKeepsQueues
      <3> QED BY <3>1, <3>2 DEF NobodyComes
    <2>3. ASSUME NEW t \in Threads, vm' = ThreadRestart(vm, t)
          PROVE  Consistent(vm') /\ SameLocks(vm', vm) /\ NobodyComes(vm', vm)
      <3>1. Consistent(vm') /\ SameLocks(vm', vm)
        BY <1>1, <2>3, ThreadRestartConsistent
      <3>2. vm'.waiting = vm.waiting
        BY <1>1, <2>3, RingKeepsQueues
      <3> QED BY <3>1, <3>2 DEF NobodyComes
    <2>4. CASE vm' = vm
      BY <1>1, <2>4 DEF SameLocks, NobodyComes
    <2>5. CASE vm' = [vm EXCEPT !.fault = "crash"]
      <3>1. "crash" \in {"none", "hang", "crash"}
        OBVIOUS
      <3>2. Consistent(vm') /\ SameLocks(vm', vm)
        BY <1>1, <2>5, <3>1, FaultConsistent
      <3>3. vm'.waiting = vm.waiting
        BY <1>1, <2>5 DEF VMStates
      <3> QED BY <3>2, <3>3 DEF NobodyComes
    <2> QED BY <2>1, <2>2, <2>3, <2>4, <2>5 DEF Command, Live
  <1>4. LocksAgree(vm')
    BY <1>1, <1>3, SameLocksAgree
  <1>5. SliceRuns' /\ Outside' /\ Watching'
    BY <1>1, <1>2, <1>3, StaysWatched DEF SliceRuns, InSlice, Outside
  <1> QED BY <1>3, <1>4, <1>5 DEF DriverInv

-----------------------------------------------------------------------------
LEMMA DriverInductive == DriverInv /\ [DriverNext]_driverVars => DriverInv'
  <1> SUFFICES ASSUME DriverInv, [DriverNext]_driverVars PROVE DriverInv'
    OBVIOUS
  <1>1. CASE UNCHANGED driverVars
    BY <1>1 DEF driverVars, loopVars, signalVars, fdVars, DriverInv, SliceRuns, InSlice,
                Watching, Outside
  <1>2. ASSUME DriverStep PROVE DriverInv'
    <2>1. ASSUME NEW e \in Events, WaitForFd(e) PROVE DriverInv'
      BY <2>1, WaitForFdInv
    <2> QED BY <1>2, <2>1, LoopInv, PollInv, PickInv, ComputesInv, StopsInv, TestInv
            DEF DriverStep
  <1> QED BY <1>1, <1>2, LoopInv, CommandInv DEF DriverNext

LEMMA DriverStarts == DriverInit => DriverInv
  <1> SUFFICES ASSUME DriverInit PROVE DriverInv
    OBVIOUS
  <1>1. Consistent(vm) /\ LocksAgree(vm)
    BY InitIInv DEF DriverInit, IInv
  <1>2. \A e \in Events : vm.waiting[e] = <<>>
    <2>1. PICK t \in Threads : vm = ThreadRestart(ThreadMake(EmptyVM, t), t)
      BY DEF DriverInit, Init
    <2>2. EmptyVM \in VMStates /\ \A e \in Events : EmptyVM.waiting[e] = <<>>
      <3>1. Consistent(EmptyVM)
        BY EmptyConsistent
      <3>2. \A e \in Events : EmptyVM.waiting[e] = <<>>
        BY DEF EmptyVM, Queues
      <3> QED BY <3>1, <3>2 DEF Consistent
    <2> HIDE DEF EmptyVM
    <2>3. ThreadMake(EmptyVM, t).waiting = EmptyVM.waiting /\ ThreadMake(EmptyVM, t) \in VMStates
      BY <2>2, RingKeepsQueues
    <2>4. vm.waiting = EmptyVM.waiting
      BY <2>1, <2>3, RingKeepsQueues
    <2> QED BY <2>2, <2>4
  <1> QED BY <1>1, <1>2 DEF DriverInit, DriverInv, SliceRuns, InSlice, Watching, Outside

(* The loop of do_stuff, the signals that strike in it and the commands of *)
(* the prompt keep the thread tables consistent and the descriptors of all *)
(* waiters watched, below NumFds.                                          *)
THEOREM DriverInvariance == DriverSpec => []DriverInv
  BY DriverStarts, DriverInductive, PTL DEF DriverSpec

(* wait_for_fd and check_fds: whoever waits for a descriptor waits for one *)
(* that the next select looks at, whatever select has reported, closed     *)
(* descriptors and a lowered NumFds included.                              *)
THEOREM NoWaiterForgotten == DriverSpec => []WaitersAreWatched
  <1>1. DriverInv => WaitersAreWatched
    BY DEF DriverInv, Watching, WaitersAreWatched, Selected
  <1> QED BY <1>1, DriverInvariance, PTL

(* InInterpreter is clear whenever the loop turns or the prompt shows, so  *)
(* the assertion of do_stuff holds, unless a SIGINT struck between the     *)
(* assignment of InInterpreter and the handler.                            *)
THEOREM InterpreterLeft == DriverSpec => []NotInsideYet
  <1>1. DriverInv => NotInsideYet
    BY DEF DriverInv, Outside, NotInsideYet
  <1> QED BY <1>1, DriverInvariance, PTL

(* What a slice resumes is a thread that may run, from the handler being   *)
(* set to the last operation of the slice.                                 *)
THEOREM SliceHasAThread == DriverSpec => []SliceRuns
  <1>1. DriverInv => SliceRuns
    BY DEF DriverInv
  <1> QED BY <1>1, DriverInvariance, PTL

-----------------------------------------------------------------------------
(***************************************************************************)
(* The debugger's changes of the thread tables.                            *)
(***************************************************************************)
(* The threads that are alive can be counted through. *)
Bounded(s) == \E n \in Nat : \A t \in Live(s) : t <= n

LEMMA GreatestOf ==
  ASSUME NEW S \in SUBSET Nat, NEW x \in S, NEW n \in Nat, \A y \in S : y <= n
  PROVE  Max(S) \in S /\ \A y \in S : y <= Max(S)
  <1> DEFINE T == {k \in Nat : \A y \in S : y <= k}
             Greatest(k) == \A y \in S : k >= y
  <1>1. T \in SUBSET Nat /\ n \in T
    OBVIOUS
  <1>2. PICK k \in T : \A m \in T : k <= m
    BY <1>1, LeastNat
  <1>3. k \in S
    <2>1. SUFFICES ASSUME k \notin S PROVE FALSE
      OBVIOUS
    <2>2. \A y \in S : y < k
      BY <1>2, <2>1
    <2>3. k - 1 \in T
      BY <1>2, <2>2
    <2> QED BY <1>2, <2>3
  <1>4. Greatest(k)
    BY <1>2
  <1>5. Max(S) = CHOOSE m \in S : Greatest(m)
    BY DEF Max
  <1> HIDE DEF Greatest
  <1>6. Max(S) \in S /\ Greatest(Max(S))
    BY <1>3, <1>4, <1>5
  <1> QED BY <1>6 DEF Greatest

LEMMA OldestFirstRight ==
  ASSUME NEW ts \in SUBSET Threads, NEW n \in Nat, \A t \in ts : t <= n
  PROVE  /\ OldestFirst(ts) \in Seq(Threads)
         /\ IsQueue(OldestFirst(ts))
         /\ Range(OldestFirst(ts)) = ts
  <1> DEFINE S == ts \cup {0}
             m == Max(S)
             ids == [i \in 1..(m + 1) |-> i - 1]
             q == OldestFirst(ts)
  <1>1. S \in SUBSET Nat /\ 0 \in S /\ \A y \in S : y <= n
    BY ThreadsAssumption
  <1>2. m \in S /\ \A y \in S : y <= m
    <2> HIDE DEF S
    <2> QED BY <1>1, GreatestOf
  <1>3. m \in Nat /\ \A t \in ts : t \in 0..m
    BY <1>1, <1>2
  <1> HIDE DEF m
  <1>4. ids \in Seq(Nat) /\ IsQueue(ids)
    BY <1>3 DEF IsQueue, IsInjective
  <1>5. \A t \in ts : t \in Range(ids)
    <2> SUFFICES ASSUME NEW t \in ts PROVE t \in Range(ids)
      OBVIOUS
    <2>1. t + 1 \in DOMAIN ids /\ ids[t + 1] = t
      BY <1>3
    <2> QED BY <2>1 DEF Range
  <1>6. q = SubQueue(ids, ts)
    BY DEF OldestFirst, m
  <1> HIDE DEF ids, q
  <1>7. q \in Seq(Nat) /\ IsQueue(q) /\ Range(q) = Range(ids) \cap ts
    BY <1>4, <1>6, SubQueueIsQueue
  <1>8. Range(q) = ts
    BY <1>5, <1>7
  <1>9. q \in Seq(Threads)
    <2>1. \A i \in 1..Len(q) : q[i] \in Threads
      BY <1>7, <1>8, InQueue
    <2> QED BY <1>7, <2>1
  <1> QED BY <1>7, <1>8, <1>9 DEF q

(* What suspending or restarting the others leaves alone. *)
SameBut(r, s) ==
  /\ r.waiting = s.waiting /\ r.datum = s.datum
  /\ r.locked = s.locked /\ r.owners = s.owners
  /\ r.current = s.current /\ r.fault = s.fault

LEMMA SuspendOthersRight ==
  ASSUME NEW s, Consistent(s), NEW t \in Threads
  PROVE  /\ Consistent(SuspendOthers(s, t))
         /\ SameBut(SuspendOthers(s, t), s)
         /\ Live(SuspendOthers(s, t)) = Live(s)
         /\ SuspendOthers(s, t).status[t] = s.status[t]
         /\ \A u \in Threads : SuspendOthers(s, t).suspendCount[u] =
              IF u \in Live(s) \ {t} THEN s.suspendCount[u] + 1 ELSE s.suspendCount[u]
  <1> DEFINE others == Live(s) \ {t}
             stopped == {u \in others : s.suspendCount[u] = 0 /\ s.status[u] = "Running"}
             ring == SubQueue(s.runnable, Threads \ stopped)
             status == [u \in Threads |-> IF u \in stopped THEN "Suspended" ELSE s.status[u]]
             count == [u \in Threads |-> IF u \in others THEN s.suspendCount[u] + 1
                                         ELSE s.suspendCount[u]]
             r == SuspendOthers(s, t)
  <1>1. s \in VMStates
    BY DEF Consistent
  <1>2. r = [s EXCEPT !.runnable = ring, !.status = status, !.suspendCount = count]
    BY <1>1 DEF SuspendOthers, VMStates
  <1>3. /\ s.runnable \in Seq(Threads) /\ IsQueue(s.runnable)
        /\ Range(s.runnable) \subseteq Threads
    BY Lists, InQueue
  <1>4. ring \in Seq(Threads) /\ IsQueue(ring) /\ Range(ring) = Range(s.runnable) \ stopped
    <2>1. Range(s.runnable) \cap (Threads \ stopped) = Range(s.runnable) \ stopped
      BY <1>3
    <2> HIDE DEF stopped
    <2> QED BY <1>3, <2>1, SubQueueIsQueue
  <1>5. status \in [Threads -> Statuses] /\ count \in [Threads -> Nat]
    BY <1>1 DEF VMStates, Statuses, LiveStatuses
  <1>6. \A u \in Threads :
          /\ status[u] = IF u \in stopped THEN "Suspended" ELSE s.status[u]
          /\ count[u] = IF u \in others THEN s.suspendCount[u] + 1 ELSE s.suspendCount[u]
          /\ s.suspendCount[u] \in Nat
          /\ u \in stopped => u \in others /\ s.status[u] = "Running" /\ u # t
          /\ u \in others <=> s.status[u] \in LiveStatuses /\ u # t
          /\ u \in others /\ s.status[u] = "Running" => u \in stopped
    BY <1>1, Lists DEF Live, VMStates
  <1> HIDE DEF ring, status, count, r, stopped, others
  <1>7. /\ r \in VMStates /\ SameBut(r, s)
        /\ r.runnable = ring /\ r.status = status /\ r.suspendCount = count
    BY <1>1, <1>2, <1>4, <1>5 DEF VMStates, SameBut
  <1>8. OnRing(r)
    <2>1. \A u \in Threads : u \in Range(r.runnable) <=> r.status[u] = "Running"
      BY <1>4, <1>6, <1>7, Lists
    <2> QED BY <1>4, <1>7, <2>1 DEF OnRing
  <1>9. OnQueue(r)
    <2>1. \A u \in Threads, o \in Queues : WaitsFor(r, u, o) <=> WaitsFor(s, u, o)
      BY <1>6, <1>7 DEF WaitsFor, SameBut
    <2> QED BY <1>7, <2>1, Lists DEF OnQueue, SameBut
  <1>10. CountsAgree(r)
    <2>1. \A u \in Threads : /\ s.status[u] = "Running" => s.suspendCount[u] = 0
                             /\ s.status[u] = "Suspended" => s.suspendCount[u] > 0
      BY Lists
    <2>2. "Running" \in LiveStatuses
      BY DEF LiveStatuses
    <2>3. ASSUME NEW u \in Threads
          PROVE  /\ status[u] = "Running" => count[u] = 0
                 /\ status[u] = "Suspended" => count[u] > 0
      <3>1. CASE u \in stopped
        BY <1>6, <2>1, <3>1
      <3>2. CASE u \notin stopped /\ u \in others
        BY <1>6, <2>1, <3>2
      <3>3. CASE u \notin stopped /\ u \notin others
        BY <1>6, <2>1, <3>3
      <3> QED BY <3>1, <3>2, <3>3
    <2> QED BY <1>7, <2>3 DEF CountsAgree
  <1>11. Live(r) = Live(s)
    <2>1. "Suspended" \in LiveStatuses /\ "Running" \in LiveStatuses
      BY DEF LiveStatuses
    <2>2. \A u \in Threads : r.status[u] \in LiveStatuses <=> s.status[u] \in LiveStatuses
      BY <1>6, <1>7, <2>1
    <2> QED BY <2>2 DEF Live
  <1>12. Consistent(r)
    BY <1>7, <1>8, <1>9, <1>10 DEF Consistent
  <1>13. r.status[t] = s.status[t]
    BY <1>6, <1>7
  <1>14. \A u \in Threads : r.suspendCount[u] =
           IF u \in Live(s) \ {t} THEN s.suspendCount[u] + 1 ELSE s.suspendCount[u]
    BY <1>6, <1>7 DEF others
  <1> QED BY <1>7, <1>11, <1>12, <1>13, <1>14 DEF r

LEMMA RestartOthersRight ==
  ASSUME NEW s, Consistent(s), Bounded(s), NEW t
  PROVE  /\ Consistent(RestartOthers(s, t))
         /\ SameBut(RestartOthers(s, t), s)
         /\ KeepsRunning(RestartOthers(s, t), s)
         /\ Live(RestartOthers(s, t)) = Live(s)
         /\ t \in Threads => /\ RestartOthers(s, t).status[t] = s.status[t]
                             /\ RestartOthers(s, t).suspendCount[t] = s.suspendCount[t]
         /\ \A u \in Live(s) \ {t} : RestartOthers(s, t).suspendCount[u] =
              IF s.suspendCount[u] > 0 THEN s.suspendCount[u] - 1 ELSE 0
  <1> DEFINE counted == {u \in Live(s) \ {t} : s.suspendCount[u] > 0}
             woken == {u \in counted : s.suspendCount[u] = 1 /\ s.status[u] = "Suspended"}
             oldest == OldestFirst(woken)
             ring == s.runnable \o oldest
             status == [u \in Threads |-> IF u \in woken THEN "Running" ELSE s.status[u]]
             count == [u \in Threads |-> IF u \in counted THEN s.suspendCount[u] - 1
                                         ELSE s.suspendCount[u]]
             r == RestartOthers(s, t)
  <1>1. s \in VMStates
    BY DEF Consistent
  <1>2. r = [s EXCEPT !.runnable = ring, !.status = status, !.suspendCount = count]
    BY <1>1 DEF RestartOthers, VMStates
  <1>3. /\ s.runnable \in Seq(Threads) /\ IsQueue(s.runnable)
        /\ Range(s.runnable) \subseteq Threads
    BY Lists, InQueue
  <1>4. oldest \in Seq(Threads) /\ IsQueue(oldest) /\ Range(oldest) = woken
    <2>1. PICK n \in Nat : \A u \in Live(s) : u <= n
      BY DEF Bounded
    <2>2. woken \in SUBSET Threads /\ \A u \in woken : u <= n
      BY <2>1 DEF Live
    <2> HIDE DEF woken
    <2> QED BY <2>2, OldestFirstRight
  <1> HIDE DEF oldest
  <1>5. status \in [Threads -> Statuses] /\ count \in [Threads -> Nat]
    <2>1. \A u \in Threads : s.suspendCount[u] \in Nat /\ s.status[u] \in Statuses
      BY <1>1 DEF VMStates
    <2> QED BY <2>1 DEF Statuses, LiveStatuses
  <1>6. \A u \in Threads :
          /\ status[u] = IF u \in woken THEN "Running" ELSE s.status[u]
          /\ count[u] = IF u \in counted THEN s.suspendCount[u] - 1 ELSE s.suspendCount[u]
          /\ s.suspendCount[u] \in Nat
          /\ u \in counted <=> s.status[u] \in LiveStatuses /\ u # t /\ s.suspendCount[u] > 0
          /\ u \in woken <=> u \in counted /\ s.suspendCount[u] = 1 /\ s.status[u] = "Suspended"
    BY <1>1 DEF Live, VMStates
  <1>7. ring \in Seq(Threads) /\ IsQueue(ring) /\ Range(ring) = Range(s.runnable) \cup woken
    <2>1. Range(s.runnable) \cap Range(oldest) = {}
      BY <1>3, <1>4, <1>6, Lists
    <2> QED BY <1>3, <1>4, <2>1, JoinQueues
  <1> HIDE DEF ring, status, count, r, woken, counted
  <1>8. /\ r \in VMStates /\ SameBut(r, s)
        /\ r.runnable = ring /\ r.status = status /\ r.suspendCount = count
    BY <1>1, <1>2, <1>5, <1>7 DEF VMStates, SameBut
  <1>9. OnRing(r)
    <2>1. \A u \in Threads : u \in Range(r.runnable) <=> r.status[u] = "Running"
      BY <1>6, <1>7, <1>8, Lists
    <2> QED BY <1>7, <1>8, <2>1 DEF OnRing
  <1>10. OnQueue(r)
    <2>1. \A u \in Threads, o \in Queues : WaitsFor(r, u, o) <=> WaitsFor(s, u, o)
      BY <1>6, <1>8 DEF WaitsFor, SameBut
    <2> QED BY <1>8, <2>1, Lists DEF OnQueue, SameBut
  <1>11. CountsAgree(r)
    <2>1. \A u \in Threads : /\ s.status[u] = "Running" => s.suspendCount[u] = 0
                             /\ s.status[u] = "Suspended" => s.suspendCount[u] > 0
      BY Lists
    <2>2. "Suspended" \in LiveStatuses
      BY DEF LiveStatuses
    <2>3. ASSUME NEW u \in Threads
          PROVE  /\ status[u] = "Running" => count[u] = 0
                 /\ status[u] = "Suspended" => count[u] > 0
      <3>1. CASE u \in woken
        BY <1>6, <2>1, <3>1
      <3>2. CASE u \notin woken /\ u \in counted
        BY <1>6, <2>1, <3>2
      <3>3. CASE u \notin woken /\ u \notin counted
        BY <1>6, <2>1, <3>3
      <3> QED BY <3>1, <3>2, <3>3
    <2> QED BY <1>8, <2>3 DEF CountsAgree
  <1>12. Live(r) = Live(s)
    <2>1. "Suspended" \in LiveStatuses /\ "Running" \in LiveStatuses
      BY DEF LiveStatuses
    <2>2. \A u \in Threads : r.status[u] \in LiveStatuses <=> s.status[u] \in LiveStatuses
      BY <1>6, <1>8, <2>1
    <2> QED BY <2>2 DEF Live
  <1>13. Consistent(r)
    BY <1>8, <1>9, <1>10, <1>11 DEF Consistent
  <1>14. KeepsRunning(r, s)
    BY <1>6, <1>8 DEF KeepsRunning
  <1>15. t \in Threads => r.status[t] = s.status[t] /\ r.suspendCount[t] = s.suspendCount[t]
    BY <1>6, <1>8
  <1>16. \A u \in Live(s) \ {t} : r.suspendCount[u] =
           IF s.suspendCount[u] > 0 THEN s.suspendCount[u] - 1 ELSE 0
    BY <1>6, <1>8 DEF Live
  <1> QED BY <1>8, <1>12, <1>13, <1>14, <1>15, <1>16 DEF r

(***************************************************************************)
(* Escape frames.                                                          *)
(***************************************************************************)
LEMMA PushEscapeRight ==
  ASSUME NEW s, Consistent(s), s.fault = "none", NEW t \in Live(s)
  PROVE  /\ Consistent(PushEscape(s, t))
         /\ SameLocks(PushEscape(s, t), s)
         /\ PushEscape(s, t).current = s.current
         /\ Live(PushEscape(s, t)) = Live(s)
         /\ PushEscape(s, t).fault = "none" =>
              /\ OthersSame(PushEscape(s, t), s, t)
              /\ PushEscape(s, t).status[t] = "Suspended"
              /\ PushEscape(s, t).suspendCount[t] = 1
  <1> DEFINE p == Unlink(s, t)
             r == PushEscape(s, t)
  <1>1. s \in VMStates /\ t \in Threads
    BY DEF Consistent, Live
  <1>2. CASE OffItsList(p, s, t)
    <2>1. p.fault = "none" /\ p \in VMStates
      BY <1>2 DEF OffItsList
    <2> HIDE DEF p
    <2> DEFINE a == [p EXCEPT !.status[t] = "Suspended"]
               b == [a EXCEPT !.suspendCount[t] = 1]
    <2>2. r = [b EXCEPT !.datum[t] = NoObj]
      BY <2>1 DEF PushEscape, p, VMStates
    <2>3. /\ a \in VMStates /\ a.status = [s.status EXCEPT ![t] = "Suspended"]
          /\ a.suspendCount = s.suspendCount /\ a.fault = "none"
          /\ a.locked = s.locked /\ a.owners = s.owners /\ a.current = s.current
          /\ a.datum = p.datum /\ a.runnable = p.runnable /\ a.waiting = p.waiting
      BY <1>2 DEF OffItsList, VMStates, Statuses, LiveStatuses
    <2> HIDE DEF a
    <2>4. /\ b \in VMStates /\ b.status = a.status
          /\ b.suspendCount = [s.suspendCount EXCEPT ![t] = 1] /\ b.fault = "none"
          /\ b.locked = s.locked /\ b.owners = s.owners /\ b.current = s.current
          /\ b.datum = p.datum /\ b.runnable = p.runnable /\ b.waiting = p.waiting
      BY <2>3 DEF VMStates
    <2> HIDE DEF b, r
    <2>5. /\ r \in VMStates /\ r.status = [s.status EXCEPT ![t] = "Suspended"]
          /\ r.suspendCount = [s.suspendCount EXCEPT ![t] = 1] /\ r.fault = "none"
          /\ r.locked = s.locked /\ r.owners = s.owners /\ r.current = s.current
          /\ r.datum = [p.datum EXCEPT ![t] = NoObj]
          /\ r.runnable = p.runnable /\ r.waiting = p.waiting
      BY <2>2, <2>3, <2>4 DEF VMStates
    <2>6. r.status[t] = "Suspended" /\ r.suspendCount[t] = 1
      BY <1>1, <2>5 DEF VMStates
    <2>7. OthersSame(r, s, t)
      BY <1>1, <1>2, <2>1, <2>5 DEF OthersSame, OffItsList, VMStates
    <2>8. /\ IsQueue(r.runnable)
          /\ t \in Range(r.runnable) <=> r.status[t] = "Running"
          /\ \A u \in Threads \ {t} : u \in Range(r.runnable) <=> u \in Range(s.runnable)
      BY <1>2, <2>5, <2>6 DEF OffItsList
    <2>9. \A o \in Queues :
            /\ IsQueue(r.waiting[o])
            /\ t \in Range(r.waiting[o]) <=> WaitsFor(r, t, o)
            /\ \A u \in Threads \ {t} :
                 u \in Range(r.waiting[o]) <=> u \in Range(s.waiting[o])
      BY <1>2, <2>5, <2>6 DEF OffItsList, WaitsFor
    <2>a. /\ r.status[t] = "Running" => r.suspendCount[t] = 0
          /\ r.status[t] = "Suspended" => r.suspendCount[t] > 0
      BY <2>6
    <2>b. r \in VMStates /\ t \in Threads
      BY <1>1, <2>5
    <2>10. Consistent(r)
      BY <2>7, <2>8, <2>9, <2>a, <2>b, MoveConsistent
    <2>11. SameLocks(r, s)
      BY <1>2, <2>5 DEF SameLocks, OffItsList, Queues
    <2>12. Live(r) = Live(s)
      <3>1. \A u \in Threads : r.status[u] \in LiveStatuses <=> s.status[u] \in LiveStatuses
        <4>1. "Suspended" \in LiveStatuses /\ s.status[t] \in LiveStatuses
          BY DEF Live, LiveStatuses
        <4> QED BY <2>6, <2>7, <4>1 DEF OthersSame
      <3> QED BY <3>1 DEF Live
    <2> QED BY <2>5, <2>6, <2>7, <2>10, <2>11, <2>12 DEF r
  <1>3. ASSUME NEW x \in {"hang", "crash"}, p = [s EXCEPT !.fault = x]
        PROVE  /\ Consistent(r) /\ SameLocks(r, s)
               /\ r.current = s.current /\ Live(r) = Live(s) /\ r.fault # "none"
    <2>1. r = [s EXCEPT !.fault = x]
      BY <1>1, <1>3 DEF PushEscape, VMStates
    <2>2. r.fault = x /\ r.current = s.current /\ r.status = s.status
      BY <1>1, <2>1 DEF VMStates
    <2> HIDE DEF r
    <2>3. Consistent(r) /\ SameLocks(r, s)
      BY <2>1, FaultConsistent
    <2>4. Live(r) = Live(s) /\ r.fault # "none"
      BY <2>2 DEF Live
    <2> QED BY <2>2, <2>3, <2>4
  <1> HIDE DEF r, p
  <1>4. OffItsList(p, s, t) \/ \E x \in {"hang", "crash"} : p = [s EXCEPT !.fault = x]
    BY <1>1, UnlinkOff DEF p
  <1>5. ASSUME \E x \in {"hang", "crash"} : p = [s EXCEPT !.fault = x]
        PROVE  /\ Consistent(r) /\ SameLocks(r, s)
               /\ r.current = s.current /\ Live(r) = Live(s) /\ r.fault # "none"
    BY <1>3, <1>5
  <1> QED BY <1>2, <1>4, <1>5 DEF r

EscapeStatuses == {"Running", "Suspended", "Debuggered", "Waiting"}

(* An escape frame that thread_pop_escape can restore. *)
RightEscape(e) ==
  /\ e.status \in EscapeStatuses
  /\ e.datum \in Queues \cup {NoObj}
  /\ e.count \in Nat
  /\ e.status = "Suspended" => e.count > 0

LEMMA PopEscapeRight ==
  ASSUME NEW s, Consistent(s), NEW t \in Threads, s.status[t] = "Running",
         NEW e, RightEscape(e)
  PROVE  /\ Consistent(PopEscape(s, t, e))
         /\ SameLocks(PopEscape(s, t, e), s)
         /\ OthersSame(PopEscape(s, t, e), s, t)
         /\ PopEscape(s, t, e).current = s.current
         /\ PopEscape(s, t, e).fault = s.fault
         /\ Live(PopEscape(s, t, e)) = Live(s)
         /\ PopEscape(s, t, e).status[t] = IF e.status = "Waiting" THEN "Running" ELSE e.status
         /\ PopEscape(s, t, e).suspendCount[t] =
              IF e.status = "Suspended" THEN e.count ELSE 0
  <1> DEFINE a == [s EXCEPT !.status[t] = e.status]
             restored == [a EXCEPT !.datum[t] = e.datum]
             offRing == [restored EXCEPT !.runnable = Without(@, t)]
             r == PopEscape(s, t, e)
  <1>1. s \in VMStates /\ s.suspendCount[t] = 0 /\ s.status \in [Threads -> Statuses]
    BY Lists DEF Consistent, VMStates
  <1>2. /\ e.status \in EscapeStatuses /\ e.datum \in Queues \cup {NoObj} /\ e.count \in Nat
        /\ e.status = "Suspended" => e.count > 0
        /\ EscapeStatuses \subseteq Statuses \ {"Blocked"}
    BY DEF RightEscape, EscapeStatuses, Statuses, LiveStatuses
  <1>3. /\ s.runnable \in Seq(Threads) /\ IsQueue(s.runnable) /\ t \in Range(s.runnable)
        /\ \A o \in Queues : s.waiting[o] \in Seq(Threads) /\ IsQueue(s.waiting[o])
        /\ \A o \in Queues : t \notin Range(s.waiting[o])
    BY Lists DEF WaitsFor
  <1>4. /\ Without(s.runnable, t) \in Seq(Threads) /\ IsQueue(Without(s.runnable, t))
        /\ Range(Without(s.runnable, t)) = Range(s.runnable) \ {t}
    BY <1>3, WithoutQueue
  <1>5. /\ a \in VMStates /\ a.status = [s.status EXCEPT ![t] = e.status]
        /\ SameBut(a, s) /\ a.suspendCount = s.suspendCount /\ a.runnable = s.runnable
    BY <1>1, <1>2 DEF VMStates, SameBut
  <1> HIDE DEF a
  <1>6. /\ restored \in VMStates /\ restored.status = [s.status EXCEPT ![t] = e.status]
        /\ restored.datum = [s.datum EXCEPT ![t] = e.datum]
        /\ restored.waiting = s.waiting /\ restored.locked = s.locked
        /\ restored.owners = s.owners /\ restored.current = s.current
        /\ restored.fault = s.fault
        /\ restored.suspendCount = s.suspendCount /\ restored.runnable = s.runnable
    BY <1>2, <1>5 DEF VMStates, SameBut
  <1>7. restored = [s EXCEPT !.status[t] = e.status, !.datum[t] = e.datum]
    BY <1>1 DEF a, VMStates
  <1> HIDE DEF restored
  <1>8. /\ offRing \in VMStates /\ offRing.status = restored.status
        /\ offRing.datum = restored.datum
        /\ offRing.waiting = s.waiting /\ offRing.locked = s.locked
        /\ offRing.owners = s.owners /\ offRing.current = s.current
        /\ offRing.fault = s.fault
        /\ offRing.suspendCount = s.suspendCount
        /\ offRing.runnable = Without(s.runnable, t)
    BY <1>4, <1>6 DEF VMStates
  <1> HIDE DEF offRing
  <1>9. r = CASE e.status = "Running" -> restored
              [] e.status = "Suspended" -> [offRing EXCEPT !.suspendCount[t] = e.count]
              [] e.status = "Debuggered" -> offRing
              [] e.status = "Waiting" -> [restored EXCEPT !.status[t] = "Running"]
    BY <1>2, <1>7 DEF PopEscape, offRing, EscapeStatuses
  <1> DEFINE x == IF e.status = "Waiting" THEN "Running" ELSE e.status
             n == IF e.status = "Suspended" THEN e.count ELSE 0
  <1>10. /\ r \in VMStates
         /\ r.status = [s.status EXCEPT ![t] = x]
         /\ r.datum = [s.datum EXCEPT ![t] = e.datum]
         /\ r.suspendCount = [s.suspendCount EXCEPT ![t] = n]
         /\ r.runnable = IF x = "Running" THEN s.runnable ELSE Without(s.runnable, t)
         /\ r.waiting = s.waiting /\ r.locked = s.locked /\ r.owners = s.owners
         /\ r.current = s.current /\ r.fault = s.fault
    <2>1. [s.suspendCount EXCEPT ![t] = 0] = s.suspendCount
      BY <1>1 DEF VMStates
    <2>2. CASE e.status = "Running"
      BY <1>6, <1>9, <2>1, <2>2
    <2>3. CASE e.status = "Suspended"
      <3>1. r = [offRing EXCEPT !.suspendCount[t] = e.count]
        BY <1>9, <2>3
      <3>2. n = e.count /\ x = "Suspended"
        BY <2>3
      <3> HIDE DEF r
      <3> QED BY <1>2, <1>6, <1>8, <2>3, <3>1, <3>2 DEF VMStates
    <2>4. CASE e.status = "Debuggered"
      BY <1>6, <1>8, <1>9, <2>1, <2>4
    <2>5. CASE e.status = "Waiting"
      <3>1. r = [restored EXCEPT !.status[t] = "Running"]
        BY <1>9, <2>5
      <3>2. [restored.status EXCEPT ![t] = "Running"] = [s.status EXCEPT ![t] = "Running"]
        BY <1>1, <1>6
      <3>3. [restored.status EXCEPT ![t] = "Running"] \in [Threads -> Statuses]
        BY <1>1, <3>2 DEF Statuses, LiveStatuses
      <3> HIDE DEF r
      <3>4. /\ r \in VMStates /\ r.status = [restored.status EXCEPT ![t] = "Running"]
            /\ r.datum = restored.datum /\ r.suspendCount = restored.suspendCount
            /\ r.runnable = restored.runnable /\ r.waiting = restored.waiting
            /\ r.locked = restored.locked /\ r.owners = restored.owners
            /\ r.current = restored.current /\ r.fault = restored.fault
        BY <1>6, <3>1, <3>3 DEF VMStates
      <3> QED BY <1>6, <2>1, <2>5, <3>2, <3>4
    <2> QED BY <1>2, <2>2, <2>3, <2>4, <2>5 DEF EscapeStatuses
  <1> HIDE DEF r
  <1>11. r.status[t] = x /\ r.suspendCount[t] = n /\ OthersSame(r, s, t)
    BY <1>1, <1>10 DEF VMStates, OthersSame
  <1>12. /\ x \in {"Running", "Suspended", "Debuggered"}
         /\ x = "Suspended" => n > 0
         /\ x = "Running" => n = 0
    BY <1>2 DEF EscapeStatuses
  <1> HIDE DEF x, n
  <1>13. /\ IsQueue(r.runnable)
         /\ t \in Range(r.runnable) <=> r.status[t] = "Running"
         /\ \A u \in Threads \ {t} : u \in Range(r.runnable) <=> u \in Range(s.runnable)
    BY <1>3, <1>4, <1>10, <1>11
  <1>14. \A o \in Queues :
           /\ IsQueue(r.waiting[o])
           /\ t \in Range(r.waiting[o]) <=> WaitsFor(r, t, o)
           /\ \A u \in Threads \ {t} :
                u \in Range(r.waiting[o]) <=> u \in Range(s.waiting[o])
    BY <1>3, <1>10, <1>11, <1>12 DEF WaitsFor
  <1>15. Consistent(r)
    BY <1>10, <1>11, <1>12, <1>13, <1>14, MoveConsistent
  <1>16. SameLocks(r, s)
    BY <1>10 DEF SameLocks
  <1>17. Live(r) = Live(s)
    <2>1. x \in LiveStatuses /\ s.status[t] \in LiveStatuses
      BY <1>12 DEF LiveStatuses
    <2>2. \A u \in Threads : r.status[u] \in LiveStatuses <=> s.status[u] \in LiveStatuses
      BY <1>11, <2>1 DEF OthersSame
    <2> QED BY <2>2 DEF Live
  <1> QED BY <1>10, <1>11, <1>15, <1>16, <1>17 DEF r, x, n

(***************************************************************************)
(* What the program does to locks and events changes neither who is alive  *)
(* nor how often anybody is suspended.                                     *)
(***************************************************************************)
SameCounts(r, s) == Live(r) = Live(s) /\ r.suspendCount = s.suspendCount

LEMMA SameCountsTwice ==
  ASSUME NEW s, NEW q, NEW r, SameCounts(q, s), SameCounts(r, q)
  PROVE  SameCounts(r, s)
  BY DEF SameCounts

LEMMA LivesOn ==
  ASSUME NEW s, NEW r, r.suspendCount = s.suspendCount,
         \A u \in Threads :
           r.status[u] = s.status[u]
             \/ (r.status[u] \in LiveStatuses /\ s.status[u] \in LiveStatuses)
  PROVE  SameCounts(r, s)
  BY DEF SameCounts, Live

LEMMA EnqueueKeeps ==
  ASSUME NEW s, Consistent(s), NEW t \in Threads, s.status[t] = "Running",
         NEW o \in Queues, NEW x \in {"Blocked", "Waiting"}
  PROVE  SameCounts(Enqueue(s, t, o, x), s)
  <1> DEFINE r == Enqueue(s, t, o, x)
             p == SuspendThread(s, t)
  <1>1. p \in VMStates /\ p.status = s.status /\ p.suspendCount = s.suspendCount
    BY LeaveRing
  <1> HIDE DEF p
  <1>2. r.suspendCount = s.suspendCount /\ r.status = [s.status EXCEPT ![t] = x]
    BY <1>1 DEF Enqueue, p, VMStates
  <1>3. s.status \in [Threads -> Statuses]
    BY DEF Consistent, VMStates
  <1> HIDE DEF r
  <1>4. \A u \in Threads :
           r.status[u] = s.status[u]
             \/ (r.status[u] \in LiveStatuses /\ s.status[u] \in LiveStatuses)
    BY <1>2, <1>3 DEF LiveStatuses
  <1> QED BY <1>2, <1>4, LivesOn DEF r

LEMMA WakeFirstKeeps ==
  ASSUME NEW s, Consistent(s), NEW o \in Queues, s.waiting[o] # <<>>
  PROVE  SameCounts(WakeFirst(s, o), s)
  <1> DEFINE r == WakeFirst(s, o)
             t == Head(s.waiting[o])
             q == [s EXCEPT !.waiting[o] = Tail(@)]
  <1>1. t \in Threads /\ s.status[t] \in {"Blocked", "Waiting"}
    BY WakeFirstConsistent
  <1>2. s \in VMStates /\ s.status \in [Threads -> Statuses]
    BY DEF Consistent, VMStates
  <1>3. q.status = s.status /\ q.suspendCount = s.suspendCount /\ q.runnable = s.runnable
        /\ DOMAIN q = DOMAIN s
    BY <1>2 DEF VMStates
  <1>4. r = [WakeupThread(q, t) EXCEPT !.datum[t] = NoObj]
    BY DEF WakeFirst
  <1> HIDE DEF q, t
  <1>5. PICK x \in {"Running", "Suspended"} :
          WakeupThread(q, t).status = [s.status EXCEPT ![t] = x]
    BY <1>2, <1>3 DEF WakeupThread, VMStates
  <1>6. WakeupThread(q, t).suspendCount = s.suspendCount
    BY <1>2, <1>3 DEF WakeupThread, VMStates
  <1>7. r.suspendCount = s.suspendCount /\ r.status = [s.status EXCEPT ![t] = x]
    <2>1. {"status", "suspendCount", "datum"} \subseteq DOMAIN WakeupThread(q, t)
      BY <1>2, <1>3 DEF WakeupThread, VMStates
    <2> QED BY <1>4, <1>5, <1>6, <2>1
  <1> HIDE DEF r
  <1>8. \A u \in Threads :
           r.status[u] = s.status[u]
             \/ (r.status[u] \in LiveStatuses /\ s.status[u] \in LiveStatuses)
    BY <1>1, <1>2, <1>7 DEF LiveStatuses
  <1> QED BY <1>7, <1>8, LivesOn DEF r

LEMMA LockGrabKeeps ==
  ASSUME NEW s, Consistent(s), NEW t \in Threads, s.status[t] = "Running", NEW l \in Locks
  PROVE  SameCounts(LockGrab(s, t, l), s)
  <1>1. l \in Queues
    BY DEF Queues
  <1>2. CASE s.locked[l]
    BY <1>1, <1>2, EnqueueKeeps DEF LockGrab
  <1>3. CASE ~ s.locked[l]
    BY <1>3 DEF LockGrab, SameCounts, Live, Consistent, VMStates
  <1> QED BY <1>2, <1>3

LEMMA LockReleaseKeeps ==
  ASSUME NEW s, Consistent(s), NEW t \in Threads, NEW l \in Locks
  PROVE  SameCounts(LockRelease(s, t, l), s)
  <1>1. l \in Queues
    BY DEF Queues
  <1>2. CASE s.waiting[l] # <<>>
    <2> DEFINE w == WakeFirst(s, l)
               who == (w.owners[l] \ {t}) \cup {Head(s.waiting[l])}
    <2>1. SameCounts(w, s) /\ w \in VMStates
      BY <1>1, <1>2, WakeFirstKeeps, WakeFirstConsistent DEF Consistent
    <2>2. LockRelease(s, t, l) = [w EXCEPT !.owners[l] = who]
      BY <1>2, <2>1 DEF LockRelease, VMStates
    <2> HIDE DEF w, who
    <2> QED BY <2>1, <2>2 DEF SameCounts, Live, VMStates
  <1>3. CASE s.waiting[l] = <<>>
    BY <1>3 DEF LockRelease, SameCounts, Live, Consistent, VMStates
  <1> QED BY <1>2, <1>3

LEMMA EventWaitKeeps ==
  ASSUME NEW s, Consistent(s), NEW t \in Threads, s.status[t] = "Running",
         NEW e \in Events, NEW l \in Locks \cup {NoObj}
  PROVE  SameCounts(EventWait(s, t, e, l), s)
  <1> DEFINE q == Enqueue(s, t, e, "Waiting")
  <1>1. e \in Queues /\ e \notin Locks
    BY QueuesDisjoint DEF Queues
  <1>2. SameCounts(q, s)
    BY <1>1, EnqueueKeeps
  <1>3. Consistent(q)
    BY <1>1, EnqueueConsistent
  <1> HIDE DEF q
  <1>4. l \in Locks => SameCounts(LockRelease(q, t, l), q)
    BY <1>3, LockReleaseKeeps
  <1>5. EventWait(s, t, e, l) = IF l = NoObj THEN q ELSE LockRelease(q, t, l)
    BY DEF EventWait, q
  <1> QED BY <1>2, <1>4, <1>5, SameCountsTwice

LEMMA EventSignalKeeps ==
  ASSUME NEW s, Consistent(s), NEW e \in Events
  PROVE  SameCounts(EventSignal(s, e), s)
  <1>1. e \in Queues
    BY DEF Queues
  <1> QED BY <1>1, WakeFirstKeeps DEF EventSignal, SameCounts

LEMMA EventBroadcastKeeps ==
  ASSUME NEW s, Consistent(s), NEW e \in Events
  PROVE  SameCounts(EventBroadcast(s, e), s)
  <1> DEFINE r == EventBroadcast(s, e)
             woken == Range(s.waiting[e])
             status == [u \in Threads |-> IF u \notin woken THEN s.status[u]
                                          ELSE IF s.suspendCount[u] = 0 THEN "Running"
                                          ELSE "Suspended"]
  <1>1. e \in Queues /\ s \in VMStates
    BY DEF Queues, Consistent
  <1>2. \A u \in Threads : u \in woken => s.status[u] \in {"Blocked", "Waiting"}
    BY <1>1, Waiter
  <1>3. r.suspendCount = s.suspendCount /\ r.status = status
    BY <1>1 DEF EventBroadcast, VMStates
  <1> HIDE DEF r, woken
  <1>4. \A u \in Threads :
           r.status[u] = s.status[u]
             \/ (r.status[u] \in LiveStatuses /\ s.status[u] \in LiveStatuses)
    BY <1>2, <1>3 DEF LiveStatuses
  <1> QED BY <1>3, <1>4, LivesOn DEF r

LEMMA OperationKeeps ==
  ASSUME IInv, NEW t \in Threads,
         \/ \E l \in Locks : GrabLock(t, l) \/ ReleaseLock(t, l)
         \/ \E e \in Events, l \in Locks \cup {NoObj} : WaitForEvent(t, e, l)
         \/ \E e \in Events : SignalEvent(t, e) \/ BroadcastEvent(t, e)
  PROVE  IInv' /\ SameCounts(vm', vm) /\ pause' \in {"NoReason", "PickNewThread"}
  <1>1. Executes(t)
    BY DEF GrabLock, ReleaseLock, WaitForEvent, SignalEvent, BroadcastEvent
  <1>2. Consistent(vm) /\ vm.status[t] = "Running" /\ pause = "NoReason"
    BY <1>1, ExecutesRunning
  <1>3. ASSUME NEW l \in Locks, GrabLock(t, l) \/ ReleaseLock(t, l)
        PROVE  IInv' /\ SameCounts(vm', vm) /\ pause' \in {"NoReason", "PickNewThread"}
    <2>1. CASE GrabLock(t, l)
      BY <1>2, <2>1, GrabLockIInv, LockGrabKeeps DEF GrabLock
    <2>2. CASE ReleaseLock(t, l)
      BY <1>2, <2>2, ReleaseLockIInv, LockReleaseKeeps DEF ReleaseLock
    <2> QED BY <1>3, <2>1, <2>2
  <1>4. ASSUME NEW e \in Events, NEW l \in Locks \cup {NoObj}, WaitForEvent(t, e, l)
        PROVE  IInv' /\ SameCounts(vm', vm) /\ pause' \in {"NoReason", "PickNewThread"}
    BY <1>2, <1>4, WaitForEventIInv, EventWaitKeeps DEF WaitForEvent
  <1>5. ASSUME NEW e \in Events, SignalEvent(t, e) \/ BroadcastEvent(t, e)
        PROVE  IInv' /\ SameCounts(vm', vm) /\ pause' \in {"NoReason", "PickNewThread"}
    <2>1. CASE SignalEvent(t, e)
      BY <1>2, <2>1, SignalEventIInv, EventSignalKeeps DEF SignalEvent
    <2>2. CASE BroadcastEvent(t, e)
      BY <1>2, <2>2, BroadcastEventIInv, EventBroadcastKeeps DEF BroadcastEvent
    <2> QED BY <1>5, <2>1, <2>2
  <1> QED BY <1>3, <1>4, <1>5

(***************************************************************************)
(* Who is alive, and how often suspended, after the operations on threads. *)
(***************************************************************************)
(* From s to r only t's suspend count changed, to n. *)
CountsBut(r, s, t, n) ==
  \A u \in Threads : r.suspendCount[u] = IF u = t THEN n ELSE s.suspendCount[u]

LEMMA ThreadKillRight ==
  ASSUME NEW s, Consistent(s), s.fault = "none", NEW t \in Live(s)
  PROVE  /\ ThreadKill(s, t).suspendCount = s.suspendCount
         /\ ThreadKill(s, t).fault = "none" => Live(ThreadKill(s, t)) = Live(s) \ {t}
         /\ ThreadKill(s, t).fault # "none" => Live(ThreadKill(s, t)) = Live(s)
         /\ s.status[t] = "Running" =>
              /\ ThreadKill(s, t).fault = "none"
              /\ LET e == [ThreadKill(s, t) EXCEPT !.status[t] = "Exited"]
                 IN /\ e.suspendCount = s.suspendCount /\ e.fault = "none"
                    /\ Live(e) = Live(s) \ {t}
  <1> DEFINE p == Unlink(s, t)
             r == ThreadKill(s, t)
             e == [r EXCEPT !.status[t] = "Exited"]
  <1>1. s \in VMStates /\ t \in Threads
    BY DEF Consistent, Live
  <1>2. CASE OffItsList(p, s, t)
    <2>1. /\ p \in VMStates /\ p.fault = "none"
          /\ p.status = s.status /\ p.suspendCount = s.suspendCount
      BY <1>2 DEF OffItsList
    <2> HIDE DEF p
    <2>2. /\ r.status = [s.status EXCEPT ![t] = "Killed"] /\ r.fault = "none"
          /\ r.suspendCount = s.suspendCount /\ DOMAIN r = DOMAIN p
      BY <2>1 DEF ThreadKill, p, VMStates
    <2> HIDE DEF r
    <2>3. /\ e.status = [s.status EXCEPT ![t] = "Exited"] /\ e.fault = "none"
          /\ e.suspendCount = s.suspendCount
      BY <1>1, <2>1, <2>2 DEF VMStates
    <2> HIDE DEF e
    <2>4. Live(r) = Live(s) \ {t} /\ Live(e) = Live(s) \ {t}
      BY <1>1, <2>2, <2>3 DEF Live, LiveStatuses, VMStates
    <2> QED BY <2>2, <2>3, <2>4 DEF r, e
  <1>3. CASE s.status[t] # "Running" /\ \E x \in {"hang", "crash"} : p = [s EXCEPT !.fault = x]
    <2>1. PICK x \in {"hang", "crash"} : p = [s EXCEPT !.fault = x]
      BY <1>3
    <2>2. r = [s EXCEPT !.fault = x]
      BY <1>1, <2>1 DEF ThreadKill, VMStates
    <2>3. r.fault = x /\ r.status = s.status /\ r.suspendCount = s.suspendCount
      BY <1>1, <2>2 DEF VMStates
    <2> QED BY <1>3, <2>3 DEF Live
  <1> HIDE DEF r, p, e
  <1> QED BY <1>1, <1>2, <1>3, UnlinkOff DEF p

LEMMA ThreadRestartRight ==
  ASSUME NEW s \in VMStates, NEW t \in Threads
  PROVE  /\ CountsBut(ThreadRestart(s, t), s, t,
                      IF s.suspendCount[t] > 0 THEN s.suspendCount[t] - 1 ELSE 0)
         /\ Live(ThreadRestart(s, t)) = Live(s)
  <1> DEFINE n == s.suspendCount[t]
             c == [s EXCEPT !.suspendCount[t] = n - 1]
             r == ThreadRestart(s, t)
  <1>1. n \in Nat /\ s.status \in [Threads -> Statuses] /\ s.suspendCount \in [Threads -> Nat]
    BY DEF VMStates
  <1>2. CASE n = 0
    <2>1. r = s
      BY <1>2 DEF ThreadRestart
    <2> QED BY <1>1, <1>2, <2>1 DEF CountsBut
  <1>3. CASE n > 0
    <2>1. r = IF n = 1 /\ s.status[t] = "Suspended" THEN WakeupThread(c, t) ELSE c
      BY <1>1, <1>3 DEF ThreadRestart
    <2>2. c.suspendCount = [s.suspendCount EXCEPT ![t] = n - 1] /\ c.status = s.status
          /\ DOMAIN c = DOMAIN s
      BY DEF VMStates
    <2> HIDE DEF c
    <2>3. WakeupThread(c, t).suspendCount = c.suspendCount
      BY <2>2 DEF WakeupThread, VMStates
    <2>4. \E x \in {"Running", "Suspended"} :
            WakeupThread(c, t).status = [s.status EXCEPT ![t] = x]
      BY <1>1, <2>2 DEF WakeupThread, VMStates
    <2> HIDE DEF r
    <2>5. r.suspendCount = [s.suspendCount EXCEPT ![t] = n - 1]
      BY <2>1, <2>2, <2>3
    <2>6. CountsBut(r, s, t, n - 1)
      BY <1>1, <2>5 DEF CountsBut
    <2>7. CASE n = 1 /\ s.status[t] = "Suspended"
      <3>1. PICK x \in {"Running", "Suspended"} : r.status = [s.status EXCEPT ![t] = x]
        BY <2>1, <2>4, <2>7
      <3>2. Live(r) = Live(s)
        BY <1>1, <2>7, <3>1 DEF Live, LiveStatuses
      <3> QED BY <1>3, <2>6, <3>2 DEF r
    <2>8. CASE ~ (n = 1 /\ s.status[t] = "Suspended")
      <3>1. Live(r) = Live(s)
        BY <2>1, <2>2, <2>8 DEF Live
      <3> QED BY <1>3, <2>6, <3>1 DEF r
    <2> QED BY <2>7, <2>8
  <1> QED BY <1>1, <1>2, <1>3

LEMMA ThreadStopRight ==
  ASSUME NEW s, Consistent(s), NEW t \in Live(s)
  PROVE  /\ CountsBut(ThreadStop(s, t), s, t, s.suspendCount[t] + 1)
         /\ Live(ThreadStop(s, t)) = Live(s)
         /\ ThreadStop(s, t).fault = s.fault
  <1> DEFINE r == ThreadStop(s, t)
             p == SuspendThread(s, t)
  <1>1. s \in VMStates /\ t \in Threads /\ s.status \in [Threads -> Statuses]
        /\ s.suspendCount \in [Threads -> Nat]
    BY DEF Consistent, Live, VMStates
  <1>2. CASE s.suspendCount[t] = 0 /\ s.status[t] = "Running"
    <2>1. p \in VMStates /\ p.status = s.status /\ p.suspendCount = s.suspendCount
          /\ p.fault = s.fault
      BY <1>1, <1>2, LeaveRing
    <2>2. r = [[p EXCEPT !.status[t] = "Suspended"] EXCEPT !.suspendCount[t] = @ + 1]
      BY <1>2 DEF ThreadStop
    <2> HIDE DEF p
    <2>3. /\ r.status = [s.status EXCEPT ![t] = "Suspended"] /\ r.fault = s.fault
          /\ r.suspendCount = [s.suspendCount EXCEPT ![t] = s.suspendCount[t] + 1]
      BY <2>1, <2>2 DEF VMStates
    <2> HIDE DEF r
    <2>4. Live(r) = Live(s)
      BY <1>1, <1>2, <2>3 DEF Live, LiveStatuses
    <2> QED BY <1>1, <2>3, <2>4 DEF CountsBut, r
  <1>3. CASE ~ (s.suspendCount[t] = 0 /\ s.status[t] = "Running")
    <2>1. r = [s EXCEPT !.suspendCount[t] = s.suspendCount[t] + 1]
      BY <1>3 DEF ThreadStop
    <2>2. /\ r.status = s.status /\ r.fault = s.fault
          /\ r.suspendCount = [s.suspendCount EXCEPT ![t] = s.suspendCount[t] + 1]
      BY <1>1, <2>1 DEF VMStates
    <2> HIDE DEF r
    <2> QED BY <1>1, <2>2 DEF CountsBut, Live, r
  <1> QED BY <1>2, <1>3

LEMMA MakeRight ==
  ASSUME NEW s \in VMStates, NEW t \in Threads, s.status[t] = "Unmade"
  PROVE  /\ ThreadMake(s, t) \in VMStates
         /\ CountsBut(ThreadMake(s, t), s, t, 1)
         /\ Live(ThreadMake(s, t)) = Live(s) \cup {t}
         /\ t \notin Live(s)
         /\ ThreadMake(s, t).status[t] = "Suspended"
  <1> DEFINE r == ThreadMake(s, t)
  <1>1. /\ r \in VMStates /\ r.status = [s.status EXCEPT ![t] = "Suspended"]
        /\ r.suspendCount = [s.suspendCount EXCEPT ![t] = 1]
    BY DEF ThreadMake, VMStates, Statuses, LiveStatuses
  <1>2. s.status \in [Threads -> Statuses] /\ s.suspendCount \in [Threads -> Nat]
    BY DEF VMStates
  <1> HIDE DEF r
  <1>3. CountsBut(r, s, t, 1) /\ r.status[t] = "Suspended"
    BY <1>1, <1>2 DEF CountsBut
  <1>4. Live(r) = Live(s) \cup {t} /\ t \notin Live(s)
    BY <1>1, <1>2 DEF Live, LiveStatuses
  <1> QED BY <1>1, <1>3, <1>4 DEF r

LEMMA DebuggeredRight ==
  ASSUME NEW s, Consistent(s), NEW t \in Threads, s.status[t] = "Running"
  PROVE  /\ SameCounts(ThreadDebuggered(s, t), s)
         /\ ThreadDebuggered(s, t).status[t] = "Debuggered"
         /\ ThreadDebuggered(s, t).current = s.current
  <1> DEFINE p == SuspendThread(s, t)
             r == ThreadDebuggered(s, t)
  <1>1. p \in VMStates /\ p.status = s.status /\ p.suspendCount = s.suspendCount
        /\ p.current = s.current
    BY LeaveRing
  <1>2. r = [p EXCEPT !.status[t] = "Debuggered", !.datum[t] = NoObj]
    BY DEF ThreadDebuggered
  <1> HIDE DEF p
  <1>3. /\ r.status = [s.status EXCEPT ![t] = "Debuggered"]
        /\ r.suspendCount = s.suspendCount /\ r.current = s.current
    BY <1>1, <1>2 DEF VMStates
  <1> HIDE DEF r
  <1>4. s.status \in [Threads -> Statuses]
    BY DEF Consistent, VMStates
  <1>5. \A u \in Threads :
           r.status[u] = s.status[u]
             \/ (r.status[u] \in LiveStatuses /\ s.status[u] \in LiveStatuses)
    BY <1>3, <1>4 DEF LiveStatuses
  <1> QED BY <1>3, <1>4, <1>5, LivesOn DEF r

LEMMA PickThreadRight ==
  ASSUME NEW s \in VMStates
  PROVE  SameCounts(PickThread(s), s)
  BY DEF PickThread, SameCounts, Live, VMStates

(* The tables after RunOn. *)
RunningOn(s, t, suspendOthers) ==
  LET pushedOn == PushEscape(s, t)
      alone == IF suspendOthers THEN SuspendOthers(pushedOn, t) ELSE pushedOn
  IN IF pushedOn.fault # "none" THEN pushedOn ELSE ThreadRestart(alone, t)

LEMMA RunningOnRight ==
  ASSUME NEW s, Consistent(s), LocksAgree(s), s.fault = "none", NEW t \in Live(s),
         NEW others \in BOOLEAN
  PROVE  /\ Consistent(RunningOn(s, t, others)) /\ LocksAgree(RunningOn(s, t, others))
         /\ RunningOn(s, t, others).current = s.current
         /\ Live(RunningOn(s, t, others)) = Live(s)
         /\ RunningOn(s, t, others).fault = "none" =>
              /\ RunningOn(s, t, others).suspendCount[t] = 0
              /\ \A u \in Live(s) \ {t} : RunningOn(s, t, others).suspendCount[u] =
                   IF others THEN s.suspendCount[u] + 1 ELSE s.suspendCount[u]
  <1> DEFINE pushedOn == PushEscape(s, t)
             alone == IF others THEN SuspendOthers(pushedOn, t) ELSE pushedOn
             r == RunningOn(s, t, others)
  <1>0. t \in Threads
    BY DEF Live
  <1>1. /\ Consistent(pushedOn) /\ SameLocks(pushedOn, s) /\ pushedOn.current = s.current
        /\ Live(pushedOn) = Live(s)
        /\ pushedOn.fault = "none" => /\ OthersSame(pushedOn, s, t)
                                   /\ pushedOn.suspendCount[t] = 1
    BY PushEscapeRight
  <1> HIDE DEF pushedOn
  <1>2. LocksAgree(pushedOn)
    BY <1>1, SameLocksAgree
  <1>3. CASE pushedOn.fault # "none"
    BY <1>1, <1>2, <1>3 DEF RunningOn, pushedOn
  <1>4. CASE pushedOn.fault = "none"
    <2>1. /\ Consistent(alone) /\ SameLocks(alone, pushedOn) /\ alone.current = s.current
          /\ Live(alone) = Live(s) /\ alone.suspendCount[t] = 1
          /\ \A u \in Live(s) \ {t} : alone.suspendCount[u] =
               IF others THEN pushedOn.suspendCount[u] + 1 ELSE pushedOn.suspendCount[u]
      <3>1. SameLocks(pushedOn, pushedOn)
        BY DEF SameLocks
      <3>2. CASE others
        <4>1. /\ Consistent(SuspendOthers(pushedOn, t)) /\ SameBut(SuspendOthers(pushedOn, t), pushedOn)
              /\ Live(SuspendOthers(pushedOn, t)) = Live(pushedOn)
              /\ \A u \in Threads : SuspendOthers(pushedOn, t).suspendCount[u] =
                   IF u \in Live(pushedOn) \ {t} THEN pushedOn.suspendCount[u] + 1
                   ELSE pushedOn.suspendCount[u]
          BY <1>0, <1>1, SuspendOthersRight
        <4> QED BY <1>0, <1>1, <1>4, <3>2, <4>1 DEF SameBut, SameLocks, Live
      <3>3. CASE ~ others
        BY <1>1, <1>4, <3>1, <3>3
      <3> QED BY <3>2, <3>3
    <2> HIDE DEF alone
    <2>2. r = ThreadRestart(alone, t)
      BY <1>4 DEF RunningOn, pushedOn, alone
    <2>3. LocksAgree(alone) /\ alone \in VMStates
      BY <1>2, <2>1, SameLocksAgree DEF Consistent
    <2>4. /\ Consistent(r) /\ SameLocks(r, alone) /\ r.current = alone.current
      BY <1>0, <2>1, <2>2, ThreadRestartConsistent
    <2>5. CountsBut(r, alone, t, 0) /\ Live(r) = Live(alone)
      BY <1>0, <2>1, <2>2, <2>3, ThreadRestartRight
    <2>6. \A u \in Live(s) \ {t} : pushedOn.suspendCount[u] = s.suspendCount[u]
      BY <1>1, <1>4 DEF OthersSame, Live
    <2>7. LocksAgree(r)
      BY <2>3, <2>4, SameLocksAgree
    <2> HIDE DEF r
    <2>8. /\ r.suspendCount[t] = 0
          /\ \A u \in Live(s) \ {t} : r.suspendCount[u] =
               IF others THEN s.suspendCount[u] + 1 ELSE s.suspendCount[u]
      BY <1>0, <2>1, <2>5, <2>6 DEF CountsBut, Live
    <2> QED BY <2>1, <2>4, <2>5, <2>7, <2>8 DEF r
  <1> QED BY <1>3, <1>4

-----------------------------------------------------------------------------
(***************************************************************************)
(* The tables under the debugger, whatever uses of it are made but a       *)
(* command on a thread that is blocked on a lock.                          *)
(***************************************************************************)
Conts == {"none", "stop_thread"} \cup Finishers \cup Killers
Entries == {"nothing", "start", "inside"}
Escapes ==
  {e \in [kind : {"escape"}, status : EscapeStatuses, datum : Queues \cup {NoObj},
          count : Nat, entry : Entries] :
     e.status = "Suspended" => e.count > 0}
Calls == [kind : {"call"}, cont : Conts]
Flags == [kind : {"flag"}, keepGoing : BOOLEAN]
StackFrames == Calls \cup Flags \cup Escapes
Codes == [frames : Seq(StackFrames), entry : Entries, cont : Conts]

CodeTypes ==
  /\ code \in [Threads -> Codes]
  /\ disabled \in [Threads -> Nat]
  /\ selected \in Threads \cup {NoThread}

(* The debugger keeps nothing of a thread that is dead. *)
DeadAreForgotten ==
  \A t \in Threads \ Live(vm) : code[t] = NoCode /\ disabled[t] = 0

DebugInv ==
  /\ IInv /\ Bounded(vm)
  /\ uses \subseteq UseKinds /\ "blocked" \notin uses
  /\ CodeTypes /\ DeadAreForgotten
  /\ SelectedExists

LEMMA FramesByKind ==
  ASSUME NEW f \in StackFrames
  PROVE  /\ f.kind = "call" => f \in Calls /\ f.cont \in Conts /\ f = Call(f.cont)
         /\ f.kind = "escape" => /\ f \in Escapes /\ RightEscape(f) /\ f.entry \in Entries
         /\ f.kind = "flag" => f \in Flags
         /\ f.kind \in {"call", "escape", "flag"}
  BY DEF StackFrames, Calls, Flags, Escapes, RightEscape, Call

LEMMA FramesOf ==
  ASSUME CodeTypes, NEW t \in Threads
  PROVE  /\ code[t].frames \in Seq(StackFrames) /\ Len(code[t].frames) \in Nat
         /\ DOMAIN code[t].frames = 1..Len(code[t].frames)
         /\ \A i \in 1..Len(code[t].frames) : code[t].frames[i] \in StackFrames
         /\ code[t].entry \in Entries /\ code[t].cont \in Conts
         /\ code[t] = [frames |-> code[t].frames, entry |-> code[t].entry,
                       cont |-> code[t].cont]
  <1>1. code[t] \in Codes
    BY DEF CodeTypes
  <1>2. code[t].frames \in Seq(StackFrames)
    BY <1>1 DEF Codes
  <1> QED BY <1>1, <1>2 DEF Codes

LEMMA NoCodeType ==
  NoCode \in Codes
  BY DEF NoCode, Codes, Entries, Conts

LEMMA FreshType ==
  ASSUME NEW c \in Conts
  PROVE  Fresh(c) \in Codes
  BY DEF Fresh, Codes, Entries

LEMMA NewCode ==
  ASSUME CodeTypes, NEW t \in Threads, NEW c \in Codes
  PROVE  [code EXCEPT ![t] = c] \in [Threads -> Codes]
  BY DEF CodeTypes

LEMMA CodeOfType ==
  ASSUME CodeTypes, NEW s
  PROVE  /\ CodeOf(s) \in [Threads -> Codes]
         /\ \A t \in Threads \ Live(s) : CodeOf(s)[t] = NoCode
         /\ \A t \in Live(s) : CodeOf(s)[t] = code[t]
  BY NoCodeType DEF CodeOf, CodeTypes, Live

(* A step to other tables in which the same threads are alive. *)
LEMMA StillBounded ==
  ASSUME NEW s, NEW r, Bounded(s), Live(r) \subseteq Live(s)
  PROVE  Bounded(r)
  BY DEF Bounded

LEMMA OneMoreBounded ==
  ASSUME NEW s, NEW r, Bounded(s), NEW t \in Threads, Live(r) \subseteq Live(s) \cup {t}
  PROVE  Bounded(r)
  <1>1. PICK n \in Nat : \A u \in Live(s) : u <= n
    BY DEF Bounded
  <1>2. t \in Nat /\ \A u \in Live(s) : u \in Nat
    BY ThreadsAssumption DEF Live
  <1> DEFINE m == IF n < t THEN t ELSE n
  <1>3. m \in Nat /\ \A u \in Live(r) : u <= m
    BY <1>1, <1>2
  <1> QED BY <1>3 DEF Bounded

(***************************************************************************)
(* A command that runs code on the thread t.                               *)
(***************************************************************************)
LEMMA EscapeFrameType ==
  ASSUME DebugInv, NEW s, Consistent(s), s.fault = "none", NEW t \in Threads,
         s.status[t] \in EscapeStatuses
  PROVE  EscapeFrame(s, t) \in Escapes
  <1> DEFINE p == Unlink(s, t)
             n == IF s.status[t] = "Suspended" THEN s.suspendCount[t] ELSE 0
  <1>1. s \in VMStates
    BY DEF Consistent
  <1>2. p \in VMStates
    <2>1. CASE OffItsList(p, s, t)
      BY <2>1 DEF OffItsList
    <2>2. CASE \E x \in {"hang", "crash"} : p = [s EXCEPT !.fault = x]
      BY <1>1, <2>2 DEF VMStates
    <2> HIDE DEF p
    <2> QED BY <2>1, <2>2, UnlinkOff DEF p
  <1> HIDE DEF p
  <1>3. p.datum[t] \in Queues \cup {NoObj}
    BY <1>2 DEF VMStates
  <1>4. n \in Nat /\ (s.status[t] = "Suspended" => n > 0)
    BY <1>1, Lists DEF VMStates
  <1> HIDE DEF n
  <1>5. code[t].entry \in Entries
    BY FramesOf DEF DebugInv
  <1>6. EscapeFrame(s, t) =
          [kind |-> "escape", status |-> s.status[t], datum |-> p.datum[t],
           count |-> n, entry |-> code[t].entry]
    BY DEF EscapeFrame, p, n
  <1> QED BY <1>3, <1>4, <1>5, <1>6 DEF Escapes

LEMMA FlagsAreFrames ==
  ASSUME NEW q \in Seq(Flags)
  PROVE  q \in Seq(StackFrames)
  <1>1. \A i \in 1..Len(q) : q[i] \in StackFrames
    BY DEF StackFrames
  <1>2. Len(q) \in Nat /\ q = [i \in 1..Len(q) |-> q[i]]
    OBVIOUS
  <1> QED BY <1>1, <1>2

LEMMA RunOnDebug ==
  ASSUME DebugInv, NEW s, Consistent(s), LocksAgree(s), s.fault = "none",
         Live(s) = Live(vm), NEW t \in Live(vm),
         s.status[t] \in EscapeStatuses, NEW c \in Conts, NEW pushed \in Seq(Flags),
         NEW others \in BOOLEAN, RunOn(s, t, c, pushed, others),
         UNCHANGED <<disabled, uses>>, selected' \in Threads \cup {NoThread}
  PROVE  DebugInv'
  <1>1. vm' = RunningOn(s, t, others) /\ pause' = "PickNewThread" /\ t \in Threads
    BY DEF RunOn, RunningOn, Live
  <1>2. Consistent(vm') /\ LocksAgree(vm') /\ Live(vm') = Live(vm)
    BY <1>1, RunningOnRight
  <1>3. IInv'
    BY <1>1, <1>2, SliceEnds DEF DebugInv
  <1>4. Bounded(vm')
    BY <1>2, StillBounded DEF DebugInv
  <1>5. EscapeFrame(s, t) \in StackFrames
    BY <1>1, EscapeFrameType DEF StackFrames
  <1> DEFINE d == [frames |-> Append(code[t].frames \o pushed, EscapeFrame(s, t)),
                   entry |-> "start", cont |-> c]
  <1>6. d \in Codes
    <2>1. code[t].frames \in Seq(StackFrames) /\ pushed \in Seq(StackFrames)
      BY <1>1, FramesOf, FlagsAreFrames DEF DebugInv
    <2>2. Append(code[t].frames \o pushed, EscapeFrame(s, t)) \in Seq(StackFrames)
      BY <1>5, <2>1
    <2> QED BY <2>2 DEF Codes, Entries
  <1>7. code' = [code EXCEPT ![t] = d]
    BY DEF RunOn
  <1> HIDE DEF d
  <1>8. CodeTypes'
    BY <1>1, <1>6, <1>7, NewCode DEF CodeTypes, DebugInv
  <1>9. DeadAreForgotten'
    BY <1>1, <1>2, <1>7 DEF DeadAreForgotten, DebugInv, CodeTypes
  <1>10. SelectedExists'
    BY <1>1 DEF SelectedExists, AtPrompt
  <1> QED BY <1>3, <1>4, <1>8, <1>9, <1>10 DEF DebugInv

-----------------------------------------------------------------------------
(***************************************************************************)
(* What the steps that run no command do to the tables.                    *)
(***************************************************************************)

(* The steps that leave the threads, their counts and their code alone.    *)
Quiet ==
  \/ \E t \in Threads : Operate(t) \/ SelectCommand(t) \/ WildPop(t)
  \/ PickNextThread \/ InterruptThread
  \/ ContinueCommand /\ UNCHANGED <<code, selected, disabled, uses>>
  \/ UNCHANGED debugVars

LEMMA SelectedStays ==
  ASSUME SelectedExists, Live(vm') = Live(vm), selected' = selected,
         pause' = pause \/ pause' \in {"NoReason", "PickNewThread"}
  PROVE  SelectedExists'
  BY DEF SelectedExists, AtPrompt

LEMMA OperateQuiet ==
  ASSUME DebugInv, NEW t \in Threads, Operate(t)
  PROVE  IInv' /\ SameCounts(vm', vm) /\ SelectedExists'
  <1>1. \/ \E l \in Locks : GrabLock(t, l) \/ ReleaseLock(t, l)
        \/ \E e \in Events, l \in Locks \cup {NoObj} : WaitForEvent(t, e, l)
        \/ \E e \in Events : SignalEvent(t, e) \/ BroadcastEvent(t, e)
    BY DEF Operate
  <1>2. IInv' /\ SameCounts(vm', vm) /\ pause' \in {"NoReason", "PickNewThread"}
    BY <1>1, OperationKeeps DEF DebugInv
  <1> QED BY <1>2 DEF SelectedExists, AtPrompt

LEMMA WildPopQuiet ==
  ASSUME DebugInv, NEW t \in Threads, WildPop(t)
  PROVE  IInv' /\ SameCounts(vm', vm) /\ SelectedExists'
  <1>1. Executes(t) /\ vm' = [vm EXCEPT !.fault = "crash"] /\ UNCHANGED <<pause, selected>>
    BY DEF WildPop, Returns, Inside
  <1>2. /\ vm.status[t] = "Running" /\ Consistent(vm) /\ LocksAgree(vm) /\ vm \in VMStates
        /\ pause = "NoReason"
    BY <1>1, ExecutesRunning DEF DebugInv, Consistent
  <1>3. Consistent(vm') /\ SameLocks(vm', vm)
    BY <1>1, <1>2, FaultConsistent
  <1>4. LocksAgree(vm')
    BY <1>2, <1>3, SameLocksAgree
  <1>5. vm'.current = vm.current /\ vm'.fault = "crash" /\ SameCounts(vm', vm)
    BY <1>1, <1>2 DEF VMStates, SameCounts, Live
  <1>6. IInv'
    BY <1>1, <1>3, <1>4, <1>5, SliceGoesOn DEF DebugInv
  <1> QED BY <1>1, <1>2, <1>5, <1>6 DEF SelectedExists, AtPrompt

LEMMA DriverQuiet ==
  ASSUME DebugInv, PickNextThread \/ InterruptThread
  PROVE  IInv' /\ SameCounts(vm', vm) /\ SelectedExists'
  <1>1. vm \in VMStates
    BY DEF DebugInv, IInv, Consistent
  <1>2. CASE PickNextThread
    <2>1. IInv'
      BY <1>2, PickNextIInv DEF PickNextThread, DebugInv
    <2>2. SameCounts(vm', vm)
      BY <1>1, <1>2, PickThreadRight DEF PickNextThread, PickNext
    <2>3. pause' = "NothingToRun" \/ pause' = "NoReason"
      BY <1>2 DEF PickNextThread, PickNext
    <2> QED BY <1>2, <2>1, <2>2, <2>3 DEF SelectedExists, AtPrompt, PickNextThread
  <1>3. CASE InterruptThread
    <2>1. IInv'
      BY <1>3, InterruptIInv DEF InterruptThread, DebugInv
    <2>2. SameCounts(vm', vm)
      BY <1>1, <1>3 DEF InterruptThread, Interrupt, VMStates, SameCounts, Live
    <2>3. vm.current \in Live(vm) \cup {NoThread}
      <3>1. vm.current \in Threads \cup {NoThread}
        BY <1>1 DEF VMStates
      <3>2. pause = "NoReason" /\ vm.fault = "none"
        BY <1>3 DEF InterruptThread, Interrupt
      <3> QED BY <3>1, <3>2 DEF DebugInv, IInv, CurrentIsRunning, Live, LiveStatuses
    <2> QED BY <1>3, <2>1, <2>2, <2>3 DEF SelectedExists, SameCounts, InterruptThread
  <1> QED BY <1>2, <1>3

LEMMA ContinueQuiet ==
  ASSUME DebugInv, ContinueCommand
  PROVE  IInv' /\ SameCounts(vm', vm) /\ SelectedExists'
  <1>1. vm' = vm /\ pause' = "PickNewThread" /\ Consistent(vm) /\ LocksAgree(vm)
    BY DEF ContinueCommand, DebugInv, IInv
  <1>2. Consistent(vm') /\ LocksAgree(vm')
    BY <1>1
  <1>3. IInv'
    BY <1>1, <1>2, SliceEnds DEF DebugInv
  <1> QED BY <1>1, <1>3 DEF SelectedExists, AtPrompt, SameCounts

LEMMA SelectQuiet ==
  ASSUME DebugInv, NEW t \in Threads, SelectCommand(t)
  PROVE  IInv' /\ SameCounts(vm', vm) /\ SelectedExists'
  <1>1. vm' = vm /\ pause' = pause /\ selected' = t /\ t \in Live(vm)
    BY DEF SelectCommand
  <1>2. IInv'
    BY <1>1 DEF DebugInv, IInv, CurrentIsRunning, AtPrompt
  <1> QED BY <1>1, <1>2 DEF SelectedExists, AtPrompt, SameCounts

LEMMA QuietRight ==
  ASSUME DebugInv, Quiet
  PROVE  /\ IInv' /\ SameCounts(vm', vm) /\ SelectedExists'
         /\ UNCHANGED <<code, disabled, uses>> /\ selected' \in Threads \cup {NoThread}
         /\ vm.fault = "none" \/ vm' = vm
  <1>1. CASE \E t \in Threads : Operate(t)
    <2>1. PICK t \in Threads : Operate(t)
      BY <1>1
    <2>2. vm.fault = "none"
      BY <2>1 DEF Operate, Inside, Executes
    <2>3. IInv' /\ SameCounts(vm', vm) /\ SelectedExists'
      BY <2>1, OperateQuiet
    <2>4. UNCHANGED <<code, selected, disabled, uses>>
      BY <2>1 DEF Operate
    <2> QED BY <2>2, <2>3, <2>4 DEF DebugInv, CodeTypes
  <1>2. CASE \E t \in Threads : SelectCommand(t)
    <2>1. PICK t \in Threads : SelectCommand(t)
      BY <1>2
    <2>2. IInv' /\ SameCounts(vm', vm) /\ SelectedExists'
      BY <2>1, SelectQuiet
    <2> QED BY <2>1, <2>2 DEF SelectCommand, Ready
  <1>3. CASE \E t \in Threads : WildPop(t)
    <2>1. PICK t \in Threads : WildPop(t)
      BY <1>3
    <2>2. IInv' /\ SameCounts(vm', vm) /\ SelectedExists'
      BY <2>1, WildPopQuiet
    <2>3. vm.fault = "none" /\ UNCHANGED <<code, selected, disabled, uses>>
      BY <2>1 DEF WildPop, Returns, Inside, Executes
    <2> QED BY <2>2, <2>3 DEF DebugInv, CodeTypes
  <1>4. CASE PickNextThread \/ InterruptThread
    <2>1. IInv' /\ SameCounts(vm', vm) /\ SelectedExists'
      BY <1>4, DriverQuiet
    <2>2. vm.current \in Threads \cup {NoThread}
      BY DEF DebugInv, IInv, Consistent, VMStates
    <2> QED BY <1>4, <2>1, <2>2
         DEF PickNextThread, InterruptThread, PickNext, Interrupt, DebugInv, CodeTypes
  <1>5. CASE ContinueCommand /\ UNCHANGED <<code, selected, disabled, uses>>
    <2>1. IInv' /\ SameCounts(vm', vm) /\ SelectedExists'
      BY <1>5, ContinueQuiet
    <2> QED BY <1>5, <2>1 DEF ContinueCommand, DebugInv, CodeTypes
  <1>6. CASE UNCHANGED debugVars
    <2>1. vm' = vm /\ pause' = pause /\ selected' = selected
          /\ UNCHANGED <<code, disabled, uses>>
      BY <1>6 DEF debugVars
    <2>2. IInv'
      BY <2>1 DEF DebugInv, IInv, CurrentIsRunning, AtPrompt
    <2> QED BY <2>1, <2>2 DEF SelectedExists, AtPrompt, SameCounts, DebugInv, CodeTypes
  <1> QED BY <1>1, <1>2, <1>3, <1>4, <1>5, <1>6 DEF Quiet

LEMMA QuietDebug ==
  ASSUME DebugInv, Quiet
  PROVE  DebugInv'
  <1>1. /\ IInv' /\ SameCounts(vm', vm) /\ SelectedExists'
        /\ UNCHANGED <<code, disabled, uses>> /\ selected' \in Threads \cup {NoThread}
    BY QuietRight
  <1>2. Bounded(vm')
    BY <1>1, StillBounded DEF DebugInv, SameCounts
  <1>3. CodeTypes' /\ DeadAreForgotten'
    BY <1>1 DEF DebugInv, CodeTypes, DeadAreForgotten, SameCounts
  <1> QED BY <1>1, <1>2, <1>3 DEF DebugInv

(* The steps that end the thread u.                                        *)
Ends(u) ==
  \/ \E t \in Threads : KillLiveThread(t, u)
  \/ StopThread(u)
  \/ KillSelected(u)

LEMMA KillLiveThreadEnds ==
  ASSUME DebugInv, NEW t \in Threads, NEW u \in Threads, KillLiveThread(t, u)
  PROVE  /\ IInv' /\ u \in Live(vm) /\ vm.fault = "none" /\ selected' = selected
         /\ vm'.suspendCount = vm.suspendCount
         /\ vm'.fault = "none" => Live(vm') = Live(vm) \ {u}
         /\ vm'.fault # "none" => Live(vm') = Live(vm)
         /\ SelectedExists'
  <1>1. /\ Inside(t) /\ KillThread(t, u) /\ Executes(t) /\ u \in Live(vm)
        /\ selected' = selected
    BY DEF KillLiveThread, Inside
  <1>2. vm.fault = "none" /\ pause = "NoReason" /\ Consistent(vm) /\ vm' = ThreadKill(vm, u)
    BY <1>1 DEF Executes, KillThread, DebugInv, IInv
  <1>3. IInv'
    BY <1>1, KillThreadIInv DEF DebugInv
  <1>4. pause' \in {"NoReason", "PickNewThread"}
    BY <1>1, <1>2 DEF KillThread
  <1> QED BY <1>1, <1>2, <1>3, <1>4, ThreadKillRight DEF SelectedExists, AtPrompt

LEMMA StopThreadEnds ==
  ASSUME DebugInv, NEW u \in Threads, StopThread(u)
  PROVE  /\ IInv' /\ u \in Live(vm) /\ vm.fault = "none" /\ selected' = selected
         /\ vm'.suspendCount = vm.suspendCount
         /\ vm'.fault = "none" => Live(vm') = Live(vm) \ {u}
         /\ vm'.fault # "none" => Live(vm') = Live(vm)
         /\ SelectedExists'
  <1>1. Executes(u) /\ ExitThread(u) /\ selected' = selected
    BY DEF StopThread, ExitThread
  <1>2. /\ vm.fault = "none" /\ Consistent(vm) /\ vm.status[u] = "Running"
        /\ vm' = [ThreadKill(vm, u) EXCEPT !.status[u] = "Exited"]
        /\ pause' = "PickNewThread"
    BY <1>1, ExecutesRunning DEF ExitThread, DebugInv, IInv
  <1>3. u \in Live(vm)
    BY <1>2 DEF Live, LiveStatuses
  <1>4. IInv'
    BY <1>1, ExitThreadIInv DEF DebugInv
  <1> QED BY <1>1, <1>2, <1>3, <1>4, ThreadKillRight DEF SelectedExists, AtPrompt

LEMMA KillSelectedEnds ==
  ASSUME DebugInv, NEW u \in Threads, KillSelected(u)
  PROVE  /\ IInv' /\ u \in Live(vm) /\ vm.fault = "none"
         /\ selected' \in {selected, NoThread}
         /\ vm'.suspendCount = vm.suspendCount
         /\ vm'.fault = "none" => Live(vm') = Live(vm) \ {u}
         /\ vm'.fault # "none" => Live(vm') = Live(vm)
         /\ SelectedExists'
  <1>1. /\ KillCommand(u) /\ AtPrompt /\ vm.fault = "none" /\ u \in Live(vm)
        /\ vm' = ThreadKill(vm, u) /\ pause' = pause
        /\ selected' = IF u = selected /\ vm'.fault = "none" THEN NoThread ELSE selected
    BY DEF KillSelected, KillCommand, AtCommand
  <1>2. IInv'
    BY <1>1, UserCommandIInv DEF UserCommand, DebugInv
  <1>3. Consistent(vm)
    BY DEF DebugInv, IInv
  <1>4. /\ vm'.suspendCount = vm.suspendCount
        /\ vm'.fault = "none" => Live(vm') = Live(vm) \ {u}
        /\ vm'.fault # "none" => Live(vm') = Live(vm)
    BY <1>1, <1>3, ThreadKillRight
  <1>5. selected \in Live(vm) \cup {NoThread}
    BY <1>1 DEF DebugInv, SelectedExists
  <1>6. selected' \in Live(vm') \cup {NoThread}
    BY <1>1, <1>4, <1>5
  <1> QED BY <1>1, <1>2, <1>4, <1>6 DEF SelectedExists

LEMMA EndsRight ==
  ASSUME DebugInv, NEW u \in Threads, Ends(u)
  PROVE  /\ IInv' /\ u \in Live(vm) /\ vm.fault = "none"
         /\ selected' \in {selected, NoThread}
         /\ vm'.suspendCount = vm.suspendCount
         /\ vm'.fault = "none" => Live(vm') = Live(vm) \ {u}
         /\ vm'.fault # "none" => Live(vm') = Live(vm)
         /\ SelectedExists'
         /\ code' = CodeOf(vm') /\ disabled' = [disabled EXCEPT ![u] = 0] /\ uses' = uses
  <1>1. CASE \E t \in Threads : KillLiveThread(t, u)
    <2>1. PICK t \in Threads : KillLiveThread(t, u)
      BY <1>1
    <2>2. /\ code' = CodeOf(vm') /\ disabled' = [disabled EXCEPT ![u] = 0]
          /\ uses' = uses
      BY <2>1 DEF KillLiveThread
    <2> QED BY <2>1, <2>2, KillLiveThreadEnds
  <1>2. CASE StopThread(u)
    <2>1. /\ code' = CodeOf(vm') /\ disabled' = [disabled EXCEPT ![u] = 0]
          /\ uses' = uses
      BY <1>2 DEF StopThread
    <2> QED BY <1>2, <2>1, StopThreadEnds
  <1>3. CASE KillSelected(u)
    <2>1. /\ code' = CodeOf(vm') /\ disabled' = [disabled EXCEPT ![u] = 0]
          /\ uses' = uses
      BY <1>3 DEF KillSelected
    <2> QED BY <1>3, <2>1, KillSelectedEnds
  <1> QED BY <1>1, <1>2, <1>3 DEF Ends

LEMMA EndsDebug ==
  ASSUME DebugInv, NEW u \in Threads, Ends(u)
  PROVE  DebugInv'
  <1>1. /\ IInv' /\ Live(vm') \subseteq Live(vm) /\ Live(vm) \ {u} \subseteq Live(vm')
        /\ SelectedExists' /\ selected' \in {selected, NoThread}
        /\ code' = CodeOf(vm') /\ disabled' = [disabled EXCEPT ![u] = 0] /\ uses' = uses
    BY EndsRight
  <1>2. Bounded(vm')
    BY <1>1, StillBounded DEF DebugInv
  <1>3. CodeTypes'
    BY <1>1, CodeOfType DEF DebugInv, CodeTypes
  <1>4. DeadAreForgotten'
    BY <1>1, CodeOfType DEF DebugInv, DeadAreForgotten, CodeTypes
  <1> QED BY <1>1, <1>2, <1>3, <1>4 DEF DebugInv

(* The steps in which the user changes the count of the thread u.          *)
Counts(u) == Disable(u) \/ Enable(u) \/ (Continue /\ ~ Quiet /\ u = selected)

LEMMA DisableRight ==
  ASSUME DebugInv, NEW u \in Threads, Disable(u)
  PROVE  /\ IInv' /\ u \in Live(vm) /\ Live(vm') = Live(vm) /\ vm.fault = "none"
         /\ CountsBut(vm', vm, u, vm.suspendCount[u] + 1)
         /\ disabled' = [disabled EXCEPT ![u] = disabled[u] + 1]
         /\ UNCHANGED <<code, selected, uses>> /\ SelectedExists'
  <1>1. /\ DisableCommand(u) /\ vm.fault = "none" /\ u \in Live(vm) /\ vm' = ThreadStop(vm, u)
        /\ pause' = pause /\ disabled' = [disabled EXCEPT ![u] = @ + 1]
        /\ UNCHANGED <<code, selected, uses>>
    BY DEF Disable, DisableCommand, AtCommand
  <1>2. IInv'
    BY <1>1, UserCommandIInv DEF UserCommand, DebugInv
  <1>3. Consistent(vm)
    BY DEF DebugInv, IInv
  <1>4. CountsBut(vm', vm, u, vm.suspendCount[u] + 1) /\ Live(vm') = Live(vm)
    BY <1>1, <1>3, ThreadStopRight
  <1>5. SelectedExists'
    BY <1>1, <1>4, SelectedStays DEF DebugInv
  <1> QED BY <1>1, <1>2, <1>4, <1>5

(* The count of u brought to zero, and u restarted.                        *)
LEMMA RestartedRight ==
  ASSUME NEW u \in Live(vm), IInv, vm' = ThreadRestart([vm EXCEPT !.suspendCount[u] = 1], u),
         vm.suspendCount[u] > 0
  PROVE  Live(vm') = Live(vm) /\ CountsBut(vm', vm, u, 0)
  <1> DEFINE q == [vm EXCEPT !.suspendCount[u] = 1]
  <1>1. vm \in VMStates /\ u \in Threads
    BY DEF IInv, Consistent, Live
  <1>2. /\ q \in VMStates /\ q.status = vm.status /\ q.suspendCount[u] = 1
        /\ \A v \in Threads \ {u} : q.suspendCount[v] = vm.suspendCount[v]
    BY <1>1 DEF VMStates
  <1> HIDE DEF q
  <1>3. CountsBut(ThreadRestart(q, u), q, u, 0) /\ Live(ThreadRestart(q, u)) = Live(q)
    BY <1>1, <1>2, ThreadRestartRight
  <1>4. vm' = ThreadRestart(q, u)
    BY DEF q
  <1> QED BY <1>1, <1>2, <1>3, <1>4 DEF CountsBut, Live

LEMMA EnableRight ==
  ASSUME DebugInv, NEW u \in Threads, Enable(u)
  PROVE  /\ IInv' /\ u \in Live(vm) /\ Live(vm') = Live(vm) /\ vm.fault = "none"
         /\ CountsBut(vm', vm, u, 0)
         /\ disabled' = [disabled EXCEPT ![u] = 0]
         /\ UNCHANGED <<code, selected, uses>> /\ SelectedExists'
  <1>1. /\ EnableCommand(u) /\ vm.fault = "none" /\ u \in Live(vm)
        /\ vm.suspendCount[u] > 0
        /\ vm' = ThreadRestart([vm EXCEPT !.suspendCount[u] = 1], u)
        /\ pause' = pause /\ disabled' = [disabled EXCEPT ![u] = 0]
        /\ UNCHANGED <<code, selected, uses>>
    BY DEF Enable, EnableCommand, AtCommand
  <1>2. IInv'
    BY <1>1, UserCommandIInv DEF UserCommand, DebugInv
  <1>4. CountsBut(vm', vm, u, 0) /\ Live(vm') = Live(vm)
    BY <1>1, RestartedRight DEF DebugInv
  <1>5. SelectedExists'
    BY <1>1, <1>4, SelectedStays DEF DebugInv
  <1> QED BY <1>1, <1>2, <1>4, <1>5

LEMMA ContinueRight ==
  ASSUME DebugInv, Continue, ~ Quiet
  PROVE  /\ IInv' /\ selected \in Live(vm) /\ Live(vm') = Live(vm) /\ vm.fault = "none"
         /\ CountsBut(vm', vm, selected, 0)
         /\ disabled' = [disabled EXCEPT ![selected] = 0]
         /\ SomeUnderWay => "meanwhile" \in uses
         /\ UNCHANGED <<code, selected, uses>> /\ SelectedExists'
  <1>1. /\ Ready /\ selected # NoThread /\ vm.status[selected] = "Suspended"
        /\ vm' = ThreadRestart([vm EXCEPT !.suspendCount[selected] = 1], selected)
        /\ SomeUnderWay => "meanwhile" \in uses
        /\ disabled' = [disabled EXCEPT ![selected] = 0]
        /\ pause' = "PickNewThread"
        /\ UNCHANGED <<code, selected, uses>>
    BY DEF Continue, Quiet
  <1>2. selected \in Live(vm) /\ selected \in Threads
    BY <1>1 DEF DebugInv, SelectedExists, Ready, Live
  <1>3. Consistent(vm) /\ LocksAgree(vm) /\ vm.suspendCount[selected] > 0
        /\ vm.status[selected] # "Running"
    BY <1>1, <1>2, Lists DEF DebugInv, IInv
  <1>4. Consistent(vm') /\ LocksAgree(vm')
    <2> DEFINE q == [vm EXCEPT !.suspendCount[selected] = 1]
    <2>1. Consistent(q)
      BY <1>2, <1>3, CountConsistent
    <2>2. SameLocks(q, vm)
      BY <1>3 DEF SameLocks, Consistent, VMStates
    <2> HIDE DEF q
    <2>3. LocksAgree(q)
      BY <1>3, <2>2, SameLocksAgree
    <2>4. Consistent(ThreadRestart(q, selected)) /\ SameLocks(ThreadRestart(q, selected), q)
      BY <1>2, <2>1, ThreadRestartConsistent
    <2> QED BY <1>1, <2>3, <2>4, SameLocksAgree DEF q
  <1>5. CountsBut(vm', vm, selected, 0) /\ Live(vm') = Live(vm)
    BY <1>1, <1>2, <1>3, RestartedRight DEF DebugInv
  <1>6. IInv'
    BY <1>1, <1>4, SliceEnds DEF DebugInv
  <1> QED BY <1>1, <1>2, <1>5, <1>6 DEF SelectedExists, AtPrompt, Ready

LEMMA CountsDebug ==
  ASSUME DebugInv, NEW u \in Threads, Counts(u)
  PROVE  DebugInv'
  <1>1. /\ IInv' /\ Live(vm') = Live(vm) /\ SelectedExists' /\ u \in Live(vm)
        /\ UNCHANGED <<code, selected, uses>>
        /\ \E n \in Nat : disabled' = [disabled EXCEPT ![u] = n]
    <2>1. disabled[u] + 1 \in Nat
      BY DEF DebugInv, CodeTypes
    <2> QED BY <2>1, DisableRight, EnableRight, ContinueRight DEF Counts
  <1>2. Bounded(vm')
    BY <1>1, StillBounded DEF DebugInv
  <1>3. CodeTypes' /\ DeadAreForgotten'
    BY <1>1 DEF DebugInv, CodeTypes, DeadAreForgotten
  <1> QED BY <1>1, <1>2, <1>3 DEF DebugInv

(* A thread enters the function it was about to start.                     *)
LEMMA EnterFunctionRight ==
  ASSUME DebugInv, NEW t \in Threads, EnterFunction(t)
  PROVE  /\ IInv' /\ SameCounts(vm', vm) /\ SelectedExists' /\ vm.fault = "none"
         /\ t \in Live(vm) /\ code[t].entry # "inside"
         /\ code[t].entry = "start" => vm' = vm
         /\ code' = [code EXCEPT ![t] = [frames |-> Append(code[t].frames, Call(code[t].cont)),
                                         entry |-> "inside", cont |-> code[t].cont]]
         /\ UNCHANGED <<selected, disabled, uses>>
  <1>1. /\ Executes(t) /\ code[t].entry # "inside"
        /\ vm' = IF code[t].entry = "start" THEN vm ELSE [vm EXCEPT !.fault = "crash"]
        /\ code' = [code EXCEPT ![t] = [frames |-> Append(@.frames, Call(@.cont)),
                                        entry |-> "inside", cont |-> @.cont]]
        /\ UNCHANGED <<pause, selected, disabled, uses>>
    BY DEF EnterFunction
  <1>2. /\ vm.status[t] = "Running" /\ Consistent(vm) /\ LocksAgree(vm) /\ vm \in VMStates
        /\ pause = "NoReason" /\ vm.fault = "none"
    BY <1>1, ExecutesRunning DEF DebugInv, Consistent
  <1>3. Consistent(vm') /\ SameLocks(vm', vm)
    <2>1. SameLocks(vm, vm)
      BY DEF SameLocks
    <2> QED BY <1>1, <1>2, <2>1, FaultConsistent
  <1>4. LocksAgree(vm')
    BY <1>2, <1>3, SameLocksAgree
  <1>5. vm'.current = vm.current /\ vm'.status = vm.status /\ SameCounts(vm', vm)
    BY <1>1, <1>2 DEF VMStates, SameCounts, Live
  <1>6. IInv'
    BY <1>1, <1>2, <1>3, <1>4, <1>5, SliceGoesOn DEF DebugInv
  <1>7. SelectedExists'
    BY <1>1, <1>2 DEF SelectedExists, AtPrompt
  <1> QED BY <1>1, <1>2, <1>5, <1>6, <1>7 DEF Live, LiveStatuses

LEMMA EnterFunctionDebug ==
  ASSUME DebugInv, NEW t \in Threads, EnterFunction(t)
  PROVE  DebugInv'
  <1> DEFINE d == [frames |-> Append(code[t].frames, Call(code[t].cont)),
                   entry |-> "inside", cont |-> code[t].cont]
  <1>1. /\ IInv' /\ SameCounts(vm', vm) /\ SelectedExists'
        /\ t \in Live(vm) /\ code' = [code EXCEPT ![t] = d]
        /\ UNCHANGED <<selected, disabled, uses>>
    BY EnterFunctionRight
  <1>2. Bounded(vm')
    BY <1>1, StillBounded DEF DebugInv, SameCounts
  <1>3. d \in Codes
    <2>1. code[t].frames \in Seq(StackFrames) /\ code[t].cont \in Conts
      BY FramesOf DEF DebugInv
    <2>2. Call(code[t].cont) \in StackFrames
      BY <2>1 DEF Call, StackFrames, Calls
    <2>3. Append(code[t].frames, Call(code[t].cont)) \in Seq(StackFrames)
      BY <2>1, <2>2
    <2> QED BY <2>1, <2>3 DEF Codes, Entries
  <1> HIDE DEF d
  <1>4. CodeTypes'
    BY <1>1, <1>3, NewCode DEF DebugInv, CodeTypes
  <1>5. DeadAreForgotten'
    BY <1>1 DEF DebugInv, DeadAreForgotten, SameCounts, CodeTypes
  <1> QED BY <1>1, <1>2, <1>4, <1>5 DEF DebugInv

(* A new thread.                                                           *)
LEMMA SpawnThreadRight ==
  ASSUME DebugInv, NEW t \in Threads, SpawnThread(t)
  PROVE  /\ IInv' /\ SelectedExists' /\ vm.fault = "none"
         /\ UNCHANGED <<selected, disabled, uses>>
         /\ \E u \in Threads \ Live(vm) :
              /\ Live(vm') = Live(vm) \cup {u} /\ CountsBut(vm', vm, u, 0)
              /\ code' = [code EXCEPT ![u] = Fresh("stop_thread")]
  <1>1. /\ Spawn(t) /\ Executes(t) /\ pause' = pause
        /\ code' = [u \in Threads |-> IF u \in Live(vm') \ Live(vm)
                                        THEN Fresh("stop_thread") ELSE code[u]]
        /\ UNCHANGED <<selected, disabled, uses>>
    BY DEF SpawnThread, Spawn
  <1>2. PICK u \in Threads : IsNextId(vm, u) /\ vm' = ThreadRestart(ThreadMake(vm, u), u)
    BY <1>1 DEF Spawn
  <1>3. vm.status[u] = "Unmade" /\ vm \in VMStates
    BY <1>2 DEF IsNextId, DebugInv, IInv, Consistent
  <1> DEFINE q == ThreadMake(vm, u)
  <1>4. /\ q \in VMStates /\ CountsBut(q, vm, u, 1) /\ Live(q) = Live(vm) \cup {u}
        /\ u \notin Live(vm)
    BY <1>3, MakeRight
  <1> HIDE DEF q
  <1>5. q.suspendCount[u] = 1
    BY <1>4 DEF CountsBut
  <1>6. CountsBut(ThreadRestart(q, u), q, u, 0) /\ Live(ThreadRestart(q, u)) = Live(q)
    BY <1>4, <1>5, ThreadRestartRight
  <1>7. Live(vm') = Live(vm) \cup {u} /\ CountsBut(vm', vm, u, 0)
    BY <1>2, <1>4, <1>6 DEF CountsBut, q
  <1>8. code' = [code EXCEPT ![u] = Fresh("stop_thread")]
    BY <1>1, <1>4, <1>7 DEF DebugInv, CodeTypes
  <1>9. IInv'
    BY <1>1, SpawnIInv DEF DebugInv
  <1>10. SelectedExists' /\ vm.fault = "none"
    BY <1>1 DEF SelectedExists, AtPrompt, Executes
  <1> QED BY <1>1, <1>4, <1>7, <1>8, <1>9, <1>10

LEMMA OneMoreDebug ==
  ASSUME DebugInv, IInv', SelectedExists', NEW u \in Threads \ Live(vm), NEW c \in Conts,
         Live(vm') = Live(vm) \cup {u}, code' = [code EXCEPT ![u] = Fresh(c)],
         UNCHANGED <<selected, disabled, uses>>
  PROVE  DebugInv'
  <1>1. Bounded(vm')
    BY OneMoreBounded DEF DebugInv
  <1>2. CodeTypes'
    BY FreshType, NewCode DEF DebugInv, CodeTypes
  <1>3. DeadAreForgotten'
    BY DEF DebugInv, DeadAreForgotten, CodeTypes
  <1> QED BY <1>1, <1>2, <1>3 DEF DebugInv

LEMMA SpawnThreadDebug ==
  ASSUME DebugInv, NEW t \in Threads, SpawnThread(t)
  PROVE  DebugInv'
  <1>1. "stop_thread" \in Conts
    BY DEF Conts
  <1> QED BY <1>1, SpawnThreadRight, OneMoreDebug

(* A command's code on a thread of its own.                                *)
LEMMA RunOnHelperRight ==
  ASSUME DebugInv, vm.fault = "none", NEW c, NEW others \in BOOLEAN,
         RunOnHelper(c, others)
  PROVE  /\ Consistent(vm') /\ LocksAgree(vm') /\ pause' = "PickNewThread"
         /\ \E u \in Threads \ Live(vm) :
              /\ Live(vm') = Live(vm) \cup {u} /\ vm'.suspendCount[u] = 0
              /\ \A v \in Live(vm) : vm'.suspendCount[v] =
                   IF others THEN vm.suspendCount[v] + 1 ELSE vm.suspendCount[v]
              /\ code' = [code EXCEPT ![u] = Fresh(c)]
  <1>1. PICK u \in Threads :
          /\ IsNextId(vm, u)
          /\ vm' = ThreadRestart(IF others THEN SuspendOthers(ThreadMake(vm, u), u)
                                 ELSE ThreadMake(vm, u), u)
          /\ code' = [code EXCEPT ![u] = Fresh(c)]
          /\ pause' = "PickNewThread"
    BY DEF RunOnHelper
  <1>2. /\ vm.status[u] = "Unmade" /\ vm \in VMStates /\ Consistent(vm) /\ LocksAgree(vm)
    BY <1>1 DEF IsNextId, DebugInv, IInv, Consistent
  <1> DEFINE q == ThreadMake(vm, u)
             r == IF others THEN SuspendOthers(q, u) ELSE q
             v1 == ThreadRestart(r, u)
  <1>3. /\ Consistent(q) /\ SameLocks(q, vm)
        /\ CountsBut(q, vm, u, 1) /\ Live(q) = Live(vm) \cup {u} /\ u \notin Live(vm)
    BY <1>2, MakeRight, ThreadMakeConsistent
  <1> HIDE DEF q
  <1>4. /\ Consistent(r) /\ SameLocks(r, vm) /\ Live(r) = Live(q) /\ r.suspendCount[u] = 1
        /\ \A v \in Live(vm) : r.suspendCount[v] =
             IF others THEN vm.suspendCount[v] + 1 ELSE vm.suspendCount[v]
    <2>1. CASE others
      <3>1. /\ Consistent(SuspendOthers(q, u)) /\ SameBut(SuspendOthers(q, u), q)
            /\ Live(SuspendOthers(q, u)) = Live(q)
            /\ \A v \in Threads : SuspendOthers(q, u).suspendCount[v] =
                 IF v \in Live(q) \ {u} THEN q.suspendCount[v] + 1 ELSE q.suspendCount[v]
        BY <1>3, SuspendOthersRight
      <3> QED BY <1>3, <2>1, <3>1 DEF SameBut, SameLocks, CountsBut, Live
    <2>2. CASE ~ others
      BY <1>3, <2>2 DEF CountsBut, Live
    <2> QED BY <2>1, <2>2
  <1> HIDE DEF r
  <1>5. r \in VMStates /\ LocksAgree(r)
    BY <1>2, <1>4, SameLocksAgree DEF Consistent
  <1>6. /\ Consistent(v1) /\ SameLocks(v1, r)
        /\ CountsBut(v1, r, u, 0) /\ Live(v1) = Live(r)
    BY <1>4, <1>5, ThreadRestartConsistent, ThreadRestartRight
  <1>7. LocksAgree(v1)
    BY <1>5, <1>6, SameLocksAgree
  <1>8. vm' = v1
    BY <1>1 DEF q, r
  <1> HIDE DEF v1
  <1>9. /\ vm'.suspendCount[u] = 0
        /\ \A v \in Live(vm) : vm'.suspendCount[v] =
             IF others THEN vm.suspendCount[v] + 1 ELSE vm.suspendCount[v]
    BY <1>3, <1>4, <1>6, <1>8 DEF CountsBut, Live
  <1> QED BY <1>1, <1>3, <1>4, <1>6, <1>7, <1>8, <1>9

LEMMA HelperDebug ==
  ASSUME DebugInv, vm.fault = "none", NEW c \in Conts, NEW others \in BOOLEAN,
         RunOnHelper(c, others), UNCHANGED <<selected, disabled, uses>>
  PROVE  DebugInv'
  <1>1. /\ Consistent(vm') /\ LocksAgree(vm') /\ pause' = "PickNewThread"
        /\ \E u \in Threads \ Live(vm) :
             /\ Live(vm') = Live(vm) \cup {u}
             /\ code' = [code EXCEPT ![u] = Fresh(c)]
    BY RunOnHelperRight
  <1>2. IInv' /\ SelectedExists'
    BY <1>1, SliceEnds DEF DebugInv, SelectedExists, AtPrompt
  <1> QED BY <1>1, <1>2, OneMoreDebug

(* A non-local exit.                                                       *)
LEMMA UnwindDebug ==
  ASSUME DebugInv, NEW t \in Threads, Unwind(t)
  PROVE  DebugInv'
  <1>1. PICK k \in DOMAIN code[t].frames :
          code' = [code EXCEPT ![t].frames = SubSeq(@, 1, k)]
    BY DEF Unwind
  <1>2. /\ vm' = vm /\ pause' = pause /\ UNCHANGED <<selected, disabled, uses>>
        /\ Executes(t)
    BY DEF Unwind, Inside
  <1>3. t \in Live(vm)
    BY <1>2, ExecutesRunning DEF DebugInv, Live, LiveStatuses
  <1>4. IInv' /\ SelectedExists' /\ Bounded(vm')
    BY <1>2 DEF DebugInv, IInv, CurrentIsRunning, AtPrompt, SelectedExists
  <1> DEFINE d == [code[t] EXCEPT !.frames = SubSeq(code[t].frames, 1, k)]
  <1>5. code' = [code EXCEPT ![t] = d]
    BY <1>1 DEF DebugInv, CodeTypes
  <1>6. d \in Codes
    <2>1. code[t].frames \in Seq(StackFrames) /\ DOMAIN code[t].frames = 1..Len(code[t].frames)
      BY FramesOf DEF DebugInv
    <2>2. SubSeq(code[t].frames, 1, k) \in Seq(StackFrames)
      BY <2>1
    <2>3. code[t] \in Codes
      BY DEF DebugInv, CodeTypes
    <2> QED BY <2>2, <2>3 DEF Codes
  <1> HIDE DEF d
  <1>7. CodeTypes'
    BY <1>2, <1>5, <1>6, NewCode DEF DebugInv, CodeTypes
  <1>8. DeadAreForgotten'
    BY <1>2, <1>3, <1>5 DEF DebugInv, DeadAreForgotten, CodeTypes
  <1> QED BY <1>2, <1>4, <1>7, <1>8 DEF DebugInv

-----------------------------------------------------------------------------
(***************************************************************************)
(* The commands, and what ends them.                                       *)
(***************************************************************************)

LEMMA RunningKilled ==
  ASSUME NEW s, Consistent(s), s.fault = "none", NEW t \in Live(s),
         ThreadKill(s, t).fault = "none"
  PROVE  Live(ThreadKill(s, t)) = Live(s) \ {t}
  <1>1. ThreadKill(s, t).fault = "none" => Live(ThreadKill(s, t)) = Live(s) \ {t}
    BY ThreadKillRight
  <1> HIDE DEF Live
  <1> QED BY <1>1

(* A command's own thread ends.                                            *)
LEMMA KillMeRight ==
  ASSUME DebugInv, NEW t \in Threads, KillMe(t)
  PROVE  /\ IInv' /\ SelectedExists' /\ vm.fault = "none" /\ vm'.fault = "none"
         /\ t \in Live(vm) /\ Live(vm') = Live(vm) \ {t}
         /\ \A u \in Live(vm') : vm'.suspendCount[u] =
              IF Top(t).cont = "kill_me" /\ vm.suspendCount[u] > 0
                THEN vm.suspendCount[u] - 1 ELSE vm.suspendCount[u]
         /\ code' = CodeOf(vm') /\ disabled' = [disabled EXCEPT ![t] = 0]
         /\ selected' = NoThread /\ uses' = uses
  <1> DEFINE q == ThreadKill(vm, t)
             r == RestartOthers(q, NoThread)
  <1>1. /\ Executes(t)
        /\ vm' = IF Top(t).cont = "kill_me" THEN r ELSE q
        /\ pause' = "DebuggerCommandFinished" /\ selected' = NoThread
        /\ code' = CodeOf(vm') /\ disabled' = [disabled EXCEPT ![t] = 0] /\ uses' = uses
    BY DEF KillMe, Returns, Inside
  <1>2. /\ vm.status[t] = "Running" /\ vm.current = t /\ t # NoThread /\ vm.fault = "none"
        /\ Consistent(vm) /\ LocksAgree(vm)
    BY <1>1, ExecutesRunning DEF DebugInv
  <1>3. t \in Live(vm)
    BY <1>2 DEF Live, LiveStatuses
  <1>4. /\ Consistent(q) /\ SameLocks(q, vm) /\ q.current = NoThread
    BY <1>2, ThreadKillConsistent
  <1>5. /\ q.suspendCount = vm.suspendCount /\ q.fault = "none" /\ Live(q) = Live(vm) \ {t}
    <2>1. ThreadKill(vm, t).suspendCount = vm.suspendCount
      BY <1>2, <1>3, ThreadKillRight
    <2>2. ThreadKill(vm, t).fault = "none"
      BY <1>2, <1>3, ThreadKillRight
    <2>3. Live(ThreadKill(vm, t)) = Live(vm) \ {t}
      BY <1>2, <1>3, <2>2, RunningKilled
    <2> QED BY <2>1, <2>2, <2>3
  <1> HIDE DEF q
  <1>6. LocksAgree(q) /\ Bounded(q) /\ q \in VMStates
    BY <1>2, <1>4, <1>5, SameLocksAgree, StillBounded DEF DebugInv, Consistent
  <1>7. /\ Consistent(r) /\ SameBut(r, q) /\ Live(r) = Live(q)
        /\ \A u \in Live(q) \ {NoThread} : r.suspendCount[u] =
             IF q.suspendCount[u] > 0 THEN q.suspendCount[u] - 1 ELSE 0
    BY <1>4, <1>6, RestartOthersRight
  <1>8. LocksAgree(r) /\ r.current = NoThread /\ r.fault = "none"
    <2>1. SameLocks(r, q)
      BY <1>7 DEF SameBut, SameLocks
    <2> QED BY <1>4, <1>5, <1>6, <1>7, <2>1, SameLocksAgree DEF SameBut
  <1> HIDE DEF r
  <1>9. /\ Consistent(vm') /\ LocksAgree(vm') /\ vm'.current = NoThread
        /\ vm'.fault = "none" /\ Live(vm') = Live(vm) \ {t}
    BY <1>1, <1>4, <1>5, <1>6, <1>7, <1>8
  <1>10. IInv'
    BY <1>1, <1>9, AtPromptIInv DEF DebugInv, PauseReasons
  <1>11. \A u \in Live(vm') : vm'.suspendCount[u] =
              IF Top(t).cont = "kill_me" /\ vm.suspendCount[u] > 0
                THEN vm.suspendCount[u] - 1 ELSE vm.suspendCount[u]
    <2>1. \A u \in Live(q) : u # NoThread /\ q.suspendCount[u] \in Nat
      BY <1>6, ThreadsAssumption DEF Live, VMStates
    <2>2. CASE Top(t).cont = "kill_me"
      BY <1>1, <1>5, <1>7, <1>9, <2>1, <2>2
    <2>3. CASE Top(t).cont # "kill_me"
      BY <1>1, <1>5, <2>3
    <2> QED BY <2>2, <2>3
  <1>12. SelectedExists'
    BY <1>1 DEF SelectedExists
  <1> QED BY <1>1, <1>2, <1>3, <1>9, <1>10, <1>11, <1>12

LEMMA KillMeDebug ==
  ASSUME DebugInv, NEW t \in Threads, KillMe(t)
  PROVE  DebugInv'
  <1>1. /\ IInv' /\ SelectedExists' /\ Live(vm') = Live(vm) \ {t}
        /\ code' = CodeOf(vm') /\ disabled' = [disabled EXCEPT ![t] = 0]
        /\ selected' = NoThread /\ uses' = uses
    BY KillMeRight
  <1>2. Bounded(vm')
    BY <1>1, StillBounded DEF DebugInv
  <1>3. CodeTypes'
    BY <1>1, CodeOfType DEF DebugInv, CodeTypes
  <1>4. DeadAreForgotten'
    BY <1>1, CodeOfType DEF DebugInv, DeadAreForgotten, CodeTypes
  <1> QED BY <1>1, <1>2, <1>3, <1>4 DEF DebugInv

(* The commands that run code on the selected thread.                      *)
LEMMA MayUseSelected ==
  ASSUME DebugInv, Ready, selected # NoThread, MayUse(selected)
  PROVE  selected \in Live(vm) /\ vm.status[selected] \in EscapeStatuses
  BY DEF DebugInv, SelectedExists, Ready, MayUse, Live, LiveStatuses, EscapeStatuses

(* c with the n frames below its escape frame, and the other threads       *)
(* suspended or not.                                                       *)
Commanded(c, pushed, others) ==
  /\ Ready /\ selected # NoThread /\ MayOverlap(selected)
  /\ RunOn(vm, selected, c, pushed, others)
  /\ UNCHANGED <<selected, disabled, uses>>

Commandable(c, pushed, others) ==
  \/ c = "debugger_cmd_finished" /\ pushed = <<>> /\ others = TRUE
  \/ c = "debugger_cmd_finished_without_restart" /\ pushed = <<>> /\ others = FALSE
  \/ /\ c = "maybe_return" /\ pushed \in {<<>>, <<Flag(TRUE)>>, <<Flag(FALSE)>>}
     /\ others = TRUE

Helped(c, others) ==
  /\ Ready /\ selected = NoThread /\ MayOverlap(selected)
  /\ RunOnHelper(c, others)
  /\ UNCHANGED <<selected, disabled, uses>>

LEMMA CommandForms ==
  ASSUME CallCommand \/ ReturnCommand \/ StepCommand \/ RestartCommand
  PROVE  \/ \E c, pushed, others :
              Commandable(c, pushed, others) /\ Commanded(c, pushed, others)
         \/ Helped("kill_me", TRUE)
         \/ Helped("kill_me_without_restart", FALSE)
  <1>1. CASE CallCommand
    <2>1. PICK others \in BOOLEAN :
            \/ /\ selected = NoThread
               /\ RunOnHelper(IF others THEN "kill_me" ELSE "kill_me_without_restart",
                              others)
            \/ /\ selected # NoThread
               /\ RunOn(vm, selected,
                        IF others THEN "debugger_cmd_finished"
                        ELSE "debugger_cmd_finished_without_restart",
                        <<>>, others)
      BY <1>1 DEF CallCommand
    <2>2. Ready /\ MayOverlap(selected) /\ UNCHANGED <<selected, disabled, uses>>
      BY <1>1 DEF CallCommand
    <2>3. CASE others
      BY <2>1, <2>2, <2>3 DEF Helped, Commanded, Commandable
    <2>4. CASE ~ others
      BY <2>1, <2>2, <2>4 DEF Helped, Commanded, Commandable
    <2> QED BY <2>3, <2>4
  <1>2. CASE ReturnCommand
    BY <1>2 DEF ReturnCommand, Commanded, Commandable
  <1>3. CASE StepCommand
    BY <1>3 DEF StepCommand, Commanded, Commandable
  <1>4. CASE RestartCommand
    BY <1>4 DEF RestartCommand, Commanded, Commandable
  <1> QED BY <1>1, <1>2, <1>3, <1>4

LEMMA CommandableTypes ==
  ASSUME NEW c, NEW pushed, NEW others, Commandable(c, pushed, others)
  PROVE  c \in Finishers /\ c \in Conts /\ pushed \in Seq(Flags) /\ others \in BOOLEAN
  <1>1. <<>> \in Seq(Flags) /\ <<Flag(TRUE)>> \in Seq(Flags) /\ <<Flag(FALSE)>> \in Seq(Flags)
    BY DEF Flags, Flag
  <1> QED BY <1>1 DEF Commandable, Conts, Finishers

LEMMA CommandedDebug ==
  ASSUME DebugInv, NEW c, NEW pushed, NEW others, Commandable(c, pushed, others),
         Commanded(c, pushed, others)
  PROVE  DebugInv'
  <1>1. /\ Ready /\ selected # NoThread /\ RunOn(vm, selected, c, pushed, others)
        /\ UNCHANGED <<selected, disabled, uses>> /\ MayUse(selected)
    BY DEF Commanded, RunOn
  <1>2. selected \in Live(vm) /\ vm.status[selected] \in EscapeStatuses
    BY <1>1, MayUseSelected
  <1>3. c \in Conts /\ pushed \in Seq(Flags) /\ others \in BOOLEAN
    BY CommandableTypes
  <1>4. /\ Consistent(vm) /\ LocksAgree(vm) /\ vm.fault = "none"
        /\ selected' \in Threads \cup {NoThread} /\ UNCHANGED <<disabled, uses>>
    BY <1>1 DEF DebugInv, IInv, Ready, CodeTypes
  <1> QED BY <1>1, <1>2, <1>3, <1>4, RunOnDebug

LEMMA CommandsDebug ==
  ASSUME DebugInv, CallCommand \/ ReturnCommand \/ StepCommand \/ RestartCommand
  PROVE  DebugInv'
  <1>1. CASE \E c, pushed, others :
               Commandable(c, pushed, others) /\ Commanded(c, pushed, others)
    BY <1>1, CommandedDebug
  <1>2. CASE Helped("kill_me", TRUE)
    BY <1>2, HelperDebug DEF Helped, Ready, Conts, Killers
  <1>3. CASE Helped("kill_me_without_restart", FALSE)
    BY <1>3, HelperDebug DEF Helped, Ready, Conts, Killers
  <1> QED BY <1>1, <1>2, <1>3, CommandForms

(* An unhandled condition.                                                 *)
LEMMA EnterDebuggerForms ==
  ASSUME DebugInv, NEW t \in Threads, EnterDebugger(t)
  PROVE  /\ t \in Live(vm) /\ vm.fault = "none" /\ selected' = t
         /\ UNCHANGED <<disabled, uses>> /\ code[t].entry = "inside"
         /\ \E s : /\ Consistent(s) /\ LocksAgree(s) /\ s.fault = "none"
                   /\ SameCounts(s, vm) /\ s.status[t] = "Debuggered"
                   /\ s.current = NoThread
                   /\ \/ vm' = s /\ pause' = "DebuggerInvoked" /\ code' = code
                      \/ RunOn(s, t, "debugger_cmd_finished", <<>>, TRUE)
  <1> DEFINE q == ThreadDebuggered(vm, t)
             s == [q EXCEPT !.current = NoThread]
  <1>1. Executes(t) /\ selected' = t /\ UNCHANGED <<disabled, uses>> /\ code[t].entry = "inside"
    BY DEF EnterDebugger, Inside
  <1>2. /\ vm.status[t] = "Running" /\ Consistent(vm) /\ LocksAgree(vm) /\ vm.fault = "none"
    BY <1>1, ExecutesRunning DEF DebugInv
  <1>3. /\ Consistent(q) /\ SameLocks(q, vm) /\ q.fault = vm.fault
        /\ SameCounts(q, vm) /\ q.status[t] = "Debuggered"
    BY <1>2, ThreadDebuggeredConsistent, DebuggeredRight
  <1>4. \/ vm' = s /\ pause' = "DebuggerInvoked" /\ code' = code
        \/ RunOn(s, t, "debugger_cmd_finished", <<>>, TRUE)
    BY DEF EnterDebugger
  <1> HIDE DEF q
  <1>5. LocksAgree(q) /\ q \in VMStates
    BY <1>2, <1>3, SameLocksAgree DEF Consistent
  <1>6. Consistent(s) /\ LocksAgree(s) /\ s.current = NoThread
    BY <1>3, <1>5, NoCurrentConsistent
  <1>7. s.fault = "none" /\ s.status = q.status /\ s.suspendCount = q.suspendCount
    BY <1>2, <1>3, <1>5 DEF VMStates
  <1> HIDE DEF s
  <1>8. SameCounts(s, vm) /\ s.status[t] = "Debuggered"
    BY <1>3, <1>7 DEF SameCounts, Live
  <1>9. t \in Live(vm)
    BY <1>2 DEF Live, LiveStatuses
  <1> QED BY <1>1, <1>2, <1>4, <1>6, <1>7, <1>8, <1>9

LEMMA EnterDebuggerDebug ==
  ASSUME DebugInv, NEW t \in Threads, EnterDebugger(t)
  PROVE  DebugInv'
  <1>1. PICK s : /\ Consistent(s) /\ LocksAgree(s) /\ s.fault = "none"
                 /\ SameCounts(s, vm) /\ s.status[t] = "Debuggered"
                 /\ s.current = NoThread
                 /\ \/ vm' = s /\ pause' = "DebuggerInvoked" /\ code' = code
                    \/ RunOn(s, t, "debugger_cmd_finished", <<>>, TRUE)
    BY EnterDebuggerForms
  <1>2. t \in Live(vm) /\ vm.fault = "none" /\ selected' = t /\ UNCHANGED <<disabled, uses>>
    BY EnterDebuggerForms
  <1>3. CASE vm' = s /\ pause' = "DebuggerInvoked" /\ code' = code
    <2>1. IInv'
      BY <1>1, <1>3, AtPromptIInv DEF DebugInv, PauseReasons
    <2>2. Live(vm') = Live(vm)
      BY <1>1, <1>3 DEF SameCounts
    <2>3. Bounded(vm')
      BY <2>2, StillBounded DEF DebugInv
    <2>4. CodeTypes' /\ DeadAreForgotten' /\ SelectedExists'
      BY <1>2, <1>3, <2>2 DEF DebugInv, CodeTypes, DeadAreForgotten, SelectedExists
    <2> QED BY <1>2, <2>1, <2>3, <2>4 DEF DebugInv
  <1>4. CASE RunOn(s, t, "debugger_cmd_finished", <<>>, TRUE)
    <2>1. Live(s) = Live(vm) /\ s.status[t] \in EscapeStatuses /\ selected' \in Threads \cup {NoThread}
      BY <1>1, <1>2 DEF SameCounts, EscapeStatuses
    <2>2. "debugger_cmd_finished" \in Conts /\ <<>> \in Seq(Flags)
      BY DEF Conts, Finishers
    <2> QED BY <1>1, <1>2, <1>4, <2>1, <2>2, RunOnDebug
  <1> QED BY <1>1, <1>3, <1>4

(***************************************************************************)
(* The continuations that pop an escape frame.                             *)
(***************************************************************************)
LEMMA ReturnsTop ==
  ASSUME DebugInv, NEW t \in Threads, NEW cs, Returns(t, cs)
  PROVE  /\ vm.status[t] = "Running" /\ vm.fault = "none" /\ pause = "NoReason"
         /\ vm.current = t /\ t # NoThread /\ t \in Live(vm) /\ code[t].entry = "inside"
         /\ Len(code[t].frames) \in Nat /\ Len(code[t].frames) > 0
         /\ Top(t) = code[t].frames[Len(code[t].frames)]
         /\ Top(t) = Call(Top(t).cont) /\ Top(t).cont \in cs /\ Top(t).cont \in Conts
         /\ FindsEscape(t) =>
              /\ Len(code[t].frames) > 1
              /\ Last(Below(t)) = code[t].frames[Len(code[t].frames) - 1]
              /\ Last(Below(t)).kind = "escape"
              /\ RightEscape(Last(Below(t))) /\ Last(Below(t)).entry \in Entries
         /\ Len(code[t].frames) > 1 /\ code[t].frames[Len(code[t].frames) - 1].kind = "escape"
              => FindsEscape(t)
  <1> DEFINE fs == code[t].frames
             n == Len(fs)
  <1>1. Executes(t) /\ fs # <<>> /\ Top(t).kind = "call" /\ Top(t).cont \in cs
        /\ code[t].entry = "inside"
    BY DEF Returns, Inside
  <1>2. /\ vm.status[t] = "Running" /\ vm.fault = "none" /\ pause = "NoReason"
        /\ vm.current = t /\ t # NoThread
    BY <1>1, ExecutesRunning DEF DebugInv
  <1>3. fs \in Seq(StackFrames) /\ n \in Nat /\ \A i \in 1..n : fs[i] \in StackFrames
    BY FramesOf DEF DebugInv
  <1>4. n > 0
    BY <1>1, <1>3
  <1>5. Top(t) = fs[n]
    BY DEF Top, Last
  <1> HIDE DEF fs
  <1>6. Top(t) = Call(Top(t).cont) /\ Top(t).cont \in Conts
    <2>1. fs[n] \in StackFrames
      BY <1>3, <1>4
    <2> QED BY <1>1, <1>5, <2>1, FramesByKind
  <1>7. Below(t) \in Seq(StackFrames) /\ Len(Below(t)) = n - 1
        /\ \A i \in 1..(n - 1) : Below(t)[i] = fs[i]
    <2>1. Below(t) = SubSeq(fs, 1, n - 1)
      BY DEF Below, Front, fs
    <2>2. \A m \in 0..n : /\ SubSeq(fs, 1, m) \in Seq(StackFrames)
                          /\ Len(SubSeq(fs, 1, m)) = m
                          /\ \A i \in 1..m : SubSeq(fs, 1, m)[i] = fs[i]
      BY <1>3
    <2>3. n - 1 \in 0..n
      BY <1>3, <1>4
    <2> QED BY <2>1, <2>2, <2>3
  <1>8. n > 1 => Below(t) # <<>> /\ Last(Below(t)) = fs[n - 1]
    BY <1>3, <1>7 DEF Last
  <1>9. n = 1 => Below(t) = <<>>
    BY <1>7
  <1>10. FindsEscape(t) =>
            /\ n > 1 /\ Last(Below(t)) = fs[n - 1] /\ Last(Below(t)).kind = "escape"
            /\ RightEscape(Last(Below(t))) /\ Last(Below(t)).entry \in Entries
    <2> SUFFICES ASSUME FindsEscape(t)
                 PROVE  /\ n > 1 /\ Last(Below(t)) = fs[n - 1] /\ Last(Below(t)).kind = "escape"
                        /\ RightEscape(Last(Below(t))) /\ Last(Below(t)).entry \in Entries
      OBVIOUS
    <2>1. n > 1
      <3>1. Below(t) # <<>>
        BY DEF FindsEscape
      <3>2. n \in Nat /\ n > 0 /\ n # 1
        BY <1>3, <1>4, <1>9, <3>1
      <3> HIDE DEF n
      <3> QED BY <3>2
    <2>2. Last(Below(t)) = fs[n - 1] /\ fs[n - 1] \in StackFrames
      BY <1>3, <1>8, <2>1
    <2>3. Last(Below(t)).kind = "escape"
      BY DEF FindsEscape
    <2> QED BY <2>1, <2>2, <2>3, FramesByKind
  <1>11. n > 1 /\ fs[n - 1].kind = "escape" => FindsEscape(t)
    BY <1>8 DEF FindsEscape
  <1>12. t \in Live(vm)
    BY <1>2 DEF Live, LiveStatuses
  <1> QED BY <1>1, <1>2, <1>3, <1>4, <1>5, <1>6, <1>10, <1>11, <1>12 DEF fs

LEMMA PoppedRight ==
  ASSUME DebugInv, NEW t \in Threads, NEW cs, Returns(t, cs), FindsEscape(t), NEW q,
         q = PopEscape(vm, t, Last(Below(t)))
  PROVE  /\ Consistent(q) /\ LocksAgree(q) /\ Live(q) = Live(vm) /\ q.fault = "none"
         /\ OthersSame(q, vm, t) /\ q.current = t
         /\ q.status[t] = IF Last(Below(t)).status = "Waiting" THEN "Running"
                          ELSE Last(Below(t)).status
         /\ q.suspendCount[t] = IF Last(Below(t)).status = "Suspended"
                                  THEN Last(Below(t)).count ELSE 0
  <1> DEFINE e == Last(Below(t))
  <1>1. /\ vm.status[t] = "Running" /\ vm.fault = "none" /\ vm.current = t /\ RightEscape(e)
    BY ReturnsTop
  <1>2. Consistent(vm) /\ LocksAgree(vm)
    BY DEF DebugInv, IInv
  <1> HIDE DEF e
  <1>3. q = PopEscape(vm, t, e)
    BY DEF e
  <1>4. /\ Consistent(q) /\ SameLocks(q, vm) /\ OthersSame(q, vm, t)
        /\ q.current = vm.current /\ q.fault = vm.fault /\ Live(q) = Live(vm)
        /\ q.status[t] = IF e.status = "Waiting" THEN "Running" ELSE e.status
        /\ q.suspendCount[t] = IF e.status = "Suspended" THEN e.count ELSE 0
    BY <1>1, <1>2, <1>3, PopEscapeRight
  <1>5. LocksAgree(q)
    BY <1>2, <1>4, SameLocksAgree
  <1> QED BY <1>1, <1>4, <1>5 DEF e

(* The code of t when its top n frames go.                                 *)
LEMMA EscapedType ==
  ASSUME DebugInv, NEW t \in Threads, NEW cs, Returns(t, cs), FindsEscape(t),
         NEW n \in {2, 3}, n = 3 => HasFlag(t), code' = Escaped(t, n)
  PROVE  /\ code' \in [Threads -> Codes]
         /\ \A u \in Threads \ {t} : code'[u] = code[u]
         /\ code'[t].frames = SubSeq(code[t].frames, 1, Len(code[t].frames) - n)
         /\ code'[t].entry = Last(Below(t)).entry
         /\ code'[t].cont = Top(t).cont
         /\ Len(code[t].frames) - n \in Nat
  <1> DEFINE k == Len(code[t].frames) - n
             d == [frames |-> SubSeq(code[t].frames, 1, k),
                   entry  |-> Last(Below(t)).entry, cont   |-> Top(t).cont]
  <1>1. /\ Len(code[t].frames) \in Nat /\ Len(code[t].frames) > 1
        /\ Last(Below(t)).entry \in Entries /\ Top(t).cont \in Conts
    BY ReturnsTop
  <1>2. code[t].frames \in Seq(StackFrames)
    BY FramesOf DEF DebugInv
  <1>3. k \in Nat /\ k <= Len(code[t].frames)
    BY <1>1 DEF HasFlag
  <1> HIDE DEF k
  <1>4. SubSeq(code[t].frames, 1, k) \in Seq(StackFrames)
    BY <1>2, <1>3
  <1>5. d \in Codes
    BY <1>1, <1>4 DEF Codes
  <1>6. code' = [code EXCEPT ![t] = d]
    BY DEF Escaped, k
  <1>7. d.frames = SubSeq(code[t].frames, 1, k) /\ d.entry = Last(Below(t)).entry
        /\ d.cont = Top(t).cont
    OBVIOUS
  <1> HIDE DEF d
  <1>8. code' \in [Threads -> Codes]
    BY <1>5, <1>6, NewCode DEF DebugInv
  <1>9. code'[t] = d /\ \A u \in Threads \ {t} : code'[u] = code[u]
    BY <1>6 DEF DebugInv, CodeTypes
  <1> QED BY <1>3, <1>7, <1>8, <1>9 DEF k

LEMMA CommandFinishedRight ==
  ASSUME DebugInv, NEW t \in Threads, CommandFinished(t)
  PROVE  /\ IInv' /\ SelectedExists' /\ Live(vm') = Live(vm) /\ vm'.fault = "none"
         /\ Returns(t, Finishers \ {"maybe_return"}) /\ FindsEscape(t)
         /\ \A u \in Live(vm) \ {t} : vm'.suspendCount[u] =
              IF Top(t).cont = "debugger_cmd_finished" /\ vm.suspendCount[u] > 0
                THEN vm.suspendCount[u] - 1 ELSE vm.suspendCount[u]
         /\ vm'.suspendCount[t] = IF Last(Below(t)).status = "Suspended"
                                    THEN Last(Below(t)).count ELSE 0
         /\ code' = Escaped(t, 2) /\ UNCHANGED <<disabled, uses>>
         /\ selected' \in Threads \cup {NoThread}
  <1> DEFINE p == PopEscape(vm, t, Last(Below(t)))
             q == [p EXCEPT !.current = NoThread]
             r == RestartOthers(q, t)
  <1>1. /\ Returns(t, Finishers \ {"maybe_return"}) /\ FindsEscape(t)
        /\ vm' = IF Top(t).cont = "debugger_cmd_finished" THEN r ELSE q
        /\ code' = Escaped(t, 2) /\ pause' = "DebuggerCommandFinished"
        /\ selected' = Validated(vm) /\ UNCHANGED <<disabled, uses>>
    BY DEF CommandFinished
  <1>2. /\ Consistent(p) /\ LocksAgree(p) /\ Live(p) = Live(vm) /\ p.fault = "none"
        /\ OthersSame(p, vm, t)
        /\ p.suspendCount[t] = IF Last(Below(t)).status = "Suspended"
                                 THEN Last(Below(t)).count ELSE 0
    BY <1>1, PoppedRight
  <1> HIDE DEF p
  <1>3. Consistent(q) /\ LocksAgree(q) /\ q.current = NoThread
    BY <1>2, NoCurrentConsistent
  <1>4. q.suspendCount = p.suspendCount /\ q.status = p.status /\ q.fault = p.fault
    BY <1>2 DEF Consistent, VMStates
  <1> HIDE DEF q
  <1>5. Live(q) = Live(vm) /\ Bounded(q) /\ q \in VMStates
    <2>1. Live(q) = Live(vm)
      BY <1>2, <1>4 DEF Live
    <2> QED BY <1>3, <2>1, StillBounded DEF DebugInv, Consistent
  <1>6. /\ Consistent(r) /\ SameBut(r, q) /\ Live(r) = Live(q)
        /\ r.suspendCount[t] = q.suspendCount[t]
        /\ \A u \in Live(q) \ {t} : r.suspendCount[u] =
             IF q.suspendCount[u] > 0 THEN q.suspendCount[u] - 1 ELSE 0
    BY <1>3, <1>5, RestartOthersRight
  <1> HIDE DEF r
  <1>7. LocksAgree(r) /\ r.current = NoThread /\ r.fault = "none"
    <2>1. SameLocks(r, q)
      BY <1>6 DEF SameBut, SameLocks
    <2> QED BY <1>2, <1>3, <1>4, <1>6, <2>1, SameLocksAgree DEF SameBut
  <1>8. /\ Consistent(vm') /\ LocksAgree(vm') /\ vm'.current = NoThread
        /\ vm'.fault = "none" /\ Live(vm') = Live(vm)
    BY <1>1, <1>2, <1>3, <1>4, <1>5, <1>6, <1>7
  <1>9. IInv'
    BY <1>1, <1>8, AtPromptIInv DEF DebugInv, PauseReasons
  <1>10. \A u \in Live(vm) \ {t} : q.suspendCount[u] = vm.suspendCount[u]
                                    /\ q.suspendCount[u] \in Nat
    BY <1>2, <1>4, <1>5 DEF OthersSame, Live, VMStates
  <1>11. \A u \in Live(vm) \ {t} : vm'.suspendCount[u] =
              IF Top(t).cont = "debugger_cmd_finished" /\ vm.suspendCount[u] > 0
                THEN vm.suspendCount[u] - 1 ELSE vm.suspendCount[u]
    <2>1. CASE Top(t).cont = "debugger_cmd_finished"
      BY <1>1, <1>5, <1>6, <1>10, <2>1
    <2>2. CASE Top(t).cont # "debugger_cmd_finished"
      BY <1>1, <1>10, <2>2
    <2> QED BY <2>1, <2>2
  <1>12. vm'.suspendCount[t] = p.suspendCount[t]
    BY <1>1, <1>4, <1>6
  <1>13. SelectedExists' /\ selected' \in Threads \cup {NoThread}
    BY <1>1, <1>8 DEF SelectedExists, Validated, Live
  <1> QED BY <1>1, <1>2, <1>8, <1>9, <1>11, <1>12, <1>13

(* The steps of a continuation that pops an escape frame, for the types.   *)
LEMMA EscapedDebug ==
  ASSUME DebugInv, NEW t \in Threads, NEW cs, Returns(t, cs), FindsEscape(t),
         NEW n \in {2, 3}, n = 3 => HasFlag(t), code' = Escaped(t, n),
         IInv', SelectedExists', Live(vm') = Live(vm), UNCHANGED <<disabled, uses>>,
         selected' \in Threads \cup {NoThread}
  PROVE  DebugInv'
  <1>1. Bounded(vm')
    BY StillBounded DEF DebugInv
  <1>2. code' \in [Threads -> Codes] /\ \A u \in Threads \ {t} : code'[u] = code[u]
    BY EscapedType
  <1>3. t \in Live(vm)
    BY ReturnsTop
  <1>4. CodeTypes' /\ DeadAreForgotten'
    BY <1>2, <1>3 DEF DebugInv, CodeTypes, DeadAreForgotten
  <1> QED BY <1>1, <1>4 DEF DebugInv

LEMMA CommandFinishedDebug ==
  ASSUME DebugInv, NEW t \in Threads, CommandFinished(t)
  PROVE  DebugInv'
  BY CommandFinishedRight, EscapedDebug

LEMMA ReturnRefusedDebug ==
  ASSUME DebugInv, NEW t \in Threads, ReturnRefused(t)
  PROVE  DebugInv'
  <1> DEFINE p == PopEscape(vm, t, Last(Below(t)))
             x == IF HasFlag(t) THEN "none" ELSE "crash"
  <1>1. /\ Returns(t, {"maybe_return"}) /\ FindsEscape(t)
        /\ vm' = [p EXCEPT !.current = NoThread, !.fault = x]
        /\ code' = Escaped(t, IF HasFlag(t) THEN 3 ELSE 2)
        /\ pause' = "DebuggerCommandFinished"
        /\ selected' = Validated(vm) /\ UNCHANGED <<disabled, uses>>
    BY DEF ReturnRefused
  <1>2. Consistent(p) /\ LocksAgree(p) /\ Live(p) = Live(vm)
    BY <1>1, PoppedRight
  <1> HIDE DEF p
  <1>3. p \in VMStates
    BY <1>2 DEF Consistent
  <1>4. /\ vm' \in VMStates /\ vm'.current = NoThread
        /\ vm'.runnable = p.runnable /\ vm'.waiting = p.waiting
        /\ vm'.status = p.status /\ vm'.datum = p.datum
        /\ vm'.suspendCount = p.suspendCount
        /\ vm'.locked = p.locked /\ vm'.owners = p.owners
    BY <1>1, <1>3 DEF VMStates
  <1>5. Consistent(vm') /\ SameLocks(vm', p)
    BY <1>2, <1>4, ListsConsistent DEF SameLocks
  <1>6. LocksAgree(vm') /\ Live(vm') = Live(vm)
    BY <1>2, <1>4, <1>5, SameLocksAgree DEF Live
  <1>7. IInv'
    BY <1>1, <1>4, <1>5, <1>6, AtPromptIInv DEF DebugInv, PauseReasons
  <1>8. SelectedExists' /\ selected' \in Threads \cup {NoThread}
    BY <1>1, <1>6 DEF SelectedExists, Validated, Live
  <1> QED BY <1>1, <1>6, <1>7, <1>8, EscapedDebug

(* The thread that invoked the debugger returns from it.                   *)
Buggered(s, t) ==
  [WakeupThread(s, t) EXCEPT !.status[t] = "Running", !.datum[t] = NoObj]

LEMMA BuggeredRight ==
  ASSUME NEW s, Consistent(s), LocksAgree(s), NEW t \in Live(s),
         s.status[t] = "Debuggered", s.suspendCount[t] = 0
  PROVE  /\ Consistent(Buggered(s, t)) /\ LocksAgree(Buggered(s, t))
         /\ Live(Buggered(s, t)) = Live(s)
         /\ Buggered(s, t).status[t] = "Running"
         /\ Buggered(s, t).suspendCount = s.suspendCount
         /\ Buggered(s, t).current = s.current /\ Buggered(s, t).fault = s.fault
  <1> DEFINE w == WakeupThread(s, t)
             q == Buggered(s, t)
  <1>0. q = [w EXCEPT !.status[t] = "Running", !.datum[t] = NoObj]
    BY DEF Buggered
  <1> HIDE DEF q
  <1>1. t \in Threads /\ s \in VMStates
    BY DEF Live, Consistent
  <1>2. /\ Consistent(w) /\ w.locked = s.locked /\ w.owners = s.owners
        /\ w.waiting = s.waiting /\ w.current = s.current /\ w.fault = s.fault
        /\ OthersSame(w, s, t)
    BY <1>1, WakeupConsistent
  <1>3. w.status[t] = "Running" /\ w.suspendCount = s.suspendCount
    BY <1>1 DEF WakeupThread, VMStates, Statuses, LiveStatuses
  <1> HIDE DEF w
  <1>4. w \in VMStates /\ t \in Range(w.runnable)
    BY <1>1, <1>2, <1>3, Lists DEF Consistent
  <1>5. /\ q \in VMStates
        /\ q.status = w.status /\ q.runnable = w.runnable /\ q.waiting = w.waiting
        /\ q.suspendCount = w.suspendCount /\ q.current = w.current /\ q.fault = w.fault
        /\ q.locked = w.locked /\ q.owners = w.owners
        /\ \A u \in Threads \ {t} : q.datum[u] = w.datum[u]
    <2>1. [w.status EXCEPT ![t] = "Running"] = w.status
      BY <1>1, <1>3, <1>4 DEF VMStates
    <2>2. /\ q.status = [w.status EXCEPT ![t] = "Running"]
          /\ q.datum = [w.datum EXCEPT ![t] = NoObj]
          /\ q.runnable = w.runnable /\ q.waiting = w.waiting
          /\ q.suspendCount = w.suspendCount /\ q.current = w.current /\ q.fault = w.fault
          /\ q.locked = w.locked /\ q.owners = w.owners
      BY <1>0, <1>4 DEF VMStates
    <2>3. q.datum \in [Threads -> Queues \cup {NoObj}]
      <3>1. w.datum \in [Threads -> Queues \cup {NoObj}]
        BY <1>4 DEF VMStates
      <3>2. q.datum = [w.datum EXCEPT ![t] = NoObj]
        BY <2>2
      <3> QED BY <3>1, <3>2
    <2>4. q \in VMStates
      <3>1. q = [w EXCEPT !.datum = q.datum]
        BY <1>0, <1>4, <2>1, <2>2 DEF VMStates
      <3> QED BY <1>4, <2>3, <3>1 DEF VMStates
    <2> QED BY <1>1, <1>4, <2>1, <2>2, <2>4 DEF VMStates
  <1>6. Consistent(q)
    <2>1. OnRing(q) /\ CountsAgree(q)
      BY <1>2, <1>5 DEF Consistent, OnRing, CountsAgree
    <2>2. \A o \in Queues, u \in Threads : WaitsFor(q, u, o) <=> WaitsFor(w, u, o)
      <3>1. q.status = w.status /\ w.status[t] = "Running"
            /\ \A u \in Threads \ {t} : q.datum[u] = w.datum[u]
        BY <1>3, <1>5
      <3>2. \A o \in Queues, u \in Threads \ {t} : WaitsFor(q, u, o) <=> WaitsFor(w, u, o)
        BY <3>1 DEF WaitsFor
      <3>3. \A o \in Queues : ~ WaitsFor(q, t, o) /\ ~ WaitsFor(w, t, o)
        BY <3>1 DEF WaitsFor
      <3> QED BY <3>2, <3>3
    <2>3. OnQueue(q)
      BY <1>2, <1>5, <2>2 DEF Consistent, OnQueue
    <2> QED BY <1>5, <2>1, <2>3 DEF Consistent
  <1>7. SameLocks(q, s)
    BY <1>2, <1>5 DEF SameLocks
  <1>8. LocksAgree(q)
    BY <1>7, SameLocksAgree
  <1>9. Live(q) = Live(s)
    <2>1. \A u \in Threads \ {t} : q.status[u] = s.status[u]
      BY <1>2, <1>5 DEF OthersSame
    <2>2. q.status[t] \in LiveStatuses /\ s.status[t] \in LiveStatuses
      BY <1>3, <1>5 DEF LiveStatuses
    <2> QED BY <2>1, <2>2 DEF Live
  <1> QED BY <1>2, <1>3, <1>5, <1>6, <1>8, <1>9 DEF q

LEMMA ReturnTakenRight ==
  ASSUME DebugInv, NEW t \in Threads, ReturnTaken(t)
  PROVE  /\ IInv' /\ SelectedExists' /\ Live(vm') = Live(vm) /\ vm'.fault = "none"
         /\ Returns(t, {"maybe_return"}) /\ FindsEscape(t)
         /\ Last(Below(t)).status = "Debuggered"
         /\ \A u \in Live(vm) \ {t} : vm'.suspendCount[u] =
              IF vm.suspendCount[u] > 0 THEN vm.suspendCount[u] - 1 ELSE 0
         /\ vm'.suspendCount[t] = 0
         /\ code' = Escaped(t, IF HasFlag(t) THEN 3 ELSE 2) /\ UNCHANGED <<disabled, uses>>
         /\ selected' \in Threads \cup {NoThread}
  <1> DEFINE p == PopEscape(vm, t, Last(Below(t)))
             q == Buggered(p, t)
             r == RestartOthers(q, t)
             goOn == HasFlag(t) => code[t].frames[Len(code[t].frames) - 2].keepGoing
             c == IF goOn THEN t ELSE NoThread
  <1>1. /\ Returns(t, {"maybe_return"}) /\ FindsEscape(t)
        /\ Last(Below(t)).status = "Debuggered"
        /\ vm' = [r EXCEPT !.current = c]
        /\ code' = Escaped(t, IF HasFlag(t) THEN 3 ELSE 2)
        /\ pause' = IF goOn THEN pause ELSE "DebuggerCommandFinished"
        /\ selected' = IF goOn THEN selected ELSE Validated(vm)
        /\ UNCHANGED <<disabled, uses>>
    BY DEF ReturnTaken, Buggered
  <1>2. /\ Consistent(p) /\ LocksAgree(p) /\ Live(p) = Live(vm) /\ p.fault = "none"
        /\ OthersSame(p, vm, t) /\ p.current = t
        /\ p.status[t] = "Debuggered" /\ p.suspendCount[t] = 0
    BY <1>1, PoppedRight
  <1>3. /\ pause = "NoReason" /\ vm.current = t /\ t \in Live(vm) /\ vm.fault = "none"
        /\ t # NoThread
    BY <1>1, ReturnsTop
  <1> HIDE DEF p
  <1>4. /\ Consistent(q) /\ LocksAgree(q) /\ Live(q) = Live(p)
        /\ q.status[t] = "Running" /\ q.suspendCount = p.suspendCount
        /\ q.fault = p.fault
    BY <1>2, <1>3, BuggeredRight
  <1> HIDE DEF q
  <1>5. Bounded(q) /\ q \in VMStates
    BY <1>2, <1>4, StillBounded DEF DebugInv, Consistent
  <1>6. /\ Consistent(r) /\ SameBut(r, q) /\ Live(r) = Live(q)
        /\ r.suspendCount[t] = q.suspendCount[t] /\ r.status[t] = q.status[t]
        /\ \A u \in Live(q) \ {t} : r.suspendCount[u] =
             IF q.suspendCount[u] > 0 THEN q.suspendCount[u] - 1 ELSE 0
    BY <1>4, <1>5, RestartOthersRight
  <1> HIDE DEF r
  <1>7. LocksAgree(r) /\ r.fault = "none"
    <2>1. SameLocks(r, q)
      BY <1>6 DEF SameBut, SameLocks
    <2> QED BY <1>2, <1>4, <1>6, <2>1, SameLocksAgree DEF SameBut
  <1>8. r \in VMStates /\ c \in Threads \cup {NoThread}
    BY <1>6 DEF Consistent
  <1> HIDE DEF c
  <1>9. /\ vm' \in VMStates /\ vm'.current = c /\ vm'.fault = "none"
        /\ vm'.runnable = r.runnable /\ vm'.waiting = r.waiting
        /\ vm'.status = r.status /\ vm'.datum = r.datum
        /\ vm'.suspendCount = r.suspendCount
        /\ vm'.locked = r.locked /\ vm'.owners = r.owners
    BY <1>1, <1>7, <1>8 DEF VMStates
  <1>10. Consistent(vm') /\ SameLocks(vm', r)
    BY <1>6, <1>9, ListsConsistent DEF SameLocks
  <1>11. LocksAgree(vm') /\ Live(vm') = Live(vm)
    BY <1>2, <1>4, <1>6, <1>7, <1>9, <1>10, SameLocksAgree DEF Live
  <1>12. IInv'
    <2>1. CASE goOn
      BY <1>1, <1>3, <1>4, <1>6, <1>9, <1>10, <1>11, <2>1
         DEF IInv, CurrentIsRunning, AtPrompt, PauseReasons, c
    <2>2. CASE ~ goOn
      BY <1>1, <1>9, <1>10, <1>11, <2>2, AtPromptIInv DEF DebugInv, PauseReasons, c
    <2> QED BY <2>1, <2>2
  <1>13. \A u \in Live(vm) \ {t} : q.suspendCount[u] = vm.suspendCount[u]
    BY <1>2, <1>4 DEF OthersSame, Live
  <1>14. /\ \A u \in Live(vm) \ {t} : vm'.suspendCount[u] =
              IF vm.suspendCount[u] > 0 THEN vm.suspendCount[u] - 1 ELSE 0
         /\ vm'.suspendCount[t] = 0
    BY <1>2, <1>4, <1>6, <1>9, <1>13
  <1>15. SelectedExists' /\ selected' \in Threads \cup {NoThread}
    <2>1. CASE goOn
      BY <1>1, <1>3, <2>1 DEF SelectedExists, AtPrompt, DebugInv, CodeTypes
    <2>2. CASE ~ goOn
      BY <1>1, <1>11, <2>2 DEF SelectedExists, Validated, Live
    <2> QED BY <2>1, <2>2
  <1> QED BY <1>1, <1>9, <1>11, <1>12, <1>14, <1>15

LEMMA ReturnTakenDebug ==
  ASSUME DebugInv, NEW t \in Threads, ReturnTaken(t)
  PROVE  DebugInv'
  BY ReturnTakenRight, EscapedDebug

(* flush.                                                                  *)
LEMMA FlushDebug ==
  ASSUME DebugInv, FlushCommand
  PROVE  DebugInv'
  <1> DEFINE d == [frames |-> <<[kind |-> "escape", status |-> "Suspended",
                                 datum |-> NoObj, count |-> 1, entry |-> "nothing"]>>,
                   entry |-> "start", cont |-> "debugger_cmd_finished"]
  <1>1. PICK t \in Threads :
          /\ IsNextId(vm, t)
          /\ vm' = ThreadRestart(SuspendOthers(PushEscape(ThreadMake(vm, t), t), t), t)
          /\ code' = [code EXCEPT ![t] = d]
    BY DEF FlushCommand
  <1>2. /\ pause' = "PickNewThread" /\ vm.fault = "none"
        /\ UNCHANGED <<selected, disabled, uses>>
    BY DEF FlushCommand, Ready
  <1>3. vm.status[t] = "Unmade" /\ vm \in VMStates /\ Consistent(vm) /\ LocksAgree(vm)
    BY <1>1 DEF IsNextId, DebugInv, IInv, Consistent
  <1> DEFINE m == ThreadMake(vm, t)
             p == PushEscape(m, t)
             o == SuspendOthers(p, t)
             r == ThreadRestart(o, t)
  <1>4. /\ Consistent(m) /\ SameLocks(m, vm) /\ m.fault = "none"
        /\ Live(m) = Live(vm) \cup {t}
    BY <1>2, <1>3, MakeRight, ThreadMakeConsistent
  <1> HIDE DEF m
  <1>5. Consistent(p) /\ SameLocks(p, m) /\ Live(p) = Live(m)
    BY <1>4, PushEscapeRight
  <1> HIDE DEF p
  <1>6. Consistent(o) /\ SameBut(o, p) /\ Live(o) = Live(p)
    BY <1>5, SuspendOthersRight
  <1> HIDE DEF o
  <1>7. SameLocks(o, p) /\ o \in VMStates
    BY <1>6 DEF SameBut, SameLocks, Consistent
  <1>8. Consistent(r) /\ SameLocks(r, o) /\ Live(r) = Live(o)
    BY <1>6, <1>7, ThreadRestartConsistent, ThreadRestartRight
  <1>9. LocksAgree(r)
    <2>1. LocksAgree(m)
      BY <1>3, <1>4, SameLocksAgree
    <2>2. LocksAgree(p)
      BY <1>5, <2>1, SameLocksAgree
    <2>3. LocksAgree(o)
      BY <1>7, <2>2, SameLocksAgree
    <2> QED BY <1>8, <2>3, SameLocksAgree
  <1>10. vm' = r
    BY <1>1 DEF m, p, o
  <1> HIDE DEF r
  <1>11. IInv' /\ SelectedExists'
    BY <1>2, <1>8, <1>9, <1>10, SliceEnds DEF DebugInv, SelectedExists, AtPrompt
  <1>12. Live(vm') = Live(vm) \cup {t}
    BY <1>4, <1>5, <1>6, <1>8, <1>10
  <1>13. Bounded(vm')
    BY <1>12, OneMoreBounded DEF DebugInv
  <1>14. d \in Codes
    <2>1. [kind |-> "escape", status |-> "Suspended", datum |-> NoObj, count |-> 1,
           entry |-> "nothing"] \in Escapes
      BY DEF Escapes, EscapeStatuses, Entries
    <2> QED BY <2>1 DEF Codes, StackFrames, Entries, Conts, Finishers
  <1> HIDE DEF d
  <1>15. CodeTypes'
    BY <1>1, <1>2, <1>14, NewCode DEF DebugInv, CodeTypes
  <1>16. DeadAreForgotten'
    BY <1>1, <1>2, <1>12 DEF DebugInv, DeadAreForgotten, CodeTypes
  <1> QED BY <1>2, <1>11, <1>13, <1>15, <1>16 DEF DebugInv

-----------------------------------------------------------------------------
(* The user gives no command on a thread that is blocked on a lock, which  *)
(* thread_pop_escape can leave on no list, waiting as it were.             *)
NoneBlocked == "blocked" \notin uses

LEMMA DebugInitRight ==
  ASSUME NoneBlocked, DebugInit
  PROVE  DebugInv
  <1>1. IInv
    BY InitIInv DEF DebugInit
  <1>2. PICK t \in Threads :
          IsNextId(EmptyVM, t) /\ vm = ThreadRestart(ThreadMake(EmptyVM, t), t)
    BY DEF DebugInit, Init
  <1>3. Live(vm) \subseteq {t}
    <2>1. /\ EmptyVM \in VMStates /\ Live(EmptyVM) = {} /\ EmptyVM.status[t] = "Unmade"
      BY <1>2, EmptyConsistent DEF Consistent, EmptyVM, Live, LiveStatuses
    <2>2. /\ ThreadMake(EmptyVM, t) \in VMStates
          /\ Live(ThreadMake(EmptyVM, t)) = Live(EmptyVM) \cup {t}
      BY <2>1, MakeRight
    <2>3. Live(vm) = Live(ThreadMake(EmptyVM, t))
      BY <1>2, <2>2, ThreadRestartRight
    <2> QED BY <2>1, <2>2, <2>3
  <1>4. Bounded(vm)
    BY <1>3, ThreadsAssumption DEF Bounded
  <1>5. CodeTypes
    BY NoCodeType, FreshType DEF DebugInit, CodeTypes, Conts
  <1>6. DeadAreForgotten
    BY DEF DebugInit, DeadAreForgotten
  <1>7. uses \subseteq UseKinds /\ "blocked" \notin uses
    BY UsesAssumption DEF DebugInit, NoneBlocked
  <1>8. SelectedExists
    BY DEF DebugInit, SelectedExists
  <1> QED BY <1>1, <1>4, <1>5, <1>6, <1>7, <1>8 DEF DebugInv

(* Every step is of one of the kinds above.                                *)
LEMMA DebugSteps ==
  ASSUME [DebugNext]_debugVars
  PROVE  \/ Quiet
         \/ \E t \in Threads :
              \/ Ends(t) \/ Counts(t)
              \/ EnterFunction(t) \/ SpawnThread(t) \/ Unwind(t)
              \/ EnterDebugger(t) \/ KillMe(t)
              \/ CommandFinished(t) \/ ReturnRefused(t) \/ ReturnTaken(t)
         \/ Continue /\ ~ Quiet
         \/ FlushCommand
         \/ CallCommand \/ ReturnCommand \/ StepCommand \/ RestartCommand
  <1>1. CASE UNCHANGED debugVars
    BY <1>1 DEF Quiet
  <1>2. CASE \E t \in Threads : Operate(t) \/ SelectCommand(t) \/ WildPop(t)
    BY <1>2 DEF Quiet
  <1>3. CASE \E t \in Threads : \/ \E u \in Threads : KillLiveThread(t, u)
                                \/ StopThread(t) \/ KillSelected(t)
    BY <1>3 DEF Ends
  <1>4. CASE \E t \in Threads : Disable(t) \/ Enable(t)
    BY <1>4 DEF Counts
  <1>5. CASE PickNextThread \/ InterruptThread
    BY <1>5 DEF Quiet
  <1> QED BY <1>1, <1>2, <1>3, <1>4, <1>5 DEF DebugNext

LEMMA DebugStepsKeepUses ==
  ASSUME [DebugNext]_debugVars
  PROVE  uses' = uses
  BY DEF DebugNext, debugVars, EnterFunction, SpawnThread, Operate, Unwind,
     KillLiveThread, EnterDebugger, StopThread, KillMe, WildPop, CommandFinished,
     ReturnRefused, ReturnTaken, SelectCommand, KillSelected, Disable, Enable,
     CallCommand, FlushCommand, ReturnCommand, StepCommand, RestartCommand,
     Continue, PickNextThread, InterruptThread

LEMMA DebugNextRight ==
  ASSUME DebugInv, [DebugNext]_debugVars
  PROVE  DebugInv'
  <1>1. CASE Quiet
    BY <1>1, QuietDebug
  <1>2. ASSUME NEW t \in Threads,
               \/ Ends(t) \/ Counts(t)
               \/ EnterFunction(t) \/ SpawnThread(t) \/ Unwind(t)
               \/ EnterDebugger(t) \/ KillMe(t)
               \/ CommandFinished(t) \/ ReturnRefused(t) \/ ReturnTaken(t)
        PROVE  DebugInv'
    BY <1>2, EndsDebug, CountsDebug, EnterFunctionDebug, SpawnThreadDebug, UnwindDebug,
       EnterDebuggerDebug, KillMeDebug, CommandFinishedDebug, ReturnRefusedDebug,
       ReturnTakenDebug
  <1>3. CASE Continue /\ ~ Quiet
    <2>1. selected \in Threads
      BY <1>3, ContinueRight DEF Live
    <2> QED BY <1>3, <2>1, CountsDebug DEF Counts
  <1>4. CASE FlushCommand
    BY <1>4, FlushDebug
  <1>5. CASE CallCommand \/ ReturnCommand \/ StepCommand \/ RestartCommand
    BY <1>5, CommandsDebug
  <1> QED BY <1>1, <1>2, <1>3, <1>4, <1>5, DebugSteps

(* Whatever the user and the program do, as long as no command is given on *)
(* a thread that is blocked on a lock, the tables of thread.c stay         *)
(* consistent under the debugger's escape frames, and the debugger keeps   *)
(* nothing of a thread that is gone.                                       *)
THEOREM DebuggerKeepsTables == DebugSpec => [](NoneBlocked => DebugInv)
  <1>1. DebugInit => (NoneBlocked => DebugInv)
    BY DebugInitRight
  <1>2. (NoneBlocked => DebugInv) /\ [DebugNext]_debugVars => (NoneBlocked => DebugInv)'
    BY DebugNextRight, DebugStepsKeepUses DEF NoneBlocked
  <1> QED BY <1>1, <1>2, PTL DEF DebugSpec

(* The thread the next command is about exists, whatever the user did but  *)
(* a command on a thread that is blocked: of all that kill threads (the    *)
(* program, stop_thread, kill_me, the user's kill), each leaves CurThread  *)
(* pointing to a thread that lives, or to none, once debug.c prompts.      *)
THEOREM SelectionIsAlive ==
  ASSUME \A U \in Uses : "blocked" \notin U
  PROVE  DebugSpec => []SelectedExists
  <1>1. DebugInit => NoneBlocked
    BY DEF DebugInit, NoneBlocked
  <1>2. NoneBlocked /\ [DebugNext]_debugVars => NoneBlocked'
    BY DebugStepsKeepUses DEF NoneBlocked
  <1>3. DebugInv => SelectedExists
    BY DEF DebugInv
  <1> QED BY <1>1, <1>2, <1>3, DebuggerKeepsTables, PTL DEF DebugSpec

-----------------------------------------------------------------------------
(***************************************************************************)
(* The stacks of a careful user's threads.  A stack starts with a function *)
(* that its own continuation ends; every other function on it was started  *)
(* by a command and lies on that command's escape frame, which goes back   *)
(* into the function below; and a thread about to start a function has an  *)
(* empty stack or such a frame on top.                                     *)
(***************************************************************************)
Starters == {"stop_thread"} \cup Killers

FramesRight(fs) ==
  /\ fs # <<>> => fs[1] \in {Call(c) : c \in Starters}
  /\ \A i \in 2..Len(fs) :
       /\ fs[i].kind = "call" =>
            fs[i].cont \in Finishers /\ i > 2 /\ fs[i - 1].kind = "escape"
       /\ fs[i].kind = "escape" => fs[i].entry = "inside"

CodeRight(c) ==
  /\ FramesRight(c.frames)
  /\ c.entry = "start" =>
       \/ c.frames = <<>> /\ c.cont \in Starters
       \/ /\ c.frames # <<>> /\ c.frames[Len(c.frames)].kind = "escape"
          /\ c.cont \in Finishers
  /\ c.entry = "inside" => c.frames # <<>>
  /\ c.entry = "nothing" => c.frames = <<>>

CodesRight ==
  uses = {} => \A t \in Threads :
    /\ CodeRight(code[t])
    /\ t \in Live(vm) => code[t].entry # "nothing"

LEMMA NoCodeRight ==
  CodeRight(NoCode)
  <1>1. FramesRight(<<>>)
    BY DEF FramesRight
  <1> QED BY <1>1 DEF CodeRight, NoCode

LEMMA FreshRight ==
  ASSUME NEW c \in Starters
  PROVE  CodeRight(Fresh(c)) /\ Fresh(c).entry # "nothing"
  <1>1. FramesRight(<<>>)
    BY DEF FramesRight
  <1> QED BY <1>1 DEF CodeRight, Fresh

LEMMA PrefixRight ==
  ASSUME NEW fs \in Seq(StackFrames), FramesRight(fs), NEW m \in 1..Len(fs)
  PROVE  FramesRight(SubSeq(fs, 1, m)) /\ SubSeq(fs, 1, m) # <<>>
  <1> DEFINE gs == SubSeq(fs, 1, m)
  <1>1. /\ m \in Nat /\ m > 0 /\ Len(fs) \in Nat /\ m <= Len(fs)
        /\ gs \in Seq(StackFrames) /\ Len(gs) = m
        /\ \A i \in 1..m : gs[i] = fs[i]
    OBVIOUS
  <1> HIDE DEF gs
  <1>2. gs # <<>> /\ fs # <<>>
    BY <1>1
  <1>3. gs[1] \in {Call(c) : c \in Starters}
    BY <1>1, <1>2 DEF FramesRight
  <1>4. ASSUME NEW i \in 2..Len(gs)
        PROVE  /\ gs[i].kind = "call" =>
                    gs[i].cont \in Finishers /\ i > 2 /\ gs[i - 1].kind = "escape"
               /\ gs[i].kind = "escape" => gs[i].entry = "inside"
    <2>1. i \in 2..Len(fs) /\ gs[i] = fs[i] /\ gs[i - 1] = fs[i - 1]
      BY <1>1
    <2> QED BY <2>1 DEF FramesRight
  <1> QED BY <1>2, <1>3, <1>4 DEF FramesRight, gs

(* One more frame on a stack that is not empty.                            *)
LEMMA AddedRight ==
  ASSUME NEW fs \in Seq(StackFrames), FramesRight(fs), fs # <<>>, NEW f \in StackFrames,
         f.kind = "call" =>
           f.cont \in Finishers /\ Len(fs) > 1 /\ fs[Len(fs)].kind = "escape",
         f.kind = "escape" => f.entry = "inside"
  PROVE  /\ FramesRight(Append(fs, f)) /\ Append(fs, f) \in Seq(StackFrames)
         /\ Append(fs, f) # <<>> /\ Len(Append(fs, f)) = Len(fs) + 1
         /\ Append(fs, f)[Len(fs) + 1] = f
  <1> DEFINE gs == Append(fs, f)
             n == Len(fs)
  <1>1. n \in Nat /\ n > 0
    OBVIOUS
  <1>2. /\ gs \in Seq(StackFrames) /\ Len(gs) = n + 1 /\ gs[n + 1] = f
        /\ \A i \in 1..n : gs[i] = fs[i]
    OBVIOUS
  <1> HIDE DEF gs
  <1>3. gs # <<>>
    BY <1>1, <1>2
  <1>4. gs[1] \in {Call(c) : c \in Starters}
    BY <1>1, <1>2 DEF FramesRight
  <1>5. ASSUME NEW i \in 2..Len(gs)
        PROVE  /\ gs[i].kind = "call" =>
                    gs[i].cont \in Finishers /\ i > 2 /\ gs[i - 1].kind = "escape"
               /\ gs[i].kind = "escape" => gs[i].entry = "inside"
    <2>1. CASE i = n + 1
      <3>1. gs[i] = f /\ gs[i - 1] = fs[n] /\ (n > 1 => i > 2)
        BY <1>1, <1>2, <2>1
      <3> QED BY <3>1
    <2>2. CASE i # n + 1
      <3>1. i \in 2..n /\ gs[i] = fs[i] /\ gs[i - 1] = fs[i - 1]
        BY <1>1, <1>2, <2>2
      <3> QED BY <3>1 DEF FramesRight
    <2> QED BY <2>1, <2>2
  <1> QED BY <1>2, <1>3, <1>4, <1>5 DEF FramesRight, gs

(* Flags on a stack that is not empty.                                     *)
LEMMA FlaggedRight ==
  ASSUME NEW fs \in Seq(StackFrames), FramesRight(fs), fs # <<>>,
         NEW pushed, pushed \in {<<>>, <<Flag(TRUE)>>, <<Flag(FALSE)>>}
  PROVE  /\ FramesRight(fs \o pushed) /\ fs \o pushed \in Seq(StackFrames)
         /\ fs \o pushed # <<>>
  <1>1. CASE pushed = <<>>
    <2>1. fs \o <<>> = fs
      OBVIOUS
    <2> QED BY <1>1, <2>1
  <1>2. ASSUME NEW b \in BOOLEAN, pushed = <<Flag(b)>>
        PROVE  /\ FramesRight(fs \o pushed) /\ fs \o pushed \in Seq(StackFrames)
               /\ fs \o pushed # <<>>
    <2>1. Flag(b) \in StackFrames /\ Flag(b).kind = "flag"
      BY DEF StackFrames, Flags, Flag
    <2>2. /\ FramesRight(Append(fs, Flag(b))) /\ Append(fs, Flag(b)) \in Seq(StackFrames)
          /\ Append(fs, Flag(b)) # <<>>
      BY <2>1, AddedRight
    <2>3. fs \o <<Flag(b)>> = Append(fs, Flag(b))
      BY <2>1
    <2> QED BY <1>2, <2>2, <2>3
  <1> QED BY <1>1, <1>2

LEMMA EnteredRight ==
  ASSUME NEW c \in Codes, CodeRight(c), c.entry = "start"
  PROVE  CodeRight([frames |-> Append(c.frames, Call(c.cont)), entry |-> "inside",
                    cont |-> c.cont])
  <1> DEFINE f == Call(c.cont)
  <1>1. c.frames \in Seq(StackFrames) /\ FramesRight(c.frames) /\ c.cont \in Conts
    BY DEF Codes, CodeRight
  <1>2. f \in StackFrames /\ f.kind = "call" /\ f.cont = c.cont
    BY <1>1 DEF Call, StackFrames, Calls
  <1>3. f = Call(c.cont)
    OBVIOUS
  <1> HIDE DEF f
  <1>4. FramesRight(Append(c.frames, f)) /\ Append(c.frames, f) # <<>>
    <2>1. CASE c.frames = <<>>
      <3>1. c.cont \in Starters
        BY <2>1 DEF CodeRight
      <3>2. Append(<<>>, f) = <<f>>
        OBVIOUS
      <3>3. FramesRight(<<f>>)
        BY <1>3, <3>1 DEF FramesRight
      <3> QED BY <2>1, <3>2, <3>3
    <2>2. CASE c.frames # <<>>
      <3>1. c.frames[Len(c.frames)].kind = "escape" /\ c.cont \in Finishers
        BY <2>2 DEF CodeRight
      <3>2. c.frames[1].kind = "call"
        BY <1>1, <2>2 DEF FramesRight, Call
      <3>3. Len(c.frames) > 1
        <4>1. Len(c.frames) \in Nat /\ Len(c.frames) # 0 /\ Len(c.frames) # 1
          BY <1>1, <2>2, <3>1, <3>2
        <4> QED BY <4>1
      <3> QED BY <1>1, <1>2, <2>2, <3>1, <3>3, AddedRight
    <2> QED BY <2>1, <2>2
  <1> QED BY <1>3, <1>4 DEF CodeRight

LEMMA CommandedRight ==
  ASSUME NEW c \in Codes, CodeRight(c), c.entry = "inside",
         NEW pushed, pushed \in {<<>>, <<Flag(TRUE)>>, <<Flag(FALSE)>>},
         NEW e \in Escapes, e.entry = "inside", NEW k \in Finishers, NEW d,
         d = [frames |-> Append(c.frames \o pushed, e), entry |-> "start", cont |-> k]
  PROVE  CodeRight(d) /\ d.entry # "nothing"
  <1> DEFINE fs == c.frames \o pushed
  <1>1. c.frames \in Seq(StackFrames) /\ FramesRight(c.frames) /\ c.frames # <<>>
    BY DEF Codes, CodeRight
  <1>2. fs \in Seq(StackFrames) /\ FramesRight(fs) /\ fs # <<>>
    BY <1>1, FlaggedRight
  <1> HIDE DEF fs
  <1>3. e \in StackFrames /\ e.kind = "escape"
    BY DEF StackFrames, Escapes
  <1>4. /\ FramesRight(Append(fs, e)) /\ Append(fs, e) # <<>>
        /\ Append(fs, e)[Len(Append(fs, e))].kind = "escape"
    <2>1. /\ FramesRight(Append(fs, e)) /\ Append(fs, e) # <<>>
          /\ Len(Append(fs, e)) = Len(fs) + 1 /\ Append(fs, e)[Len(fs) + 1] = e
      BY <1>2, <1>3, AddedRight
    <2> QED BY <1>3, <2>1
  <1>5. d.frames = Append(fs, e) /\ d.entry = "start" /\ d.cont = k
    BY DEF fs
  <1> QED BY <1>4, <1>5 DEF CodeRight

(* The steps of a careful user and a program that does not unwind.         *)
LEMMA RunOnCodes ==
  ASSUME DebugInv, CodesRight, uses = {}, NEW s, Consistent(s), s.fault = "none",
         Live(s) = Live(vm), NEW t \in Live(vm), s.status[t] \in EscapeStatuses,
         NEW c, NEW pushed, NEW others, Commandable(c, pushed, others),
         RunOn(s, t, c, pushed, others), Live(vm') = Live(vm)
  PROVE  CodesRight'
  <1> DEFINE d == [frames |-> Append(code[t].frames \o pushed, EscapeFrame(s, t)),
                   entry |-> "start", cont |-> c]
  <1>1. t \in Threads /\ code[t] \in Codes /\ CodeRight(code[t])
    BY DEF CodesRight, DebugInv, CodeTypes, Live
  <1>2. code[t].entry = "inside"
    <2>1. MayUse(t)
      BY DEF RunOn
    <2> QED BY <2>1 DEF MayUse
  <1>3. EscapeFrame(s, t) \in Escapes /\ EscapeFrame(s, t).entry = "inside"
    <2>1. EscapeFrame(s, t) \in Escapes
      BY <1>1, EscapeFrameType
    <2>2. EscapeFrame(s, t).entry = code[t].entry
      BY DEF EscapeFrame
    <2> QED BY <1>2, <2>1, <2>2
  <1>4. c \in Finishers /\ pushed \in {<<>>, <<Flag(TRUE)>>, <<Flag(FALSE)>>}
    BY DEF Commandable, Finishers
  <1>5. CodeRight(d) /\ d.entry # "nothing"
    BY <1>1, <1>2, <1>3, <1>4, CommandedRight
  <1>6. code' = [code EXCEPT ![t] = d]
    BY DEF RunOn
  <1> HIDE DEF d
  <1>7. code'[t] = d /\ \A u \in Threads \ {t} : code'[u] = code[u]
    BY <1>1, <1>6 DEF DebugInv, CodeTypes
  <1> QED BY <1>5, <1>7 DEF CodesRight

LEMMA OneMoreCodes ==
  ASSUME DebugInv, CodesRight, NEW u \in Threads \ Live(vm), NEW c \in Starters,
         Live(vm') = Live(vm) \cup {u}, code' = [code EXCEPT ![u] = Fresh(c)],
         uses' = uses
  PROVE  CodesRight'
  <1>1. code'[u] = Fresh(c) /\ \A v \in Threads \ {u} : code'[v] = code[v]
    BY DEF DebugInv, CodeTypes
  <1> QED BY <1>1, FreshRight DEF CodesRight

LEMMA FewerCodes ==
  ASSUME DebugInv, CodesRight, Live(vm') \subseteq Live(vm), code' = CodeOf(vm'),
         uses' = uses
  PROVE  CodesRight'
  <1>1. \A t \in Threads \ Live(vm') : code'[t] = NoCode
    BY CodeOfType DEF DebugInv
  <1>2. \A t \in Live(vm') : code'[t] = code[t]
    BY CodeOfType DEF DebugInv
  <1> QED BY <1>1, <1>2, NoCodeRight DEF CodesRight, Live

LEMMA SameCodes ==
  ASSUME CodesRight, Live(vm') = Live(vm), code' = code, uses' = uses
  PROVE  CodesRight'
  BY DEF CodesRight

LEMMA EscapedCodes ==
  ASSUME DebugInv, CodesRight, uses = {}, NEW t \in Threads, NEW cs, Returns(t, cs),
         FindsEscape(t), NEW n \in {2, 3}, n = 3 => HasFlag(t), code' = Escaped(t, n),
         Live(vm') = Live(vm)
  PROVE  CodesRight' /\ Last(Below(t)).entry = "inside"
  <1> DEFINE fs == code[t].frames
             k == Len(fs) - n
  <1>1. fs \in Seq(StackFrames) /\ FramesRight(fs)
    BY FramesOf DEF CodesRight, CodeRight, DebugInv
  <1>2. /\ Len(fs) \in Nat /\ Len(fs) > 1
        /\ Last(Below(t)) = fs[Len(fs) - 1] /\ Last(Below(t)).kind = "escape"
    BY ReturnsTop
  <1>3. fs[1].kind = "call"
    <2>1. fs # <<>>
      BY <1>2
    <2> QED BY <1>1, <2>1 DEF FramesRight, Call
  <1>4. Len(fs) - 1 \in 2..Len(fs)
    <2>1. fs[Len(fs) - 1].kind = "escape"
      BY <1>2
    <2>2. Len(fs) - 1 # 1
      BY <1>3, <2>1
    <2>3. \A m \in Nat : m > 1 /\ m - 1 # 1 => m - 1 \in 2..m
      OBVIOUS
    <2> HIDE DEF fs
    <2> QED BY <1>2, <2>2, <2>3
  <1>5. Last(Below(t)).entry = "inside"
    BY <1>1, <1>2, <1>4 DEF FramesRight
  <1>6. k \in 1..Len(fs)
    <2>1. CASE n = 2
      BY <1>2, <1>4, <2>1
    <2>2. CASE n = 3
      <3>1. Len(fs) - 2 > 0 /\ fs[Len(fs) - 2].kind = "flag"
        BY <2>2 DEF HasFlag
      <3>2. Len(fs) - 2 # 1
        BY <1>3, <3>1
      <3>3. \A m \in Nat : m - 2 > 0 /\ m - 2 # 1 => m - 3 \in 1..m
        OBVIOUS
      <3>4. Len(fs) - 3 \in 1..Len(fs)
        BY <1>2, <3>1, <3>2, <3>3
      <3> QED BY <2>2, <3>4
    <2> QED BY <2>1, <2>2
  <1>7. /\ \A u \in Threads \ {t} : code'[u] = code[u]
        /\ code'[t].frames = SubSeq(fs, 1, k)
        /\ code'[t].entry = Last(Below(t)).entry
    BY EscapedType
  <1> HIDE DEF fs, k
  <1>8. CodeRight(code'[t])
    BY <1>1, <1>5, <1>6, <1>7, PrefixRight DEF CodeRight
  <1>9. code'[t].entry # "nothing"
    BY <1>5, <1>7
  <1> QED BY <1>5, <1>7, <1>8, <1>9 DEF CodesRight

LEMMA EnterFunctionCodes ==
  ASSUME DebugInv, CodesRight, uses = {}, NEW t \in Threads, EnterFunction(t)
  PROVE  CodesRight' /\ code[t].entry = "start"
  <1> DEFINE d == [frames |-> Append(code[t].frames, Call(code[t].cont)),
                   entry |-> "inside", cont |-> code[t].cont]
  <1>1. /\ Live(vm') = Live(vm) /\ t \in Live(vm) /\ code[t].entry # "inside"
        /\ code' = [code EXCEPT ![t] = d]
    BY EnterFunctionRight DEF SameCounts
  <1>2. code[t] \in Codes /\ CodeRight(code[t]) /\ code[t].entry = "start"
    <2>1. code[t] \in Codes /\ CodeRight(code[t]) /\ code[t].entry # "nothing"
      BY <1>1 DEF CodesRight, DebugInv, CodeTypes
    <2> QED BY <1>1, <2>1 DEF Codes, Entries
  <1>3. CodeRight(d) /\ d.entry # "nothing"
    BY <1>2, EnteredRight
  <1> HIDE DEF d
  <1>4. code'[t] = d /\ \A u \in Threads \ {t} : code'[u] = code[u]
    BY <1>1 DEF DebugInv, CodeTypes
  <1> QED BY <1>1, <1>2, <1>3, <1>4 DEF CodesRight

LEMMA CommandsCodes ==
  ASSUME DebugInv, CodesRight, uses = {}, uses' = uses,
         CallCommand \/ ReturnCommand \/ StepCommand \/ RestartCommand
  PROVE  CodesRight'
  <1>1. ASSUME NEW c, NEW pushed, NEW others, Commandable(c, pushed, others),
               Commanded(c, pushed, others)
        PROVE  CodesRight'
    <2>1. /\ Ready /\ selected # NoThread /\ RunOn(vm, selected, c, pushed, others)
          /\ MayUse(selected)
      BY <1>1 DEF Commanded, RunOn
    <2>2. selected \in Live(vm) /\ vm.status[selected] \in EscapeStatuses
      BY <2>1, MayUseSelected
    <2>3. Consistent(vm) /\ LocksAgree(vm) /\ vm.fault = "none"
      BY <2>1 DEF DebugInv, IInv, Ready
    <2>4. others \in BOOLEAN
      BY <1>1, CommandableTypes
    <2>5. vm' = RunningOn(vm, selected, others)
      BY <2>1 DEF RunOn, RunningOn
    <2>6. Live(vm') = Live(vm)
      BY <2>2, <2>3, <2>4, <2>5, RunningOnRight
    <2> QED BY <1>1, <2>1, <2>2, <2>3, <2>6, RunOnCodes
  <1>2. ASSUME NEW c \in Killers, NEW others \in BOOLEAN, Helped(c, others)
        PROVE  CodesRight'
    <2>1. vm.fault = "none" /\ RunOnHelper(c, others) /\ c \in Starters
      BY <1>2 DEF Helped, Ready, Starters
    <2>2. \E u \in Threads \ Live(vm) : /\ Live(vm') = Live(vm) \cup {u}
                                        /\ code' = [code EXCEPT ![u] = Fresh(c)]
      BY <2>1, RunOnHelperRight
    <2> QED BY <2>1, <2>2, OneMoreCodes
  <1> QED BY <1>1, <1>2, CommandForms DEF Killers

LEMMA EnterDebuggerCodes ==
  ASSUME DebugInv, CodesRight, uses = {}, uses' = uses, NEW t \in Threads,
         EnterDebugger(t)
  PROVE  CodesRight'
  <1>1. PICK s : /\ Consistent(s) /\ LocksAgree(s) /\ s.fault = "none"
                 /\ SameCounts(s, vm) /\ s.status[t] = "Debuggered"
                 /\ \/ vm' = s /\ code' = code
                    \/ RunOn(s, t, "debugger_cmd_finished", <<>>, TRUE)
    BY EnterDebuggerForms
  <1>2. t \in Live(vm) /\ Live(s) = Live(vm)
    BY <1>1, EnterDebuggerForms DEF SameCounts
  <1>3. CASE vm' = s /\ code' = code
    BY <1>2, <1>3, SameCodes
  <1>4. CASE RunOn(s, t, "debugger_cmd_finished", <<>>, TRUE)
    <2>1. vm' = RunningOn(s, t, TRUE)
      BY <1>4 DEF RunOn, RunningOn
    <2>2. Live(vm') = Live(vm)
      BY <1>1, <1>2, <2>1, RunningOnRight
    <2>3. Commandable("debugger_cmd_finished", <<>>, TRUE)
      BY DEF Commandable
    <2>4. s.status[t] \in EscapeStatuses
      BY <1>1 DEF EscapeStatuses
    <2> QED BY <1>1, <1>2, <1>4, <2>2, <2>3, <2>4, RunOnCodes
  <1> QED BY <1>1, <1>3, <1>4

LEMMA CodesStep ==
  ASSUME DebugInv, CodesRight, [DebugNext]_debugVars
  PROVE  CodesRight'
  <1>0. uses' = uses
    BY DebugStepsKeepUses
  <1> SUFFICES ASSUME uses = {} PROVE CodesRight'
    BY <1>0 DEF CodesRight
  <1>1. CASE Quiet
    BY <1>0, <1>1, QuietRight, SameCodes DEF SameCounts
  <1>2. ASSUME NEW t \in Threads, Ends(t) PROVE CodesRight'
    <2>1. Live(vm') \subseteq Live(vm) /\ code' = CodeOf(vm')
      BY <1>2, EndsRight
    <2> QED BY <1>0, <2>1, FewerCodes
  <1>3. ASSUME NEW t \in Threads, Disable(t) \/ Enable(t) PROVE CodesRight'
    BY <1>0, <1>3, DisableRight, EnableRight, SameCodes
  <1>4. CASE Continue /\ ~ Quiet
    BY <1>0, <1>4, ContinueRight, SameCodes
  <1>5. ASSUME NEW t \in Threads, EnterFunction(t) PROVE CodesRight'
    BY <1>5, EnterFunctionCodes
  <1>6. ASSUME NEW t \in Threads, SpawnThread(t) PROVE CodesRight'
    <2>1. "stop_thread" \in Starters
      BY DEF Starters
    <2> QED BY <1>0, <1>6, <2>1, SpawnThreadRight, OneMoreCodes
  <1>7. ASSUME NEW t \in Threads, EnterDebugger(t) PROVE CodesRight'
    BY <1>0, <1>7, EnterDebuggerCodes
  <1>8. ASSUME NEW t \in Threads, KillMe(t) PROVE CodesRight'
    <2>1. Live(vm') \subseteq Live(vm) /\ code' = CodeOf(vm')
      BY <1>8, KillMeRight
    <2> QED BY <1>0, <2>1, FewerCodes
  <1>9. ASSUME NEW t \in Threads, CommandFinished(t) PROVE CodesRight'
    BY <1>9, CommandFinishedRight, EscapedCodes
  <1>10. ASSUME NEW t \in Threads, ReturnTaken(t) PROVE CodesRight'
    BY <1>10, ReturnTakenRight, EscapedCodes
  <1>11. ASSUME NEW t \in Threads, Unwind(t) \/ ReturnRefused(t) PROVE FALSE
    BY <1>11 DEF Unwind, ReturnRefused
  <1>12. CASE FlushCommand
    BY <1>12 DEF FlushCommand
  <1>13. CASE CallCommand \/ ReturnCommand \/ StepCommand \/ RestartCommand
    BY <1>0, <1>13, CommandsCodes
  <1>14. ASSUME NEW t \in Threads, Counts(t) PROVE CodesRight'
    BY <1>3, <1>4, <1>14 DEF Counts
  <1> QED BY <1>1, <1>2, <1>4, <1>5, <1>6, <1>7, <1>8, <1>9, <1>10, <1>11, <1>12,
             <1>13, <1>14, DebugSteps

LEMMA CodesInit ==
  ASSUME DebugInit
  PROVE  CodesRight
  <1>1. "stop_thread" \in Starters
    BY DEF Starters
  <1> QED BY <1>1, FreshRight, NoCodeRight DEF DebugInit, CodesRight

LEMMA CodesInvariant == DebugSpec => [](NoneBlocked => DebugInv /\ CodesRight)
  <1>1. DebugInit => (NoneBlocked => DebugInv /\ CodesRight)
    BY DebugInitRight, CodesInit
  <1>2. (NoneBlocked => DebugInv /\ CodesRight) /\ [DebugNext]_debugVars
          => (NoneBlocked => DebugInv /\ CodesRight)'
    BY DebugNextRight, CodesStep, DebugStepsKeepUses DEF NoneBlocked
  <1> QED BY <1>1, <1>2, PTL DEF DebugSpec

(* However a careful user's commands nest, each continuation that is still *)
(* to run finds the escape frame that its command pushed: the pop reads    *)
(* the stack just below the function that returned, and checks nothing.    *)
THEOREM PopsFindEscapes == DebugSpec => []ContinuationsFindFrames
  <1>1. (NoneBlocked => DebugInv /\ CodesRight) => ContinuationsFindFrames
    <2> SUFFICES ASSUME DebugInv, CodesRight, uses = {}, NEW t \in Live(vm)
                 PROVE  LET fs == code[t].frames
                        IN /\ \A i \in DOMAIN fs :
                                fs[i] \in {Call(c) : c \in Finishers}
                                  => EscapeAwaitsIt(fs, i - 1)
                           /\ code[t].entry = "start" /\ code[t].cont \in Finishers
                                => EscapeAwaitsIt(fs, Len(fs))
      BY DEF ContinuationsFindFrames, NoneBlocked
    <2> DEFINE fs == code[t].frames
    <2>1. /\ fs \in Seq(StackFrames) /\ Len(fs) \in Nat /\ DOMAIN fs = 1..Len(fs)
          /\ CodeRight(code[t]) /\ FramesRight(fs)
      BY FramesOf DEF Live, CodesRight, CodeRight, DebugInv
    <2>2. Starters \cap Finishers = {}
      BY DEF Starters, Finishers, Killers
    <2>3. ASSUME NEW i \in DOMAIN fs, fs[i] \in {Call(c) : c \in Finishers}
          PROVE  EscapeAwaitsIt(fs, i - 1)
      <3>1. fs[i].kind = "call" /\ fs[i].cont \in Finishers
        BY <2>3 DEF Call
      <3>2. fs # <<>> /\ i \in 1..Len(fs)
        BY <2>1
      <3>3. fs[1].cont \in Starters
        BY <2>1, <3>2 DEF FramesRight, Call
      <3>4. i \in 2..Len(fs)
        BY <2>1, <2>2, <3>1, <3>2, <3>3
      <3> QED BY <2>1, <3>1, <3>4 DEF FramesRight, EscapeAwaitsIt
    <2>4. ASSUME code[t].entry = "start", code[t].cont \in Finishers
          PROVE  EscapeAwaitsIt(fs, Len(fs))
      BY <2>1, <2>2, <2>4 DEF CodeRight, EscapeAwaitsIt
    <2> QED BY <2>3, <2>4
  <1> QED BY <1>1, CodesInvariant, PTL

(* No careful user's command leaves behind the thread it made, or leaves a *)
(* thread with nothing to run or to return to.                             *)
THEOREM HelpersEnd == DebugSpec => []NobodyLeftBehind
  <1>1. (NoneBlocked => DebugInv /\ CodesRight) => NobodyLeftBehind
    BY DEF CodesRight, NobodyLeftBehind, Live, NoneBlocked
  <1> QED BY <1>1, CodesInvariant, PTL

-----------------------------------------------------------------------------
(***************************************************************************)
(* The suspensions of a careful user's commands.  A command that restarts  *)
(* the others when it ends is a pair of its thread and of the place where  *)
(* its continuation lies on the stack, or will lie once its function is    *)
(* entered.  The count of a thread is made of what the user disabled,      *)
(* unless an escape frame keeps it, and of one for each command on another *)
(* thread; a thread made after the command started has less.               *)
(***************************************************************************)
Restarters == {"debugger_cmd_finished", "maybe_return", "kill_me"}

Pending(c) ==
  {i \in 1..(Len(c.frames) + 1) :
     IF i = Len(c.frames) + 1 THEN c.entry = "start" /\ c.cont \in Restarters
     ELSE c.frames[i].kind = "call" /\ c.frames[i].cont \in Restarters}

Commands == {p \in Threads \X Nat : p[2] \in Pending(code[p[1]])}

NotOn(t, ps) == {p \in ps : p[1] # t}

OthersCommands(t) == NotOn(t, Commands)

EscapeSet(c) == {i \in DOMAIN c.frames : c.frames[i].kind = "escape"}

(* What the escape frames of a thread keep that was disabled n times.      *)
Kept(c, n) ==
  \A i \in EscapeSet(c) :
    IF n = 0 THEN c.frames[i].status # "Suspended"
    ELSE /\ c.frames[i].status = "Suspended" /\ c.frames[i].count = n
         /\ EscapeSet(c) = {i}

CountRight(count, n, c, commands) ==
  /\ n = 0 => count <= commands
  /\ n > 0 => count = (IF EscapeSet(c) = {} THEN n ELSE 0) + commands
  /\ Kept(c, n)

CountsRight ==
  uses = {} =>
    /\ IsFiniteSet(Commands)
    /\ vm.fault = "none" => \A t \in Live(vm) :
         CountRight(vm.suspendCount[t], disabled[t], code[t],
                    Cardinality(OthersCommands(t)))

LEMMA CodeParts ==
  ASSUME NEW c \in Codes
  PROVE  /\ c.frames \in Seq(StackFrames) /\ Len(c.frames) \in Nat
         /\ DOMAIN c.frames = 1..Len(c.frames)
         /\ Pending(c) \subseteq 1..(Len(c.frames) + 1) /\ Pending(c) \subseteq Nat
         /\ EscapeSet(c) \subseteq 1..Len(c.frames)
  <1>1. c.frames \in Seq(StackFrames)
    BY DEF Codes
  <1>2. Len(c.frames) \in Nat /\ DOMAIN c.frames = 1..Len(c.frames)
    BY <1>1
  <1> QED BY <1>1, <1>2 DEF Pending, EscapeSet

(* A code with the same escape frames keeps the same.                      *)
LEMMA SameKept ==
  ASSUME NEW c, NEW d, EscapeSet(d) = EscapeSet(c),
         \A i \in EscapeSet(c) : d.frames[i] = c.frames[i]
  PROVE  \A n : Kept(d, n) <=> Kept(c, n)
  BY DEF Kept

LEMMA FreshCounts ==
  ASSUME NEW c \in Conts
  PROVE  /\ Pending(Fresh(c)) = IF c \in Restarters THEN {1} ELSE {}
         /\ EscapeSet(Fresh(c)) = {} /\ \A n : Kept(Fresh(c), n)
  <1>1. Fresh(c).frames = <<>> /\ Fresh(c).entry = "start" /\ Fresh(c).cont = c
    BY DEF Fresh
  <1>2. Len(<<>>) = 0 /\ DOMAIN <<>> = {}
    OBVIOUS
  <1>3. EscapeSet(Fresh(c)) = {}
    BY <1>1, <1>2 DEF EscapeSet
  <1>4. Pending(Fresh(c)) = IF c \in Restarters THEN {1} ELSE {}
    BY <1>1, <1>2 DEF Pending
  <1> QED BY <1>3, <1>4 DEF Kept

LEMMA NoCodeCounts ==
  Pending(NoCode) = {} /\ EscapeSet(NoCode) = {}
  <1>1. NoCode.frames = <<>> /\ NoCode.entry = "nothing"
    BY DEF NoCode
  <1>2. Len(<<>>) = 0 /\ DOMAIN <<>> = {}
    OBVIOUS
  <1> QED BY <1>1, <1>2 DEF Pending, EscapeSet

(* Entering a function moves its continuation to where it was expected.    *)
LEMMA EnteredCounts ==
  ASSUME NEW c \in Codes, c.entry = "start", NEW d,
         d = [frames |-> Append(c.frames, Call(c.cont)), entry |-> "inside",
              cont |-> c.cont]
  PROVE  /\ Pending(d) = Pending(c) /\ EscapeSet(d) = EscapeSet(c)
         /\ \A n : Kept(d, n) <=> Kept(c, n)
  <1> DEFINE m == Len(c.frames)
             f == Call(c.cont)
  <1>1. c.frames \in Seq(StackFrames) /\ m \in Nat /\ DOMAIN c.frames = 1..m
    BY CodeParts
  <1>2. f.kind = "call" /\ f.cont = c.cont
    BY DEF Call
  <1>3. d.entry = "inside" /\ d.frames = Append(c.frames, f)
    OBVIOUS
  <1> HIDE DEF f
  <1>4. /\ Len(d.frames) = m + 1 /\ d.frames[m + 1] = f /\ DOMAIN d.frames = 1..(m + 1)
        /\ \A i \in 1..m : d.frames[i] = c.frames[i]
    BY <1>1, <1>3
  <1> HIDE DEF m
  <1>5. ASSUME NEW i
        PROVE  i \in Pending(d) <=> i \in Pending(c)
    <2>1. CASE i \in 1..m
      <3>1. i # m + 1 /\ i # m + 2 /\ i \in 1..(m + 1) /\ i \in 1..(m + 2)
        BY <1>1, <2>1
      <3> QED BY <1>1, <1>4, <2>1, <3>1 DEF Pending, m
    <2>2. CASE i = m + 1
      <3>1. m + 1 # m + 2 /\ m + 1 \in 1..(m + 1) /\ m + 1 \in 1..(m + 2)
        BY <1>1
      <3>2. i \in Pending(d) <=> c.cont \in Restarters
        BY <1>1, <1>2, <1>4, <2>2, <3>1 DEF Pending
      <3>3. i \in Pending(c) <=> c.cont \in Restarters
        BY <1>1, <2>2, <3>1 DEF Pending, m
      <3> QED BY <3>2, <3>3
    <2>3. CASE i \notin 1..(m + 1)
      <3>1. i \notin Pending(c)
        BY <2>3 DEF Pending, m
      <3>2. i \in Pending(d) => i = m + 2
        BY <1>1, <1>4, <2>3 DEF Pending
      <3>3. m + 2 \notin Pending(d)
        BY <1>1, <1>3, <1>4 DEF Pending
      <3> QED BY <3>1, <3>2, <3>3
    <2>4. i \in 1..(m + 1) => i \in 1..m \/ i = m + 1
      BY <1>1
    <2> QED BY <2>1, <2>2, <2>3, <2>4
  <1>6. EscapeSet(d) = EscapeSet(c)
    <2>1. \A i \in 1..(m + 1) : i \in 1..m \/ i = m + 1
      BY <1>1
    <2>2. 1..m \subseteq 1..(m + 1)
      BY <1>1
    <2> QED BY <1>1, <1>2, <1>4, <2>1, <2>2 DEF EscapeSet
  <1>7. \A i \in EscapeSet(c) : d.frames[i] = c.frames[i]
    BY <1>1, <1>4 DEF EscapeSet
  <1> QED BY ZenonT(60), <1>5, <1>6, <1>7, SameKept

(* What a command with the continuation k and the escape frame e adds.     *)
Adds(k, e, c, d) ==
  /\ k \notin Restarters => Pending(d) = Pending(c)
  /\ k \in Restarters =>
       \E m \in Nat \ Pending(c) : Pending(d) = Pending(c) \cup {m}
  /\ \E j \in DOMAIN d.frames : /\ EscapeSet(d) = EscapeSet(c) \cup {j}
                                /\ d.frames[j] = e
  /\ \A i \in EscapeSet(c) : d.frames[i] = c.frames[i]

(* A command's frames on the stack of a thread inside a function.          *)
LEMMA CommandedCounts ==
  ASSUME NEW c \in Codes, c.entry = "inside", NEW pushed \in Seq(Flags),
         NEW e \in Escapes, NEW k \in Finishers, NEW d,
         d = [frames |-> Append(c.frames \o pushed, e), entry |-> "start", cont |-> k]
  PROVE  Adds(k, e, c, d)
  <1> DEFINE m == Len(c.frames)
             l == Len(pushed)
             j == m + l + 1
  <1>1. c.frames \in Seq(StackFrames) /\ m \in Nat /\ DOMAIN c.frames = 1..m
    BY CodeParts
  <1>2. l \in Nat /\ \A i \in 1..l : pushed[i].kind = "flag"
    <2>1. l \in Nat /\ \A i \in 1..l : pushed[i] \in Flags
      OBVIOUS
    <2> QED BY <2>1 DEF Flags
  <1>3. d.entry = "start" /\ d.frames = Append(c.frames \o pushed, e) /\ d.cont = k
    OBVIOUS
  <1>4. e.kind = "escape"
    BY DEF Escapes
  <1>5. /\ Len(d.frames) = j /\ DOMAIN d.frames = 1..j /\ d.frames[j] = e
        /\ \A i \in 1..m : d.frames[i] = c.frames[i]
        /\ \A i \in (m + 1)..(m + l) : d.frames[i].kind = "flag"
    <2> DEFINE g == c.frames \o pushed
    <2>1. /\ Len(g) = m + l /\ DOMAIN g = 1..(m + l)
          /\ \A i \in 1..m : g[i] = c.frames[i]
          /\ \A i \in (m + 1)..(m + l) : g[i] = pushed[i - m]
      BY <1>1, <1>2
    <2>2. \A i \in (m + 1)..(m + l) : g[i].kind = "flag"
      <3> SUFFICES ASSUME NEW i \in (m + 1)..(m + l) PROVE g[i].kind = "flag"
        OBVIOUS
      <3>1. i - m \in 1..l
        BY <1>1, <1>2
      <3>2. g[i] = pushed[i - m]
        BY <2>1
      <3> HIDE DEF g
      <3> QED BY <1>2, <3>1, <3>2
    <2>5. g \in Seq(StackFrames) /\ e \in StackFrames
      BY <1>1, FlagsAreFrames DEF StackFrames
    <2>6. /\ Len(Append(g, e)) = j /\ DOMAIN Append(g, e) = 1..j /\ Append(g, e)[j] = e
          /\ \A i \in 1..(m + l) : Append(g, e)[i] = g[i]
      <3>1. Len(g) = m + l
        BY <2>1
      <3> HIDE DEF g
      <3>2. /\ Len(Append(g, e)) = Len(g) + 1 /\ DOMAIN Append(g, e) = 1..(Len(g) + 1)
            /\ Append(g, e)[Len(g) + 1] = e
            /\ \A i \in 1..Len(g) : Append(g, e)[i] = g[i]
        BY <2>5
      <3> QED BY <3>1, <3>2
    <2>7. 1..m \subseteq 1..(m + l) /\ (m + 1)..(m + l) \subseteq 1..(m + l)
      BY <1>1, <1>2
    <2>8. d.frames = Append(g, e)
      BY <1>3
    <2> HIDE DEF g, j
    <2> QED BY <2>1, <2>2, <2>6, <2>7, <2>8
  <1> HIDE DEF m, l
  <1>6. /\ \A i \in 1..j : i \in 1..m \/ i \in (m + 1)..(m + l) \/ i = j
        /\ j \in 1..j /\ j \in Nat /\ j + 1 \in Nat \ 1..j /\ j + 1 \in 1..(j + 1)
        /\ \A i \in 1..m : i # m + 1 /\ i # j + 1 /\ i \in 1..(m + 1) /\ i \in 1..(j + 1)
                           /\ i \in 1..j
        /\ \A i \in 1..(j + 1) : i \in 1..j \/ i = j + 1
        /\ \A i \in 1..(m + 1) : i \in 1..m \/ i = m + 1
        /\ j + 1 \notin 1..(m + 1) /\ j # j + 1
        /\ \A i \in 1..j : i # j + 1
    BY <1>1, <1>2
  <1> HIDE DEF j
  <1>7. \A i \in 1..m : i \in Pending(d) <=> i \in Pending(c)
    BY <1>5, <1>6 DEF Pending, m
  <1>8. \A i \in Pending(c) : i \in 1..m
    BY <1>1, <1>6 DEF Pending, m
  <1>9. \A i \in Pending(d) : i \in 1..m \/ i = j + 1
    <2> SUFFICES ASSUME NEW i \in Pending(d), i # j + 1 PROVE i \in 1..m
      OBVIOUS
    <2>1. i \in 1..j /\ d.frames[i].kind = "call"
      BY <1>5, <1>6 DEF Pending
    <2> QED BY <1>4, <1>5, <1>6, <2>1
  <1>10. j + 1 \in Pending(d) <=> k \in Restarters
    BY <1>3, <1>5, <1>6 DEF Pending
  <1>11. j + 1 \in Nat \ Pending(c)
    BY <1>6, <1>8
  <1>12. EscapeSet(d) = EscapeSet(c) \cup {j}
    BY SMTT(60), <1>1, <1>4, <1>5, <1>6 DEF EscapeSet
  <1>13. \A i \in EscapeSet(c) : d.frames[i] = c.frames[i]
    BY <1>1, <1>5 DEF EscapeSet
  <1>14. k \notin Restarters => Pending(d) = Pending(c)
    BY <1>7, <1>8, <1>9, <1>10
  <1>15. k \in Restarters => Pending(d) = Pending(c) \cup {j + 1}
    BY <1>7, <1>8, <1>9, <1>10
  <1>16. j \in DOMAIN d.frames
    BY <1>5, <1>6
  <1> QED BY <1>5, <1>11, <1>12, <1>13, <1>14, <1>15, <1>16 DEF Adds

(* What goes when the function above the escape frame at j returns to k.   *)
Removes(k, j, c, d) ==
  /\ k \notin Restarters => Pending(d) = Pending(c)
  /\ k \in Restarters =>
       \E m \in Nat \ Pending(d) : Pending(c) = Pending(d) \cup {m}
  /\ EscapeSet(d) = EscapeSet(c) \ {j} /\ j \in EscapeSet(c)
  /\ \A i \in EscapeSet(d) : d.frames[i] = c.frames[i]

(* A command's function has returned, and what the command pushed is gone. *)
LEMMA EscapedCounts ==
  ASSUME NEW c \in Codes, NEW n \in {2, 3}, Len(c.frames) - n \in Nat,
         c.entry = "inside",
         c.frames[Len(c.frames)].kind = "call",
         c.frames[Len(c.frames) - 1].kind = "escape",
         n = 3 => c.frames[Len(c.frames) - 2].kind = "flag",
         NEW d \in Codes, d.frames = SubSeq(c.frames, 1, Len(c.frames) - n),
         d.entry = "inside"
  PROVE  Removes(c.frames[Len(c.frames)].cont, Len(c.frames) - 1, c, d)
  <1> DEFINE l == Len(c.frames)
             k == l - n
  <1>1. c.frames \in Seq(StackFrames) /\ l \in Nat /\ DOMAIN c.frames = 1..l
    BY CodeParts
  <1>2. k \in Nat
    OBVIOUS
  <1>3. /\ Len(d.frames) = k /\ DOMAIN d.frames = 1..k
        /\ \A i \in 1..k : d.frames[i] = c.frames[i]
    <2>1. \A m \in 0..l : /\ Len(SubSeq(c.frames, 1, m)) = m
                          /\ DOMAIN SubSeq(c.frames, 1, m) = 1..m
                          /\ \A i \in 1..m : SubSeq(c.frames, 1, m)[i] = c.frames[i]
      BY <1>1
    <2>2. k \in 0..l
      BY <1>1, <1>2
    <2>3. d.frames = SubSeq(c.frames, 1, k)
      OBVIOUS
    <2> HIDE DEF l, k
    <2> QED BY <2>1, <2>2, <2>3
  <1>4. /\ c.frames[l].kind = "call" /\ c.frames[l - 1].kind = "escape"
        /\ n = 3 => c.frames[l - 2].kind = "flag"
    OBVIOUS
  <1>5. /\ \A i \in 1..l : i \in 1..k \/ i = l \/ i = l - 1 \/ (n = 3 /\ i = l - 2)
        /\ l - 1 \in 1..l /\ l \in 1..l /\ l \in 1..(l + 1) /\ l - 1 \notin 1..k
        /\ l \notin 1..k /\ l # l + 1 /\ l # k + 1 /\ l \notin 1..(k + 1)
        /\ \A i \in 1..k : i # k + 1 /\ i # l + 1 /\ i \in 1..(k + 1) /\ i \in 1..(l + 1)
                           /\ i \in 1..l
        /\ \A i \in 1..(k + 1) : i \in 1..k \/ i = k + 1
        /\ \A i \in 1..(l + 1) : i \in 1..l \/ i = l + 1
        /\ l \in Nat
    <2>1. l \in Nat /\ k \in Nat /\ k = l - n
      BY <1>1, <1>2
    <2> HIDE DEF l, k
    <2>0. (n = 2 /\ k = l - 2) \/ (n = 3 /\ k = l - 3)
      BY <2>1
    <2>2. \A i \in 1..l : i \in 1..k \/ i = l \/ i = l - 1 \/ (n = 3 /\ i = l - 2)
      BY <2>0, <2>1
    <2>3. /\ l - 1 \in 1..l /\ l \in 1..l /\ l \in 1..(l + 1) /\ l - 1 \notin 1..k
          /\ l \notin 1..k /\ l # l + 1 /\ l # k + 1 /\ l \notin 1..(k + 1)
      BY <2>0, <2>1
    <2>4. /\ \A i \in 1..k : i # k + 1 /\ i # l + 1 /\ i \in 1..(k + 1) /\ i \in 1..(l + 1)
                             /\ i \in 1..l
          /\ \A i \in 1..(k + 1) : i \in 1..k \/ i = k + 1
          /\ \A i \in 1..(l + 1) : i \in 1..l \/ i = l + 1
      BY <2>0, <2>1
    <2> QED BY <2>1, <2>2, <2>3, <2>4
  <1> HIDE DEF l, k
  <1>6. \A i \in 1..k : i \in Pending(d) <=> i \in Pending(c)
    BY <1>3, <1>5 DEF Pending, l
  <1>7. \A i \in Pending(d) : i \in 1..k
    BY <1>3, <1>5 DEF Pending
  <1>8. \A i \in Pending(c) : i \in 1..k \/ i = l
    <2> SUFFICES ASSUME NEW i \in Pending(c), i # l PROVE i \in 1..k
      OBVIOUS
    <2>1. i \in 1..l /\ c.frames[i].kind = "call"
      BY <1>5 DEF Pending, l
    <2> QED BY <1>4, <1>5, <2>1
  <1>9. l \in Pending(c) <=> c.frames[l].cont \in Restarters
    BY <1>4, <1>5 DEF Pending, l
  <1>10. l \in Nat \ Pending(d)
    BY <1>5, <1>7
  <1>11. c.frames[l].cont \notin Restarters => Pending(d) = Pending(c)
    BY <1>6, <1>7, <1>8, <1>9
  <1>12. c.frames[l].cont \in Restarters => Pending(c) = Pending(d) \cup {l}
    BY <1>6, <1>7, <1>8, <1>9
  <1>13. EscapeSet(d) = EscapeSet(c) \ {l - 1} /\ l - 1 \in EscapeSet(c)
    <2>1. \A i \in 1..l : c.frames[i].kind = "escape" => i \in 1..k \/ i = l - 1
      BY <1>4, <1>5
    <2> QED BY <1>1, <1>3, <1>4, <1>5, <2>1 DEF EscapeSet
  <1>14. \A i \in EscapeSet(d) : d.frames[i] = c.frames[i]
    BY <1>3 DEF EscapeSet
  <1> QED BY <1>10, <1>11, <1>12, <1>13, <1>14 DEF l, Removes

(* One command more, or one less.                                          *)
LEMMA OnePairMore ==
  ASSUME NEW A, IsFiniteSet(A), NEW x, x \notin A, NEW B, B = A \cup {x},
         NEW t, t = x[1]
  PROVE  /\ IsFiniteSet(B) /\ NotOn(t, B) = NotOn(t, A)
         /\ \A u : u # t => Cardinality(NotOn(u, B)) = Cardinality(NotOn(u, A)) + 1
  <1>1. IsFiniteSet(B)
    BY FS_AddElement
  <1>2. NotOn(t, B) = NotOn(t, A)
    BY DEF NotOn
  <1>3. ASSUME NEW u, u # t
        PROVE  Cardinality(NotOn(u, B)) = Cardinality(NotOn(u, A)) + 1
    <2>1. NotOn(u, B) = NotOn(u, A) \cup {x} /\ x \notin NotOn(u, A)
      BY <1>3 DEF NotOn
    <2>2. IsFiniteSet(NotOn(u, A))
      BY FS_Subset DEF NotOn
    <2> QED BY <2>1, <2>2, FS_AddElement
  <1> QED BY <1>1, <1>2, <1>3

LEMMA CommandsSame ==
  ASSUME \A t \in Threads : Pending(code'[t]) = Pending(code[t])
  PROVE  Commands' = Commands /\ \A t : OthersCommands(t)' = OthersCommands(t)
  <1>1. Commands' = Commands
    BY DEF Commands
  <1> QED BY <1>1 DEF OthersCommands

LEMMA CommandMore ==
  ASSUME IsFiniteSet(Commands), NEW t \in Threads, NEW m \in Nat \ Pending(code[t]),
         Pending(code'[t]) = Pending(code[t]) \cup {m},
         \A u \in Threads \ {t} : Pending(code'[u]) = Pending(code[u])
  PROVE  /\ IsFiniteSet(Commands') /\ OthersCommands(t)' = OthersCommands(t)
         /\ \A u : u # t =>
              Cardinality(OthersCommands(u)') = Cardinality(OthersCommands(u)) + 1
  <1> DEFINE x == <<t, m>>
  <1>1. Commands' = Commands \cup {x} /\ x \notin Commands /\ t = x[1]
    BY DEF Commands
  <1> HIDE DEF x
  <1>2. /\ IsFiniteSet(Commands') /\ NotOn(t, Commands') = NotOn(t, Commands)
        /\ \A u : u # t => Cardinality(NotOn(u, Commands'))
                             = Cardinality(NotOn(u, Commands)) + 1
    BY <1>1, OnePairMore
  <1> QED BY <1>2 DEF OthersCommands

LEMMA CommandLess ==
  ASSUME IsFiniteSet(Commands), NEW t \in Threads, NEW m \in Nat \ Pending(code'[t]),
         Pending(code[t]) = Pending(code'[t]) \cup {m},
         \A u \in Threads \ {t} : Pending(code'[u]) = Pending(code[u])
  PROVE  /\ IsFiniteSet(Commands') /\ OthersCommands(t)' = OthersCommands(t)
         /\ \A u : u # t =>
              Cardinality(OthersCommands(u)) = Cardinality(OthersCommands(u)') + 1
  <1> DEFINE x == <<t, m>>
  <1>1. Commands = Commands' \cup {x} /\ x \notin Commands' /\ t = x[1]
    BY DEF Commands
  <1>2. IsFiniteSet(Commands')
    BY <1>1, FS_Subset
  <1> HIDE DEF x
  <1>3. /\ NotOn(t, Commands) = NotOn(t, Commands')
        /\ \A u : u # t => Cardinality(NotOn(u, Commands))
                             = Cardinality(NotOn(u, Commands')) + 1
    BY <1>1, <1>2, OnePairMore
  <1> QED BY <1>2, <1>3 DEF OthersCommands

LEMMA CommandsFinite ==
  ASSUME IsFiniteSet(Commands), NEW t
  PROVE  Cardinality(OthersCommands(t)) \in Nat /\ IsFiniteSet(OthersCommands(t))
  <1>1. OthersCommands(t) \subseteq Commands
    BY DEF OthersCommands, NotOn
  <1>2. IsFiniteSet(OthersCommands(t))
    BY <1>1, FS_Subset
  <1> QED BY <1>2, FS_CardinalityType

(* The count of a thread that a command suspends, or restarts.             *)
LEMMA CountUp ==
  ASSUME NEW n \in Nat, NEW d \in Nat, NEW c, NEW k \in Nat, CountRight(n, d, c, k)
  PROVE  CountRight(n + 1, d, c, k + 1)
  <1> DEFINE x == IF EscapeSet(c) = {} THEN d ELSE 0
  <1>1. x \in Nat
    OBVIOUS
  <1>2. (d = 0 => n <= k) /\ (d > 0 => n = x + k) /\ Kept(c, d)
    BY DEF CountRight
  <1> HIDE DEF x
  <1>3. (d = 0 => n + 1 <= k + 1) /\ (d > 0 => n + 1 = x + (k + 1))
    BY <1>1, <1>2
  <1> QED BY <1>2, <1>3 DEF CountRight, x

LEMMA CountDown ==
  ASSUME NEW n \in Nat, NEW d \in Nat, NEW c, NEW k \in Nat, CountRight(n, d, c, k + 1),
         NEW r, r = IF n > 0 THEN n - 1 ELSE n
  PROVE  CountRight(r, d, c, k)
  <1> DEFINE x == IF EscapeSet(c) = {} THEN d ELSE 0
  <1>1. x \in Nat
    OBVIOUS
  <1>2. (d = 0 => n <= k + 1) /\ (d > 0 => n = x + (k + 1)) /\ Kept(c, d)
    BY DEF CountRight
  <1> HIDE DEF x
  <1>3. (d = 0 => r <= k) /\ (d > 0 => r = x + k)
    BY <1>1, <1>2
  <1> QED BY <1>2, <1>3 DEF CountRight, x

(* A thread with a command pending is one on which a command is under way. *)
LEMMA OnlyFrame ==
  ASSUME NEW c \in Codes, CodeRight(c), NEW i \in 1..Len(c.frames),
         c.frames[i].kind = "call", c.frames[i].cont \in Starters
  PROVE  i = 1
  <1>1. c.frames \in Seq(StackFrames) /\ FramesRight(c.frames) /\ Len(c.frames) \in Nat
    BY CodeParts DEF CodeRight
  <1>2. Starters \cap Finishers = {}
    BY DEF Starters, Finishers, Killers
  <1>3. i \in 2..Len(c.frames) => c.frames[i].cont \in Finishers
    BY <1>1 DEF FramesRight
  <1> QED BY <1>1, <1>2, <1>3

LEMMA PendingUnderWay ==
  ASSUME NEW t \in Threads, code[t] \in Codes, CodeRight(code[t]),
         Pending(code[t]) # {}
  PROVE  UnderWay(t)
  <1> DEFINE c == code[t]
             fs == c.frames
  <1>1. PICK i \in Pending(c) : TRUE
    OBVIOUS
  <1>2. fs \in Seq(StackFrames) /\ FramesRight(fs) /\ Len(fs) \in Nat /\ DOMAIN fs = 1..Len(fs)
    BY CodeParts DEF CodeRight
  <1>3. Starters \cap Restarters = {"kill_me"} /\ "kill_me" \in Killers
    BY DEF Starters, Restarters, Killers
  <1>4. CASE i = Len(fs) + 1
    <2>1. c.entry = "start" /\ c.cont \in Restarters
      BY <1>1, <1>4 DEF Pending
    <2>2. CASE fs = <<>> /\ c.cont \in Starters
      <3>1. c.cont \in Killers
        BY <1>3, <2>1, <2>2
      <3> QED BY <2>1, <3>1 DEF UnderWay
    <2>3. CASE fs # <<>> /\ fs[Len(fs)].kind = "escape"
      <3>1. Len(fs) \in DOMAIN fs
        BY <1>2, <2>3
      <3>2. Len(fs) \in EscapesOf(t)
        BY <2>3, <3>1 DEF EscapesOf
      <3> QED BY <3>2 DEF UnderWay
    <2> QED BY <2>1, <2>2, <2>3 DEF CodeRight
  <1>5. CASE i # Len(fs) + 1
    <2>1. i \in 1..Len(fs) /\ fs[i].kind = "call" /\ fs[i].cont \in Restarters
      BY <1>1, <1>2, <1>5 DEF Pending
    <2>2. CASE i = 1
      <3>1. fs # <<>>
        BY <1>2, <2>1
      <3>2. fs[1] \in {Call(x) : x \in Starters}
        BY <1>2, <3>1 DEF FramesRight
      <3>3. fs[1] = Call("kill_me")
        BY <1>3, <2>1, <2>2, <3>2 DEF Call
      <3>4. i \in DOMAIN code[t].frames
              /\ code[t].frames[i] \in {Call(x) : x \in Killers}
        BY <1>2, <1>3, <2>1, <2>2, <3>3
      <3> QED BY <3>4 DEF UnderWay
    <2>3. CASE i # 1
      <3>1. i \in 2..Len(fs) /\ i - 1 \in 1..Len(fs)
        BY <1>2, <2>1, <2>3
      <3>2. fs[i - 1].kind = "escape"
        BY <1>2, <2>1, <3>1 DEF FramesRight
      <3>3. i - 1 \in EscapesOf(t)
        BY <1>2, <3>1, <3>2 DEF EscapesOf
      <3> QED BY <3>3 DEF UnderWay
    <2> QED BY <2>2, <2>3
  <1> QED BY <1>4, <1>5

LEMMA NoCommandOn ==
  ASSUME DebugInv, CodesRight, uses = {}, NEW t \in Threads,
         t \in Live(vm) => ~ UnderWay(t)
  PROVE  Pending(code[t]) = {} /\ \A p \in Commands : p[1] # t
  <1>1. code[t] \in Codes /\ CodeRight(code[t])
    BY DEF CodesRight, DebugInv, CodeTypes
  <1>2. Pending(code[t]) = {}
    <2>1. CASE t \in Live(vm)
      BY <1>1, <2>1, PendingUnderWay
    <2>2. CASE t \notin Live(vm)
      BY <2>2, NoCodeCounts DEF DebugInv, DeadAreForgotten
    <2> QED BY <2>1, <2>2
  <1> QED BY <1>2 DEF Commands

LEMMA OverlapLeftOut ==
  ASSUME DebugInv, CodesRight, uses = {}, NEW t, MayOverlap(t)
  PROVE  Cardinality(OthersCommands(t)) = 0
  <1>1. \A u \in Live(vm) \ {t} : ~ UnderWay(u)
    BY DEF MayOverlap
  <1>2. OthersCommands(t) = {}
    <2> SUFFICES ASSUME NEW p \in Commands, p[1] # t PROVE FALSE
      BY DEF OthersCommands, NotOn
    <2>1. p[1] \in Threads
      BY DEF Commands
    <2>2. p[1] \in Live(vm) => ~ UnderWay(p[1])
      BY <1>1
    <2> QED BY <2>1, <2>2, NoCommandOn
  <1> QED BY <1>2, FS_EmptySet

LEMMA NothingUnderWay ==
  ASSUME DebugInv, CodesRight, uses = {}, ~ SomeUnderWay
  PROVE  /\ \A t : Cardinality(OthersCommands(t)) = 0
         /\ \A t \in Live(vm) : EscapeSet(code[t]) = {}
  <1>1. \A u \in Live(vm) : ~ UnderWay(u)
    BY DEF SomeUnderWay
  <1>2. ASSUME NEW t PROVE Cardinality(OthersCommands(t)) = 0
    BY <1>1, OverlapLeftOut DEF MayOverlap
  <1>3. ASSUME NEW t \in Live(vm) PROVE EscapeSet(code[t]) = {}
    BY <1>1 DEF UnderWay, EscapesOf, EscapeSet
  <1> QED BY <1>2, <1>3

(* What a step that keeps the commands, starts one or ends one must show.  *)
LEMMA OldCount ==
  ASSUME DebugInv, CountsRight, uses = {}, vm.fault = "none", NEW t \in Live(vm)
  PROVE  /\ CountRight(vm.suspendCount[t], disabled[t], code[t],
                       Cardinality(OthersCommands(t)))
         /\ vm.suspendCount[t] \in Nat /\ disabled[t] \in Nat /\ code[t] \in Codes
         /\ Cardinality(OthersCommands(t)) \in Nat /\ t \in Threads
  <1>1. t \in Threads /\ vm \in VMStates
    BY DEF Live, DebugInv, IInv, Consistent
  <1>2. vm.suspendCount[t] \in Nat /\ disabled[t] \in Nat /\ code[t] \in Codes
    BY <1>1 DEF DebugInv, CodeTypes, VMStates
  <1>3. Cardinality(OthersCommands(t)) \in Nat
    BY CommandsFinite DEF CountsRight
  <1> QED BY <1>1, <1>2, <1>3 DEF CountsRight

LEMMA CommandsKept ==
  ASSUME CountsRight, uses = {}, uses' = uses,
         \A t \in Threads : Pending(code'[t]) = Pending(code[t]),
         vm'.fault = "none" => \A t \in Live(vm') :
           CountRight(vm'.suspendCount[t], disabled'[t], code'[t],
                      Cardinality(OthersCommands(t)))
  PROVE  CountsRight'
  <1>1. Commands' = Commands /\ \A t : OthersCommands(t)' = OthersCommands(t)
    BY CommandsSame
  <1> QED BY <1>1 DEF CountsRight

LEMMA CommandStarted ==
  ASSUME CountsRight, uses = {}, uses' = uses,
         NEW t \in Threads, NEW m \in Nat \ Pending(code[t]),
         Pending(code'[t]) = Pending(code[t]) \cup {m},
         \A u \in Threads \ {t} : Pending(code'[u]) = Pending(code[u]),
         vm'.fault = "none" =>
           CountRight(vm'.suspendCount[t], disabled'[t], code'[t],
                      Cardinality(OthersCommands(t))),
         vm'.fault = "none" => \A u \in Live(vm') \ {t} :
           CountRight(vm'.suspendCount[u], disabled'[u], code'[u],
                      Cardinality(OthersCommands(u)) + 1)
  PROVE  CountsRight'
  <1>1. /\ IsFiniteSet(Commands') /\ OthersCommands(t)' = OthersCommands(t)
        /\ \A u : u # t =>
             Cardinality(OthersCommands(u)') = Cardinality(OthersCommands(u)) + 1
    BY CommandMore DEF CountsRight
  <1>2. ASSUME vm'.fault = "none", NEW u \in Live(vm')
        PROVE  CountRight(vm'.suspendCount[u], disabled'[u], code'[u],
                          Cardinality(OthersCommands(u)'))
    <2>1. CASE u = t
      BY <1>1, <1>2, <2>1
    <2>2. CASE u # t
      BY <1>1, <1>2, <2>2
    <2> QED BY <2>1, <2>2
  <1> QED BY <1>1, <1>2 DEF CountsRight

LEMMA CommandEnded ==
  ASSUME CountsRight, uses = {}, uses' = uses,
         NEW t \in Threads, NEW m \in Nat \ Pending(code'[t]),
         Pending(code[t]) = Pending(code'[t]) \cup {m},
         \A u \in Threads \ {t} : Pending(code'[u]) = Pending(code[u]),
         vm'.fault = "none" /\ t \in Live(vm') =>
           CountRight(vm'.suspendCount[t], disabled'[t], code'[t],
                      Cardinality(OthersCommands(t))),
         vm'.fault = "none" => \A u \in Live(vm') \ {t} : \A k \in Nat :
           Cardinality(OthersCommands(u)) = k + 1 =>
             CountRight(vm'.suspendCount[u], disabled'[u], code'[u], k)
  PROVE  CountsRight'
  <1>1. /\ IsFiniteSet(Commands') /\ OthersCommands(t)' = OthersCommands(t)
        /\ \A u : u # t =>
             Cardinality(OthersCommands(u)) = Cardinality(OthersCommands(u)') + 1
    BY CommandLess DEF CountsRight
  <1>2. ASSUME NEW u PROVE Cardinality(OthersCommands(u)') \in Nat
    <2>1. OthersCommands(u)' \subseteq Commands'
      BY DEF OthersCommands, NotOn
    <2> QED BY <1>1, <2>1, FS_Subset, FS_CardinalityType
  <1>3. ASSUME vm'.fault = "none", NEW u \in Live(vm')
        PROVE  CountRight(vm'.suspendCount[u], disabled'[u], code'[u],
                          Cardinality(OthersCommands(u)'))
    <2>1. CASE u = t
      BY <1>1, <1>3, <2>1
    <2>2. CASE u # t
      <3>1. /\ Cardinality(OthersCommands(u)) = Cardinality(OthersCommands(u)') + 1
            /\ Cardinality(OthersCommands(u)') \in Nat
        BY <1>1, <1>2, <2>2
      <3> QED BY <1>3, <2>2, <3>1
    <2> QED BY <2>1, <2>2
  <1> QED BY <1>1, <1>3 DEF CountsRight

(* A thread without escape frames, and no command on another.              *)
LEMMA EmptyCount ==
  ASSUME NEW n \in Nat, NEW d \in Nat, NEW c, EscapeSet(c) = {}
  PROVE  CountRight(n, d, c, 0) <=> n = d
  <1>1. Kept(c, d)
    BY DEF Kept
  <1>2. CountRight(n, d, c, 0) <=> (d = 0 => n <= 0) /\ (d > 0 => n = d + 0)
    BY <1>1 DEF CountRight
  <1> QED BY <1>2

LEMMA SameCommands ==
  ASSUME DebugInv, CountsRight, uses = {}, uses' = uses, code' = code,
         disabled' = disabled, SameCounts(vm', vm), vm.fault = "none" \/ vm' = vm
  PROVE  CountsRight'
  <1>1. ASSUME vm'.fault = "none", NEW t \in Live(vm')
        PROVE  CountRight(vm'.suspendCount[t], disabled'[t], code'[t],
                          Cardinality(OthersCommands(t)))
    <2>1. vm.fault = "none" /\ t \in Live(vm) /\ vm'.suspendCount[t] = vm.suspendCount[t]
      BY <1>1 DEF SameCounts
    <2> QED BY <2>1, OldCount
  <1> QED BY <1>1, CommandsKept

(* A thread that ends has no command of a careful user pending.            *)
LEMMA EndsNoCommand ==
  ASSUME DebugInv, CodesRight, uses = {}, NEW u \in Threads, Ends(u)
  PROVE  Pending(code[u]) = {}
  <1>1. CASE \E t \in Threads : KillLiveThread(t, u)
    <2>1. ~ UnderWay(u)
      BY <1>1 DEF KillLiveThread, MayKill
    <2> QED BY <2>1, NoCommandOn
  <1>2. CASE KillSelected(u)
    <2>1. ~ UnderWay(u)
      BY <1>2 DEF KillSelected, MayKill
    <2> QED BY <2>1, NoCommandOn
  <1>3. CASE StopThread(u)
    <2> DEFINE c == code[u]
               n == Len(c.frames)
    <2>1. Returns(u, {"stop_thread"})
      BY <1>3 DEF StopThread
    <2>2. /\ c.entry = "inside" /\ n \in Nat /\ n > 0
          /\ c.frames[n] = Call(Top(u).cont) /\ Top(u).cont = "stop_thread"
      BY <2>1, ReturnsTop
    <2>3. c.frames[n].kind = "call" /\ c.frames[n].cont = "stop_thread" /\ n \in 1..n
      BY <2>2 DEF Call
    <2>4. c \in Codes /\ CodeRight(c) /\ "stop_thread" \in Starters
      BY DEF DebugInv, CodeTypes, CodesRight, Starters
    <2> HIDE DEF c
    <2>5. n = 1
      BY <2>3, <2>4, OnlyFrame
    <2>6. ASSUME NEW i \in Pending(c) PROVE FALSE
      <3>1. i \in 1..(n + 1) /\ i # n + 1
        BY <2>2 DEF Pending
      <3>2. i = n
        BY <2>5, <3>1
      <3>3. c.frames[n].cont \in Restarters
        BY <3>1, <3>2 DEF Pending
      <3> QED BY <2>3, <3>3 DEF Restarters
    <2> QED BY <2>6 DEF c
  <1> QED BY <1>1, <1>2, <1>3 DEF Ends

(* What is gone with the dead.                                             *)
LEMMA FewerPending ==
  ASSUME DebugInv, Live(vm') \subseteq Live(vm), code' = CodeOf(vm')
  PROVE  /\ \A t \in Live(vm') : code'[t] = code[t]
         /\ \A t \in Threads \ Live(vm') : Pending(code'[t]) = {}
         /\ \A t \in Threads \ Live(vm) : Pending(code[t]) = {}
  <1>1. \A t \in Threads \ Live(vm') : code'[t] = NoCode
    BY CodeOfType DEF DebugInv
  <1>2. \A t \in Live(vm') : code'[t] = code[t]
    BY CodeOfType DEF DebugInv
  <1> QED BY <1>1, <1>2, NoCodeCounts DEF DebugInv, DeadAreForgotten

LEMMA EndsCounts ==
  ASSUME DebugInv, CodesRight, CountsRight, uses = {}, NEW u \in Threads, Ends(u)
  PROVE  CountsRight'
  <1>1. /\ u \in Live(vm) /\ vm.fault = "none" /\ vm'.suspendCount = vm.suspendCount
        /\ vm'.fault = "none" => Live(vm') = Live(vm) \ {u}
        /\ vm'.fault # "none" => Live(vm') = Live(vm)
        /\ code' = CodeOf(vm') /\ disabled' = [disabled EXCEPT ![u] = 0] /\ uses' = uses
    BY EndsRight
  <1>2. Live(vm') \subseteq Live(vm) /\ Live(vm) \ {u} \subseteq Live(vm')
    BY <1>1
  <1>3. /\ \A t \in Live(vm') : code'[t] = code[t]
        /\ \A t \in Threads \ Live(vm') : Pending(code'[t]) = {}
        /\ \A t \in Threads \ Live(vm) : Pending(code[t]) = {}
    BY <1>1, <1>2, FewerPending
  <1>4. Pending(code[u]) = {}
    BY EndsNoCommand
  <1>5. \A t \in Threads : Pending(code'[t]) = Pending(code[t])
    BY <1>2, <1>3, <1>4
  <1>6. ASSUME vm'.fault = "none", NEW t \in Live(vm')
        PROVE  CountRight(vm'.suspendCount[t], disabled'[t], code'[t],
                          Cardinality(OthersCommands(t)))
    <2>1. t \in Live(vm) /\ t # u
      BY <1>1, <1>6
    <2>2. disabled'[t] = disabled[t]
      BY <1>1, <2>1 DEF DebugInv, CodeTypes, Live
    <2> QED BY <1>1, <1>3, <2>1, <2>2, OldCount
  <1> QED BY <1>1, <1>5, <1>6, CommandsKept

(* The user disables and enables while no command is under way.            *)
LEMMA CountsCounts ==
  ASSUME DebugInv, CodesRight, CountsRight, uses = {}, uses' = uses, code' = code,
         ~ SomeUnderWay, vm.fault = "none", NEW u \in Live(vm), Live(vm') = Live(vm),
         NEW n \in Nat, NEW d \in Nat, CountsBut(vm', vm, u, n),
         disabled' = [disabled EXCEPT ![u] = d],
         vm.suspendCount[u] = disabled[u] => n = d
  PROVE  CountsRight'
  <1>1. ASSUME vm'.fault = "none", NEW t \in Live(vm')
        PROVE  CountRight(vm'.suspendCount[t], disabled'[t], code'[t],
                          Cardinality(OthersCommands(t)))
    <2>1. /\ t \in Live(vm) /\ t \in Threads /\ Cardinality(OthersCommands(t)) = 0
          /\ EscapeSet(code[t]) = {}
      BY <1>1, NothingUnderWay DEF Live
    <2>2. /\ CountRight(vm.suspendCount[t], disabled[t], code[t], 0)
          /\ vm.suspendCount[t] \in Nat /\ disabled[t] \in Nat
      BY <2>1, OldCount
    <2>3. vm.suspendCount[t] = disabled[t]
      BY <2>1, <2>2, EmptyCount
    <2>4. /\ vm'.suspendCount[t] = IF t = u THEN n ELSE vm.suspendCount[t]
          /\ disabled'[t] = IF t = u THEN d ELSE disabled[t]
      BY <2>1 DEF CountsBut, DebugInv, CodeTypes
    <2>5. vm'.suspendCount[t] = disabled'[t] /\ disabled'[t] \in Nat
      BY <2>2, <2>3, <2>4
    <2>6. CountRight(vm'.suspendCount[t], disabled'[t], code[t], 0)
      BY <2>1, <2>5, EmptyCount
    <2> QED BY <2>1, <2>6
  <1> QED BY <1>1, CommandsKept

LEMMA DisableCounts ==
  ASSUME DebugInv, CodesRight, CountsRight, uses = {}, NEW u \in Threads,
         Disable(u) \/ Enable(u)
  PROVE  CountsRight'
  <1>1. vm.suspendCount[u] \in Nat /\ disabled[u] \in Nat
    BY DEF DebugInv, IInv, Consistent, VMStates, CodeTypes
  <1>2. CASE Disable(u)
    <2>1. /\ u \in Live(vm) /\ Live(vm') = Live(vm) /\ vm.fault = "none"
          /\ CountsBut(vm', vm, u, vm.suspendCount[u] + 1)
          /\ disabled' = [disabled EXCEPT ![u] = disabled[u] + 1]
          /\ UNCHANGED <<code, uses>>
      BY <1>2, DisableRight
    <2>2. ~ SomeUnderWay
      BY <1>2 DEF Disable
    <2>3. vm.suspendCount[u] + 1 \in Nat /\ disabled[u] + 1 \in Nat
          /\ (vm.suspendCount[u] = disabled[u] =>
                vm.suspendCount[u] + 1 = disabled[u] + 1)
      BY <1>1
    <2> QED BY <2>1, <2>2, <2>3, CountsCounts
  <1>3. CASE Enable(u)
    <2>1. /\ u \in Live(vm) /\ Live(vm') = Live(vm) /\ vm.fault = "none"
          /\ CountsBut(vm', vm, u, 0)
          /\ disabled' = [disabled EXCEPT ![u] = 0]
          /\ UNCHANGED <<code, uses>>
      BY <1>3, EnableRight
    <2>2. ~ SomeUnderWay
      BY <1>3 DEF Enable
    <2> QED BY <2>1, <2>2, CountsCounts
  <1> QED BY <1>2, <1>3

LEMMA ContinueCounts ==
  ASSUME DebugInv, CodesRight, CountsRight, uses = {}, Continue, ~ Quiet
  PROVE  CountsRight'
  <1>1. /\ selected \in Live(vm) /\ Live(vm') = Live(vm) /\ vm.fault = "none"
        /\ CountsBut(vm', vm, selected, 0)
        /\ disabled' = [disabled EXCEPT ![selected] = 0]
        /\ UNCHANGED <<code, uses>>
        /\ SomeUnderWay => "meanwhile" \in uses
    BY ContinueRight
  <1> QED BY <1>1, CountsCounts

LEMMA EnterFunctionCounts ==
  ASSUME DebugInv, CodesRight, CountsRight, uses = {}, NEW t \in Threads,
         EnterFunction(t)
  PROVE  CountsRight'
  <1> DEFINE d == [frames |-> Append(code[t].frames, Call(code[t].cont)),
                   entry |-> "inside", cont |-> code[t].cont]
  <1>1. code[t].entry = "start"
    BY EnterFunctionCodes
  <1>2. /\ vm' = vm /\ t \in Live(vm) /\ code' = [code EXCEPT ![t] = d]
        /\ UNCHANGED <<disabled, uses>> /\ vm.fault = "none"
    BY <1>1, EnterFunctionRight
  <1>3. code[t] \in Codes
    BY DEF DebugInv, CodeTypes
  <1>4. /\ Pending(d) = Pending(code[t]) /\ EscapeSet(d) = EscapeSet(code[t])
        /\ \A n : Kept(d, n) <=> Kept(code[t], n)
    BY <1>1, <1>3, EnteredCounts
  <1> HIDE DEF d
  <1>5. code'[t] = d /\ \A u \in Threads \ {t} : code'[u] = code[u]
    BY <1>2 DEF DebugInv, CodeTypes
  <1>6. \A u \in Threads : Pending(code'[u]) = Pending(code[u])
    BY <1>4, <1>5
  <1>7. ASSUME NEW u \in Live(vm)
        PROVE  CountRight(vm.suspendCount[u], disabled[u], code'[u],
                          Cardinality(OthersCommands(u)))
    <2>1. u \in Threads /\ CountRight(vm.suspendCount[u], disabled[u], code[u],
                                      Cardinality(OthersCommands(u)))
      BY <1>2, OldCount
    <2>2. CASE u # t
      BY <1>5, <2>1, <2>2
    <2>3. CASE u = t
      BY <1>4, <1>5, <2>1, <2>3 DEF CountRight
    <2> QED BY <2>2, <2>3
  <1> QED BY <1>2, <1>6, <1>7, CommandsKept

LEMMA SpawnCounts ==
  ASSUME DebugInv, CodesRight, CountsRight, uses = {}, NEW t \in Threads,
         SpawnThread(t)
  PROVE  CountsRight'
  <1>1. PICK u \in Threads \ Live(vm) :
          /\ Live(vm') = Live(vm) \cup {u} /\ CountsBut(vm', vm, u, 0)
          /\ code' = [code EXCEPT ![u] = Fresh("stop_thread")]
    BY SpawnThreadRight
  <1>2. vm.fault = "none" /\ UNCHANGED <<disabled, uses>>
    BY SpawnThreadRight
  <1>3. /\ Pending(Fresh("stop_thread")) = {} /\ EscapeSet(Fresh("stop_thread")) = {}
        /\ \A n : Kept(Fresh("stop_thread"), n)
    BY FreshCounts DEF Conts, Restarters
  <1>4. Pending(code[u]) = {} /\ disabled[u] = 0
    BY NoCodeCounts DEF DebugInv, DeadAreForgotten
  <1>5. code'[u] = Fresh("stop_thread") /\ \A v \in Threads \ {u} : code'[v] = code[v]
    BY <1>1 DEF DebugInv, CodeTypes
  <1>6. \A v \in Threads : Pending(code'[v]) = Pending(code[v])
    BY <1>3, <1>4, <1>5
  <1>7. ASSUME NEW v \in Live(vm')
        PROVE  CountRight(vm'.suspendCount[v], disabled[v], code'[v],
                          Cardinality(OthersCommands(v)))
    <2>1. v \in Threads /\ Cardinality(OthersCommands(v)) \in Nat
      BY CommandsFinite DEF CountsRight, Live
    <2>2. CASE v = u
      <3>1. vm'.suspendCount[v] = 0
        BY <1>1, <2>1, <2>2 DEF CountsBut
      <3> QED BY <1>3, <1>4, <1>5, <2>1, <2>2, <3>1 DEF CountRight
    <2>3. CASE v # u
      <3>1. v \in Live(vm) /\ vm'.suspendCount[v] = vm.suspendCount[v]
        BY <1>1, <2>1, <2>3 DEF CountsBut
      <3>2. CountRight(vm.suspendCount[v], disabled[v], code[v],
                       Cardinality(OthersCommands(v)))
        BY <1>2, <3>1, OldCount
      <3> QED BY <1>5, <2>1, <2>3, <3>1, <3>2
    <2> QED BY <2>2, <2>3
  <1> QED BY <1>2, <1>6, <1>7, CommandsKept

(* A command on a thread of its own.                                       *)
LEMMA HelpedCounts ==
  ASSUME DebugInv, CodesRight, CountsRight, uses = {}, NEW c, NEW others,
         \/ c = "kill_me" /\ others = TRUE
         \/ c = "kill_me_without_restart" /\ others = FALSE,
         Helped(c, others)
  PROVE  CountsRight'
  <1>1. vm.fault = "none" /\ RunOnHelper(c, others) /\ UNCHANGED <<disabled, uses>>
        /\ others \in BOOLEAN
    BY DEF Helped, Ready
  <1>2. PICK u \in Threads \ Live(vm) :
          /\ Live(vm') = Live(vm) \cup {u} /\ vm'.suspendCount[u] = 0
          /\ \A v \in Live(vm) : vm'.suspendCount[v] =
               IF others THEN vm.suspendCount[v] + 1 ELSE vm.suspendCount[v]
          /\ code' = [code EXCEPT ![u] = Fresh(c)]
    BY <1>1, RunOnHelperRight
  <1>3. /\ Pending(Fresh(c)) = IF c \in Restarters THEN {1} ELSE {}
        /\ EscapeSet(Fresh(c)) = {} /\ \A n : Kept(Fresh(c), n)
    BY FreshCounts DEF Conts, Killers
  <1>4. Pending(code[u]) = {} /\ disabled[u] = 0
    BY NoCodeCounts DEF DebugInv, DeadAreForgotten
  <1>5. code'[u] = Fresh(c) /\ \A v \in Threads \ {u} : code'[v] = code[v]
    BY <1>2 DEF DebugInv, CodeTypes
  <1>6. CountRight(vm'.suspendCount[u], disabled'[u], code'[u],
                   Cardinality(OthersCommands(u)))
    <2>1. Cardinality(OthersCommands(u)) \in Nat
      BY CommandsFinite DEF CountsRight
    <2> QED BY <1>1, <1>2, <1>3, <1>4, <1>5, <2>1 DEF CountRight
  <1>7. ASSUME NEW v \in Live(vm)
        PROVE  /\ CountRight(vm.suspendCount[v], disabled'[v], code'[v],
                             Cardinality(OthersCommands(v)))
               /\ CountRight(vm.suspendCount[v] + 1, disabled'[v], code'[v],
                             Cardinality(OthersCommands(v)) + 1)
    <2>1. /\ CountRight(vm.suspendCount[v], disabled[v], code[v],
                        Cardinality(OthersCommands(v)))
          /\ vm.suspendCount[v] \in Nat /\ disabled[v] \in Nat
          /\ Cardinality(OthersCommands(v)) \in Nat /\ v \in Threads
      BY <1>1, OldCount
    <2>2. code'[v] = code[v] /\ disabled'[v] = disabled[v]
      BY <1>1, <1>5, <2>1
    <2> QED BY <2>1, <2>2, CountUp
  <1>8. CASE c = "kill_me" /\ others = TRUE
    <2>1. Pending(code'[u]) = Pending(code[u]) \cup {1} /\ 1 \in Nat \ Pending(code[u])
      BY <1>3, <1>4, <1>5, <1>8 DEF Restarters
    <2>2. \A v \in Threads \ {u} : Pending(code'[v]) = Pending(code[v])
      BY <1>5
    <2>3. \A v \in Live(vm') \ {u} :
            CountRight(vm'.suspendCount[v], disabled'[v], code'[v],
                       Cardinality(OthersCommands(v)) + 1)
      BY <1>2, <1>7, <1>8
    <2> QED BY <1>1, <1>6, <2>1, <2>2, <2>3, CommandStarted
  <1>9. CASE c = "kill_me_without_restart" /\ others = FALSE
    <2>1. \A v \in Threads : Pending(code'[v]) = Pending(code[v])
      BY <1>3, <1>4, <1>5, <1>9 DEF Restarters
    <2>2. \A v \in Live(vm') :
            CountRight(vm'.suspendCount[v], disabled'[v], code'[v],
                       Cardinality(OthersCommands(v)))
      BY <1>2, <1>6, <1>7, <1>9
    <2> QED BY <1>1, <2>1, <2>2, CommandsKept
  <1> QED BY <1>8, <1>9

(* What a command's escape frame keeps of the thread it is pushed on.      *)
LEMMA KeptAlso ==
  ASSUME NEW c, NEW n \in Nat, Kept(c, n), NEW d, NEW j,
         EscapeSet(d) = EscapeSet(c) \cup {j},
         \A i \in EscapeSet(c) : d.frames[i] = c.frames[i],
         n = 0 => d.frames[j].status # "Suspended",
         n > 0 => /\ EscapeSet(c) = {}
                  /\ d.frames[j].status = "Suspended" /\ d.frames[j].count = n
  PROVE  Kept(d, n)
  <1> SUFFICES ASSUME NEW i \in EscapeSet(d)
               PROVE  IF n = 0 THEN d.frames[i].status # "Suspended"
                      ELSE /\ d.frames[i].status = "Suspended" /\ d.frames[i].count = n
                           /\ EscapeSet(d) = {i}
    BY DEF Kept
  <1>1. CASE n = 0
    <2>1. \A k \in EscapeSet(c) : c.frames[k].status # "Suspended"
      BY <1>1 DEF Kept
    <2> QED BY <1>1, <2>1
  <1>2. CASE n # 0
    <2>1. n > 0
      BY <1>2
    <2>2. EscapeSet(d) = {j} /\ i = j
      BY <2>1
    <2> QED BY <1>2, <2>1, <2>2
  <1> QED BY <1>1, <1>2

(* A command on a thread that is there: its count moves to the frame.      *)
LEMMA RunOnCounts ==
  ASSUME DebugInv, CodesRight, CountsRight, uses = {}, vm.fault = "none",
         disabled' = disabled, uses' = uses,
         NEW s, Consistent(s), LocksAgree(s), s.fault = "none", SameCounts(s, vm),
         NEW t \in Live(vm), s.status[t] \in EscapeStatuses,
         NEW c, NEW pushed, NEW others, Commandable(c, pushed, others),
         RunOn(s, t, c, pushed, others),
         disabled[t] = 0 => s.status[t] # "Suspended",
         disabled[t] > 0 => /\ s.status[t] = "Suspended" /\ EscapeSet(code[t]) = {}
                            /\ vm.suspendCount[t] = disabled[t]
                            /\ Cardinality(OthersCommands(t)) = 0
  PROVE  CountsRight'
  <1> DEFINE e == EscapeFrame(s, t)
             d == [frames |-> Append(code[t].frames \o pushed, e),
                   entry |-> "start", cont |-> c]
             K(u) == Cardinality(OthersCommands(u))
  <1>1. /\ CountRight(vm.suspendCount[t], disabled[t], code[t], K(t))
        /\ vm.suspendCount[t] \in Nat /\ disabled[t] \in Nat /\ code[t] \in Codes
        /\ K(t) \in Nat /\ t \in Threads
    BY OldCount
  <1>2. code[t].entry = "inside" /\ vm' = RunningOn(s, t, others) /\ code' = [code EXCEPT ![t] = d]
    <2>1. MayUse(t)
      BY DEF RunOn
    <2>2. code[t].entry = "inside"
      BY <2>1 DEF MayUse
    <2> QED BY <2>2 DEF RunOn, RunningOn
  <1>3. e \in Escapes /\ e.status = s.status[t]
        /\ (s.status[t] = "Suspended" => e.count = vm.suspendCount[t])
    <2>1. e \in Escapes
      BY <1>1, EscapeFrameType
    <2> QED BY <2>1 DEF EscapeFrame, SameCounts
  <1>4. c \in Finishers /\ pushed \in Seq(Flags) /\ others \in BOOLEAN
    BY CommandableTypes
  <1> HIDE DEF e
  <1>5. /\ c \notin Restarters => Pending(d) = Pending(code[t])
        /\ c \in Restarters =>
             \E m \in Nat \ Pending(code[t]) : Pending(d) = Pending(code[t]) \cup {m}
        /\ \E j \in DOMAIN d.frames : /\ EscapeSet(d) = EscapeSet(code[t]) \cup {j}
                                      /\ d.frames[j] = e
        /\ \A i \in EscapeSet(code[t]) : d.frames[i] = code[t].frames[i]
    <2> DEFINE o == code[t]
    <2>1. o \in Codes /\ o.entry = "inside" /\ pushed \in Seq(Flags) /\ e \in Escapes
          /\ c \in Finishers
          /\ d = [frames |-> Append(o.frames \o pushed, e), entry |-> "start", cont |-> c]
      BY <1>1, <1>2, <1>3, <1>4
    <2> HIDE DEF o, d
    <2>2. Adds(c, e, o, d)
      BY <2>1, CommandedCounts
    <2> QED BY <2>2 DEF o, Adds
  <1>6. PICK j : EscapeSet(d) = EscapeSet(code[t]) \cup {j} /\ d.frames[j] = e
    BY <1>5
  <1> HIDE DEF d
  <1>7. Kept(d, disabled[t])
    <2>1. Kept(code[t], disabled[t])
      BY <1>1 DEF CountRight
    <2> QED BY <1>1, <1>3, <1>5, <1>6, <2>1, KeptAlso
  <1>8. code'[t] = d /\ \A u \in Threads \ {t} : code'[u] = code[u]
    BY <1>1, <1>2 DEF DebugInv, CodeTypes
  <1>9. /\ Live(vm') = Live(vm)
        /\ vm'.fault = "none" =>
             /\ vm'.suspendCount[t] = 0
             /\ \A u \in Live(vm) \ {t} : vm'.suspendCount[u] =
                  IF others THEN vm.suspendCount[u] + 1 ELSE vm.suspendCount[u]
    <2>1. Live(s) = Live(vm) /\ s.suspendCount = vm.suspendCount
      BY DEF SameCounts
    <2>2. t \in Live(s)
      BY <2>1
    <2>3. /\ Live(RunningOn(s, t, others)) = Live(s)
          /\ RunningOn(s, t, others).fault = "none" =>
               /\ RunningOn(s, t, others).suspendCount[t] = 0
               /\ \A u \in Live(s) \ {t} : RunningOn(s, t, others).suspendCount[u] =
                    IF others THEN s.suspendCount[u] + 1 ELSE s.suspendCount[u]
      BY <1>4, <2>2, RunningOnRight
    <2> QED BY <1>2, <2>1, <2>3
  <1>10. ASSUME vm'.fault = "none"
         PROVE  CountRight(vm'.suspendCount[t], disabled'[t], code'[t], K(t))
    <2>1. EscapeSet(code'[t]) # {}
      BY <1>6, <1>8
    <2> QED BY <1>1, <1>7, <1>8, <1>9, <1>10, <2>1 DEF CountRight
  <1>11. ASSUME NEW u \in Live(vm) \ {t}
         PROVE  /\ CountRight(vm.suspendCount[u], disabled'[u], code'[u], K(u))
                /\ CountRight(vm.suspendCount[u] + 1, disabled'[u], code'[u], K(u) + 1)
    <2>1. /\ CountRight(vm.suspendCount[u], disabled[u], code[u], K(u))
          /\ vm.suspendCount[u] \in Nat /\ disabled[u] \in Nat /\ K(u) \in Nat
          /\ u \in Threads
      BY <1>11, OldCount
    <2>2. code'[u] = code[u] /\ disabled'[u] = disabled[u]
      BY <1>8, <2>1
    <2> HIDE DEF K
    <2> QED BY <2>1, <2>2, CountUp
  <1>12. CASE c \in Restarters
    <2>1. others = TRUE
      BY <1>12 DEF Commandable, Restarters
    <2>2. PICK m \in Nat \ Pending(code[t]) : Pending(d) = Pending(code[t]) \cup {m}
      BY <1>5, <1>12
    <2>3. Pending(code'[t]) = Pending(code[t]) \cup {m}
      BY <1>8, <2>2
    <2>4. \A u \in Threads \ {t} : Pending(code'[u]) = Pending(code[u])
      BY <1>8
    <2>5. ASSUME vm'.fault = "none", NEW u \in Live(vm') \ {t}
          PROVE  CountRight(vm'.suspendCount[u], disabled'[u], code'[u], K(u) + 1)
      BY <1>9, <1>11, <2>1, <2>5
    <2> QED BY <1>1, <1>10, <2>2, <2>3, <2>4, <2>5, CommandStarted
  <1>13. CASE c \notin Restarters
    <2>1. others = FALSE
      BY <1>13 DEF Commandable, Restarters
    <2>2. \A u \in Threads : Pending(code'[u]) = Pending(code[u])
      BY <1>5, <1>8, <1>13
    <2>3. ASSUME vm'.fault = "none", NEW u \in Live(vm')
          PROVE  CountRight(vm'.suspendCount[u], disabled'[u], code'[u], K(u))
      BY <1>9, <1>10, <1>11, <2>1, <2>3
    <2> QED BY <2>2, <2>3, CommandsKept
  <1> QED BY <1>12, <1>13

LEMMA CommandsCounts ==
  ASSUME DebugInv, CodesRight, CountsRight, uses = {}, uses' = uses,
         CallCommand \/ ReturnCommand \/ StepCommand \/ RestartCommand
  PROVE  CountsRight'
  <1>1. ASSUME NEW c, NEW pushed, NEW others, Commandable(c, pushed, others),
               Commanded(c, pushed, others)
        PROVE  CountsRight'
    <2> DEFINE t == selected
               k == Cardinality(OthersCommands(t))
    <2>1. /\ Ready /\ t # NoThread /\ RunOn(vm, t, c, pushed, others)
          /\ MayUse(t) /\ MayOverlap(t) /\ disabled' = disabled
      BY <1>1 DEF Commanded, RunOn
    <2>2. t \in Live(vm) /\ vm.status[t] \in EscapeStatuses
      BY <2>1, MayUseSelected
    <2>3. Consistent(vm) /\ LocksAgree(vm) /\ vm.fault = "none" /\ SameCounts(vm, vm)
      BY <2>1 DEF DebugInv, IInv, Ready, SameCounts
    <2> HIDE DEF t
    <2>4. k = 0
      BY <2>1, OverlapLeftOut
    <2>5. /\ CountRight(vm.suspendCount[t], disabled[t], code[t], k)
          /\ vm.suspendCount[t] \in Nat /\ disabled[t] \in Nat /\ t \in Threads
      BY <2>2, <2>3, OldCount
    <2>6. vm.status[t] = "Suspended" => vm.suspendCount[t] > 0
      BY <2>3, <2>5, Lists
    <2>7. disabled[t] = 0 => vm.status[t] # "Suspended"
      BY <2>4, <2>5, <2>6 DEF CountRight
    <2>8. disabled[t] > 0 => /\ vm.status[t] = "Suspended" /\ EscapeSet(code[t]) = {}
                             /\ vm.suspendCount[t] = disabled[t]
      <3>1. disabled[t] > 0 => vm.status[t] = "Suspended"
        BY <2>1 DEF MayUse
      <3>2. disabled[t] > 0 =>
              vm.suspendCount[t] = (IF EscapeSet(code[t]) = {} THEN disabled[t] ELSE 0) + 0
        BY <2>4, <2>5 DEF CountRight
      <3>3. disabled[t] > 0 => EscapeSet(code[t]) = {}
        BY <2>5, <2>6, <3>1, <3>2
      <3> QED BY <2>5, <3>1, <3>2, <3>3
    <2> QED BY <1>1, <2>1, <2>2, <2>3, <2>4, <2>7, <2>8, RunOnCounts
  <1>2. ASSUME Helped("kill_me", TRUE) \/ Helped("kill_me_without_restart", FALSE)
        PROVE  CountsRight'
    BY <1>2, HelpedCounts
  <1> QED BY <1>1, <1>2, CommandForms

LEMMA EnterDebuggerCounts ==
  ASSUME DebugInv, CodesRight, CountsRight, uses = {}, uses' = uses,
         NEW t \in Threads, EnterDebugger(t)
  PROVE  CountsRight'
  <1>1. PICK s : /\ Consistent(s) /\ LocksAgree(s) /\ s.fault = "none"
                 /\ SameCounts(s, vm) /\ s.status[t] = "Debuggered"
                 /\ \/ vm' = s /\ code' = code
                    \/ RunOn(s, t, "debugger_cmd_finished", <<>>, TRUE)
    BY EnterDebuggerForms
  <1>2. t \in Live(vm) /\ vm.fault = "none" /\ disabled' = disabled
    BY EnterDebuggerForms
  <1>3. CASE vm' = s /\ code' = code
    BY <1>1, <1>2, <1>3, SameCommands
  <1>4. CASE RunOn(s, t, "debugger_cmd_finished", <<>>, TRUE)
    <2>1. MayUse(t)
      BY <1>4 DEF RunOn
    <2>2. vm.status[t] = "Running"
      BY ExecutesRunning DEF EnterDebugger, Inside, DebugInv
    <2>3. ~ (disabled[t] > 0) /\ disabled[t] \in Nat
      BY <2>1, <2>2 DEF MayUse, DebugInv, CodeTypes
    <2>4. Commandable("debugger_cmd_finished", <<>>, TRUE)
      BY DEF Commandable
    <2>5. s.status[t] \in EscapeStatuses /\ s.status[t] # "Suspended"
      BY <1>1 DEF EscapeStatuses
    <2> QED BY <1>1, <1>2, <1>4, <2>3, <2>4, <2>5, RunOnCounts
  <1> QED BY <1>1, <1>3, <1>4

(* The helper thread of a command ends, and restarts the others if they    *)
(* were suspended.                                                         *)
LEMMA KillMeCounts ==
  ASSUME DebugInv, CodesRight, CountsRight, uses = {}, NEW t \in Threads, KillMe(t)
  PROVE  CountsRight'
  <1> DEFINE c == code[t]
             n == Len(c.frames)
             k == Top(t).cont
  <1>1. /\ vm.fault = "none" /\ vm'.fault = "none"
        /\ t \in Live(vm) /\ Live(vm') = Live(vm) \ {t}
        /\ \A u \in Live(vm') : vm'.suspendCount[u] =
             IF k = "kill_me" /\ vm.suspendCount[u] > 0
               THEN vm.suspendCount[u] - 1 ELSE vm.suspendCount[u]
        /\ code' = CodeOf(vm') /\ disabled' = [disabled EXCEPT ![t] = 0] /\ uses' = uses
    BY KillMeRight
  <1>2. Returns(t, Killers)
    BY DEF KillMe
  <1>3. /\ c.entry = "inside" /\ n \in Nat /\ n > 0 /\ c.frames[n] = Call(k) /\ k \in Killers
    BY <1>2, ReturnsTop
  <1>4. c.frames[n].kind = "call" /\ c.frames[n].cont = k /\ n \in 1..n
    BY <1>3 DEF Call
  <1>5. c \in Codes /\ CodeRight(c) /\ k \in Starters
    BY <1>3 DEF DebugInv, CodeTypes, CodesRight, Starters
  <1> HIDE DEF c, k
  <1>6. n = 1
    BY <1>4, <1>5, OnlyFrame
  <1>7. Pending(c) = IF k = "kill_me" THEN {1} ELSE {}
    <2>1. \A i \in 1..(n + 1) : i = 1 \/ i = n + 1
      BY <1>6
    <2>2. 1 \in 1..(n + 1) /\ 1 # n + 1
      BY <1>6
    <2>3. \A i : i \in Pending(c) => i = 1
      BY <1>3, <2>1 DEF Pending
    <2>4. 1 \in Pending(c) <=> k \in Restarters
      BY <1>4, <1>6, <2>2 DEF Pending
    <2>5. k \in Restarters <=> k = "kill_me"
      BY <1>3 DEF Restarters, Killers
    <2> QED BY <2>3, <2>4, <2>5
  <1>8. /\ \A u \in Live(vm') : code'[u] = code[u]
        /\ \A u \in Threads \ Live(vm') : Pending(code'[u]) = {}
        /\ \A u \in Threads \ Live(vm) : Pending(code[u]) = {}
    BY <1>1, FewerPending
  <1>9. Pending(code'[t]) = {} /\ \A u \in Threads \ {t} : Pending(code'[u]) = Pending(code[u])
    BY <1>1, <1>8
  <1>10. ASSUME NEW u \in Live(vm')
         PROVE  /\ CountRight(vm.suspendCount[u], disabled'[u], code'[u],
                              Cardinality(OthersCommands(u)))
                /\ vm.suspendCount[u] \in Nat /\ disabled'[u] \in Nat /\ u # t
    <2>1. u \in Live(vm) /\ u # t /\ u \in Threads
      BY <1>1 DEF Live
    <2>2. disabled'[u] = disabled[u] /\ code'[u] = code[u]
      BY <1>1, <1>8, <2>1 DEF DebugInv, CodeTypes
    <2> QED BY <1>1, <2>1, <2>2, OldCount
  <1>11. CASE k = "kill_me"
    <2>1. 1 \in Nat \ Pending(code'[t]) /\ Pending(code[t]) = Pending(code'[t]) \cup {1}
      BY <1>7, <1>9, <1>11 DEF c
    <2>2. ASSUME NEW u \in Live(vm') \ {t}, NEW x \in Nat,
                 Cardinality(OthersCommands(u)) = x + 1
          PROVE  CountRight(vm'.suspendCount[u], disabled'[u], code'[u], x)
      <3>1. CountRight(vm.suspendCount[u], disabled'[u], code'[u], x + 1)
        BY <1>10, <2>2
      <3>2. vm'.suspendCount[u] = IF vm.suspendCount[u] > 0 THEN vm.suspendCount[u] - 1
                                  ELSE vm.suspendCount[u]
        BY <1>1, <1>11
      <3> QED BY <1>10, <3>1, <3>2, CountDown
    <2>3. t \notin Live(vm')
      BY <1>1
    <2> QED BY <1>1, <1>9, <2>1, <2>2, <2>3, CommandEnded
  <1>12. CASE k # "kill_me"
    <2>1. \A u \in Threads : Pending(code'[u]) = Pending(code[u])
      BY <1>7, <1>9, <1>12 DEF c
    <2>2. \A u \in Live(vm') :
            CountRight(vm'.suspendCount[u], disabled'[u], code'[u],
                       Cardinality(OthersCommands(u)))
      BY <1>1, <1>10, <1>12
    <2> QED BY <1>1, <2>1, <2>2, CommandsKept
  <1> QED BY <1>11, <1>12

(* A command's escape frame gives its thread the count back that it kept.  *)
LEMMA GivenBack ==
  ASSUME NEW n \in Nat, NEW c, NEW k \in Nat, CountRight(0, n, c, k),
         NEW d, NEW j, EscapeSet(d) = EscapeSet(c) \ {j}, j \in EscapeSet(c),
         \A i \in EscapeSet(d) : d.frames[i] = c.frames[i],
         NEW x, x = IF c.frames[j].status = "Suspended" THEN c.frames[j].count ELSE 0
  PROVE  CountRight(x, n, d, k)
  <1>1. EscapeSet(c) # {} /\ Kept(c, n)
    BY DEF CountRight
  <1>2. CASE n = 0
    <2>1. \A i \in EscapeSet(c) : c.frames[i].status # "Suspended"
      BY <1>1, <1>2 DEF Kept
    <2>2. x = 0
      BY <2>1
    <2>3. Kept(d, n)
      BY <1>2, <2>1 DEF Kept
    <2> QED BY <1>2, <2>2, <2>3 DEF CountRight
  <1>3. CASE n > 0
    <2>1. c.frames[j].status = "Suspended" /\ c.frames[j].count = n /\ EscapeSet(c) = {j}
      BY <1>1, <1>3 DEF Kept
    <2>2. x = n /\ EscapeSet(d) = {}
      BY <2>1
    <2>3. k = 0
      BY <1>1, <1>3 DEF CountRight
    <2>4. Kept(d, n)
      BY <2>2 DEF Kept
    <2> QED BY <1>3, <2>2, <2>3, <2>4 DEF CountRight
  <1> QED BY <1>2, <1>3

LEMMA PoppedCounts ==
  ASSUME DebugInv, CodesRight, CountsRight, uses = {}, uses' = uses,
         disabled' = disabled, NEW t \in Threads, NEW cs, Returns(t, cs),
         FindsEscape(t), NEW n \in {2, 3}, n = 3 => HasFlag(t),
         code' = Escaped(t, n), Live(vm') = Live(vm),
         \A u \in Live(vm) \ {t} : vm'.suspendCount[u] =
           IF Top(t).cont \in Restarters /\ vm.suspendCount[u] > 0
             THEN vm.suspendCount[u] - 1 ELSE vm.suspendCount[u],
         vm'.suspendCount[t] = IF Last(Below(t)).status = "Suspended"
                                 THEN Last(Below(t)).count ELSE 0
  PROVE  CountsRight'
  <1> DEFINE c == code[t]
             d == code'[t]
             k == Top(t).cont
             l == Len(c.frames)
             K(u) == Cardinality(OthersCommands(u))
  <1>1. /\ vm.status[t] = "Running" /\ vm.fault = "none" /\ t \in Live(vm)
        /\ c.entry = "inside" /\ l \in Nat
        /\ c.frames[l] = Call(k)
        /\ Last(Below(t)) = c.frames[l - 1] /\ c.frames[l - 1].kind = "escape"
    BY ReturnsTop
  <1>2. c.frames[l].kind = "call" /\ c.frames[l].cont = k
    BY <1>1 DEF Call
  <1>3. /\ code' \in [Threads -> Codes]
        /\ \A u \in Threads \ {t} : code'[u] = code[u]
        /\ d.frames = SubSeq(c.frames, 1, l - n) /\ d.entry = Last(Below(t)).entry
        /\ l - n \in Nat
    BY EscapedType
  <1>4. Last(Below(t)).entry = "inside"
    BY EscapedCodes
  <1>5. n = 3 => c.frames[l - 2].kind = "flag"
    BY DEF HasFlag
  <1>6. c \in Codes /\ d \in Codes
    BY <1>3 DEF DebugInv, CodeTypes
  <1>7. Removes(k, l - 1, c, d)
    <2>1. d.entry = "inside"
      BY <1>3, <1>4
    <2> HIDE DEF c, d, k
    <2>2. Removes(c.frames[l].cont, l - 1, c, d)
      BY <1>1, <1>2, <1>3, <1>5, <1>6, <2>1, EscapedCounts
    <2> QED BY <1>2, <2>2
  <1>8. /\ CountRight(vm.suspendCount[t], disabled[t], c, K(t))
        /\ disabled[t] \in Nat /\ K(t) \in Nat /\ vm.suspendCount[t] = 0
    <2>1. vm.suspendCount[t] = 0
      BY <1>1, Lists DEF DebugInv, IInv
    <2> QED BY <1>1, <2>1, OldCount
  <1> HIDE DEF c, d, k, l, K
  <1>9. CountRight(vm'.suspendCount[t], disabled'[t], d, K(t))
    <2>1. CountRight(0, disabled[t], c, K(t))
      BY <1>8
    <2>2. /\ EscapeSet(d) = EscapeSet(c) \ {l - 1} /\ l - 1 \in EscapeSet(c)
          /\ \A i \in EscapeSet(d) : d.frames[i] = c.frames[i]
      BY <1>7 DEF Removes
    <2>3. vm'.suspendCount[t] = IF c.frames[l - 1].status = "Suspended"
                                  THEN c.frames[l - 1].count ELSE 0
      BY <1>1
    <2> QED BY <1>8, <2>1, <2>2, <2>3, GivenBack
  <1>10. ASSUME NEW u \in Live(vm) \ {t}
         PROVE  /\ CountRight(vm.suspendCount[u], disabled'[u], code'[u], K(u))
                /\ vm.suspendCount[u] \in Nat /\ disabled'[u] \in Nat
    <2>1. u \in Threads
      BY DEF Live
    <2>2. code'[u] = code[u] /\ disabled'[u] = disabled[u]
      BY <1>3, <2>1
    <2> QED BY <1>1, <2>2, OldCount DEF K
  <1>11. \A u \in Threads \ {t} : Pending(code'[u]) = Pending(code[u])
    BY <1>3
  <1>12. CASE k \in Restarters
    <2>1. PICK m \in Nat \ Pending(d) : Pending(c) = Pending(d) \cup {m}
      BY <1>7, <1>12 DEF Removes
    <2>2. ASSUME NEW u \in Live(vm') \ {t}, NEW x \in Nat, K(u) = x + 1
          PROVE  CountRight(vm'.suspendCount[u], disabled'[u], code'[u], x)
      <3>1. CountRight(vm.suspendCount[u], disabled'[u], code'[u], x + 1)
        BY <1>10, <2>2
      <3>2. vm'.suspendCount[u] = IF vm.suspendCount[u] > 0 THEN vm.suspendCount[u] - 1
                                  ELSE vm.suspendCount[u]
        BY <1>12 DEF k
      <3> QED BY <1>10, <3>1, <3>2, CountDown
    <2> QED BY <1>9, <1>11, <2>1, <2>2, CommandEnded DEF c, d, K
  <1>13. CASE k \notin Restarters
    <2>1. \A u \in Threads : Pending(code'[u]) = Pending(code[u])
      BY <1>7, <1>11, <1>13 DEF Removes, c, d
    <2>2. ASSUME NEW u \in Live(vm')
          PROVE  CountRight(vm'.suspendCount[u], disabled'[u], code'[u], K(u))
      <3>1. CASE u = t
        BY <1>9, <3>1 DEF d
      <3>2. CASE u # t
        <4>1. vm'.suspendCount[u] = vm.suspendCount[u]
          BY <1>13, <3>2 DEF k
        <4> QED BY <1>10, <3>2, <4>1
      <3> QED BY <3>1, <3>2
    <2> QED BY <2>1, <2>2, CommandsKept DEF K
  <1> QED BY <1>12, <1>13

LEMMA CommandFinishedCounts ==
  ASSUME DebugInv, CodesRight, CountsRight, uses = {}, uses' = uses,
         NEW t \in Threads, CommandFinished(t)
  PROVE  CountsRight'
  <1>1. /\ Live(vm') = Live(vm) /\ Returns(t, Finishers \ {"maybe_return"})
        /\ FindsEscape(t) /\ code' = Escaped(t, 2) /\ disabled' = disabled
        /\ \A u \in Live(vm) \ {t} : vm'.suspendCount[u] =
             IF Top(t).cont = "debugger_cmd_finished" /\ vm.suspendCount[u] > 0
               THEN vm.suspendCount[u] - 1 ELSE vm.suspendCount[u]
        /\ vm'.suspendCount[t] = IF Last(Below(t)).status = "Suspended"
                                   THEN Last(Below(t)).count ELSE 0
    BY CommandFinishedRight
  <1>2. Top(t).cont \in Restarters <=> Top(t).cont = "debugger_cmd_finished"
    <2>1. Top(t).cont \in Finishers \ {"maybe_return"}
      BY <1>1, ReturnsTop
    <2> QED BY <2>1 DEF Restarters, Finishers
  <1>3. 2 \in {2, 3} /\ (2 = 3 => HasFlag(t))
    OBVIOUS
  <1> QED BY <1>1, <1>2, <1>3, PoppedCounts

LEMMA ReturnTakenCounts ==
  ASSUME DebugInv, CodesRight, CountsRight, uses = {}, uses' = uses,
         NEW t \in Threads, ReturnTaken(t)
  PROVE  CountsRight'
  <1>1. /\ Live(vm') = Live(vm) /\ Returns(t, {"maybe_return"}) /\ FindsEscape(t)
        /\ Last(Below(t)).status = "Debuggered" /\ disabled' = disabled
        /\ \A u \in Live(vm) \ {t} : vm'.suspendCount[u] =
             IF vm.suspendCount[u] > 0 THEN vm.suspendCount[u] - 1 ELSE 0
        /\ vm'.suspendCount[t] = 0
        /\ code' = Escaped(t, IF HasFlag(t) THEN 3 ELSE 2)
    BY ReturnTakenRight
  <1>2. Top(t).cont = "maybe_return" /\ "maybe_return" \in Restarters
    BY <1>1, ReturnsTop DEF Restarters
  <1>3. \A u \in Live(vm) \ {t} : vm'.suspendCount[u] =
           IF Top(t).cont \in Restarters /\ vm.suspendCount[u] > 0
             THEN vm.suspendCount[u] - 1 ELSE vm.suspendCount[u]
    <2>1. \A u \in Live(vm) : vm.suspendCount[u] \in Nat
      BY DEF Live, DebugInv, IInv, Consistent, VMStates
    <2> QED BY <1>1, <1>2, <2>1
  <1>4. vm'.suspendCount[t] = IF Last(Below(t)).status = "Suspended"
                                THEN Last(Below(t)).count ELSE 0
    BY <1>1
  <1>5. PICK n \in {2, 3} : code' = Escaped(t, n) /\ (n = 3 => HasFlag(t))
    BY <1>1
  <1> QED BY <1>1, <1>3, <1>4, <1>5, PoppedCounts

LEMMA CountsStep ==
  ASSUME DebugInv, CodesRight, CountsRight, [DebugNext]_debugVars
  PROVE  CountsRight'
  <1>0. uses' = uses
    BY DebugStepsKeepUses
  <1> SUFFICES ASSUME uses = {} PROVE CountsRight'
    BY <1>0 DEF CountsRight
  <1>1. CASE Quiet
    BY <1>0, <1>1, QuietRight, SameCommands
  <1>2. ASSUME NEW t \in Threads, Ends(t) PROVE CountsRight'
    BY <1>2, EndsCounts
  <1>3. ASSUME NEW t \in Threads, Disable(t) \/ Enable(t) PROVE CountsRight'
    BY <1>3, DisableCounts
  <1>4. CASE Continue /\ ~ Quiet
    BY <1>4, ContinueCounts
  <1>5. ASSUME NEW t \in Threads, EnterFunction(t) PROVE CountsRight'
    BY <1>5, EnterFunctionCounts
  <1>6. ASSUME NEW t \in Threads, SpawnThread(t) PROVE CountsRight'
    BY <1>6, SpawnCounts
  <1>7. ASSUME NEW t \in Threads, EnterDebugger(t) PROVE CountsRight'
    BY <1>0, <1>7, EnterDebuggerCounts
  <1>8. ASSUME NEW t \in Threads, KillMe(t) PROVE CountsRight'
    BY <1>8, KillMeCounts
  <1>9. ASSUME NEW t \in Threads, CommandFinished(t) PROVE CountsRight'
    BY <1>0, <1>9, CommandFinishedCounts
  <1>10. ASSUME NEW t \in Threads, ReturnTaken(t) PROVE CountsRight'
    BY <1>0, <1>10, ReturnTakenCounts
  <1>11. ASSUME NEW t \in Threads, Unwind(t) \/ ReturnRefused(t) PROVE FALSE
    BY <1>11 DEF Unwind, ReturnRefused
  <1>12. CASE FlushCommand
    BY <1>12 DEF FlushCommand
  <1>13. CASE CallCommand \/ ReturnCommand \/ StepCommand \/ RestartCommand
    BY <1>0, <1>13, CommandsCounts
  <1>14. ASSUME NEW t \in Threads, Counts(t) PROVE CountsRight'
    BY <1>3, <1>4, <1>14 DEF Counts
  <1> QED BY <1>1, <1>2, <1>4, <1>5, <1>6, <1>7, <1>8, <1>9, <1>10, <1>11, <1>12,
             <1>13, <1>14, DebugSteps

LEMMA CountsInit ==
  ASSUME DebugInit, DebugInv
  PROVE  CountsRight
  <1>1. ASSUME NEW t \in Threads
        PROVE  /\ Pending(code[t]) = {} /\ EscapeSet(code[t]) = {} /\ disabled[t] = 0
    <2>1. code[t] = Fresh("stop_thread") \/ code[t] = NoCode
      BY DEF DebugInit
    <2>2. Pending(Fresh("stop_thread")) = {} /\ EscapeSet(Fresh("stop_thread")) = {}
      BY FreshCounts DEF Conts, Restarters
    <2> QED BY <2>1, <2>2, NoCodeCounts DEF DebugInit
  <1>2. Commands = {}
    BY <1>1 DEF Commands
  <1>3. \A t : OthersCommands(t) = {}
    BY <1>2 DEF OthersCommands, NotOn
  <1>4. IsFiniteSet(Commands) /\ \A t : Cardinality(OthersCommands(t)) = 0
    BY <1>2, <1>3, FS_EmptySet
  <1>5. ASSUME NEW t \in Live(vm)
        PROVE  CountRight(vm.suspendCount[t], disabled[t], code[t], 0)
    <2>1. t \in Threads
      BY DEF Live
    <2>2. PICK u \in Threads :
            IsNextId(EmptyVM, u) /\ vm = ThreadRestart(ThreadMake(EmptyVM, u), u)
      BY DEF DebugInit, Init
    <2> DEFINE m == ThreadMake(EmptyVM, u)
    <2>3. EmptyVM \in VMStates /\ EmptyVM.status[u] = "Unmade"
          /\ EmptyVM.suspendCount[t] = 0
      BY <2>1 DEF EmptyVM, VMStates, Statuses, LiveStatuses
    <2>4. m \in VMStates /\ CountsBut(m, EmptyVM, u, 1)
      BY <2>3, MakeRight
    <2>5. m.suspendCount[u] = 1
      BY <2>4 DEF CountsBut
    <2> HIDE DEF m
    <2>6. CountsBut(vm, m, u, 0)
      <3>1. CountsBut(ThreadRestart(m, u), m, u,
                      IF m.suspendCount[u] > 0 THEN m.suspendCount[u] - 1 ELSE 0)
        BY <2>4, ThreadRestartRight
      <3>2. (IF m.suspendCount[u] > 0 THEN m.suspendCount[u] - 1 ELSE 0) = 0
        BY <2>5
      <3> QED BY <2>2, <3>1, <3>2 DEF m
    <2>7. vm.suspendCount[t] = 0
      BY <2>1, <2>3, <2>4, <2>6 DEF CountsBut
    <2> QED BY <1>1, <2>1, <2>7, EmptyCount
  <1> QED BY <1>4, <1>5 DEF CountsRight

LEMMA CountsInvariant ==
  DebugSpec => [](NoneBlocked => DebugInv /\ CodesRight /\ CountsRight)
  <1>1. DebugInit => (NoneBlocked => DebugInv /\ CodesRight /\ CountsRight)
    BY DebugInitRight, CodesInit, CountsInit
  <1>2. (NoneBlocked => DebugInv /\ CodesRight /\ CountsRight) /\ [DebugNext]_debugVars
          => (NoneBlocked => DebugInv /\ CodesRight /\ CountsRight)'
    BY DebugNextRight, CodesStep, CountsStep, DebugStepsKeepUses DEF NoneBlocked
  <1> QED BY <1>1, <1>2, PTL DEF DebugSpec

(* However a careful user's commands nest and whichever ends first, they   *)
(* undo together exactly the suspensions they made: with none under way    *)
(* each thread is suspended as often as the user disabled it.              *)
THEOREM CommandsUndoTheirStops == DebugSpec => []OnlyDisableSuspends
  <1>1. (NoneBlocked => DebugInv /\ CodesRight /\ CountsRight) => OnlyDisableSuspends
    <2> SUFFICES ASSUME DebugInv, CodesRight, CountsRight, uses = {}, ~ SomeUnderWay,
                        vm.fault = "none", NEW t \in Live(vm)
                 PROVE  vm.suspendCount[t] = disabled[t]
      BY DEF OnlyDisableSuspends, NoneBlocked
    <2>1. Cardinality(OthersCommands(t)) = 0 /\ EscapeSet(code[t]) = {}
      BY NothingUnderWay
    <2>2. /\ CountRight(vm.suspendCount[t], disabled[t], code[t], 0)
          /\ vm.suspendCount[t] \in Nat /\ disabled[t] \in Nat
      BY <2>1, OldCount
    <2> QED BY <2>1, <2>2, EmptyCount
  <1> QED BY <1>1, CountsInvariant, PTL
=============================================================================
