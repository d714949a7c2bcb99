------------------------- MODULE MindyDylanProofs --------------------------
(***************************************************************************)
(* Proofs about what Dylan code builds on the threads of the virtual       *)
(* machine: the semaphores and multilocks of the library (MindySync), for  *)
(* any threads, and blocks with exits, cleanups and handlers (MindyNlx),   *)
(* for a stack of any depth.                                               *)
(***************************************************************************)
EXTENDS MindySync, MindyNlx, MindyThreadsProofs, FiniteSetTheorems

(* What a thread is doing. *)
Steps ==
  {Idle}
    \cup [op : {"grab"}, on : Locks,
          at : {"enter", "test", "sleep", "take", "again", "leave"}]
    \cup [op : {"release"}, on : Locks,
          at : {"enter", "check", "clear", "signal", "leave"}]
    \cup [op : {"wait"}, on : {Semaphore},
          at : {"enter", "check", "clear", "signal", "wait_event", "leave"}]

ObjectTypes ==
  /\ step \in [Threads -> Steps]
  /\ lockedQ \in BOOLEAN
  /\ taker \in Threads \cup {NoThread}
  /\ locker \in Threads \cup {NoThread}
  /\ count \in Nat
  /\ deserted \in Threads \cup {NoThread}

(* Those who own the spinlock o or wait for it. *)
Held(s, o) == s.owners[o] \cup Range(s.waiting[o])

Inside(st, o) == st.on = o /\ st.at # "enter"

Deserter(t, o) == o = Multilock /\ deserted = t

(* The threads inside the monitor of o are those who own its spinlock, but *)
(* for the one that has deserted it, and those who wait for it, which are  *)
(* at the first of their steps.  Behind a deserter they wait for ever.     *)
SpinInv ==
  /\ OneOwner(vm)
  /\ \A o \in Locks, t \in Threads :
       /\ t \in Held(vm, o) <=> Inside(step[t], o) \/ Deserter(t, o)
       /\ t \in Range(vm.waiting[o]) =>
            Inside(step[t], o) /\ step[t].at \in {"test", "check"}
  /\ deserted # NoThread =>
       /\ deserted \in vm.owners[Multilock]
       /\ \A t \in Threads :
            Inside(step[t], Multilock) => t \in Range(vm.waiting[Multilock])

(* What the step st of the thread t may take for granted of the objects:   *)
(* nobody changed what it found in an earlier step.                        *)
StepRight(t, st) ==
  /\ st.at = "take" => IF st.on = Semaphore THEN ~ lockedQ ELSE locker = NoThread
  /\ st.at = "again" => st.on = Multilock /\ locker = t
  /\ st.at = "clear" => IF st.on = Semaphore THEN lockedQ ELSE locker = t

ObjectInv ==
  /\ lockedQ <=> taker # NoThread
  /\ locker = NoThread <=> count = 0
  /\ deserted # NoThread => locker = NoThread
  /\ \A t \in Threads : StepRight(t, step[t])

(***************************************************************************)
(* The inductive invariant: the thread tables are right, the spinlocks are *)
(* held inside the monitors, and what a thread found there still holds.    *)
(***************************************************************************)
SyncInv == IInv /\ ObjectTypes /\ SpinInv /\ ObjectInv

-----------------------------------------------------------------------------
(* What the operations of thread.c do to those who hold or want a lock. *)

(* The thread t comes to the spinlock l, behind its owner if it has one,   *)
(* or goes.  All others stay.                                              *)
Joins(r, s, t, l) ==
  /\ OneOwner(r)
  /\ \A o \in Locks :
       /\ Held(r, o) = IF o = l THEN Held(s, o) \cup {t} ELSE Held(s, o)
       /\ Range(r.waiting[o]) \subseteq
            Range(s.waiting[o]) \cup (IF o = l THEN {t} ELSE {})
       /\ s.owners[o] \subseteq r.owners[o]
       /\ Range(s.waiting[o]) \subseteq Range(r.waiting[o])
  /\ s.owners[l] # {} => t \in Range(r.waiting[l])

Quits(r, s, t, l) ==
  /\ OneOwner(r)
  /\ \A o \in Locks :
       /\ Held(r, o) = IF o = l THEN Held(s, o) \ {t} ELSE Held(s, o)
       /\ Range(r.waiting[o]) \subseteq Range(s.waiting[o])
       /\ o # l => r.owners[o] = s.owners[o] /\ r.waiting[o] = s.waiting[o]

Stays(r, s) ==
  /\ OneOwner(r)
  /\ \A o \in Locks : r.owners[o] = s.owners[o] /\ r.waiting[o] = s.waiting[o]

LEMMA LocksAreQueues == Locks \subseteq Queues /\ Events \subseteq Queues
  BY DEF Queues

LEMMA GrabJoins ==
  ASSUME NEW s, Consistent(s), OneOwner(s), WaitedAreLocked(s), NEW t \in Threads,
         s.status[t] = "Running", NEW l \in Locks
  PROVE  Joins(LockGrab(s, t, l), s, t, l)
  <1>1. s \in VMStates /\ l \in Queues
    BY LocksAreQueues DEF Consistent
  <1>2. CASE s.locked[l]
    <2> DEFINE q == Enqueue(s, t, l, "Blocked")
    <2>1. /\ q.waiting = [s.waiting EXCEPT ![l] = Append(@, t)]
          /\ q.owners = s.owners /\ q.locked = s.locked
      <3>1. "Blocked" = IF l \in Locks THEN "Blocked" ELSE "Waiting"
        OBVIOUS
      <3> HIDE DEF q
      <3> QED BY <1>1, <3>1, EnqueueConsistent DEF q
    <2>2. LockGrab(s, t, l) = q
      BY <1>2 DEF LockGrab
    <2> HIDE DEF q
    <2>3. /\ t \notin Range(s.waiting[l]) /\ s.waiting[l] \in Seq(Threads)
          /\ IsQueue(s.waiting[l])
      BY <1>1, Waiter, Lists
    <2>4. Range(Append(s.waiting[l], t)) = Range(s.waiting[l]) \cup {t}
      BY <2>3, AppendQueue
    <2>5. \A k \in Locks : q.waiting[k] = IF k = l THEN Append(s.waiting[l], t)
                                          ELSE s.waiting[k]
      BY <1>1, <2>1, LocksAreQueues DEF VMStates
    <2>6. OneOwner(q)
      BY <2>1 DEF OneOwner
    <2>7. \A k \in Locks :
            /\ q.owners[k] = s.owners[k]
            /\ Range(q.waiting[k]) = IF k = l THEN Range(s.waiting[k]) \cup {t}
                                     ELSE Range(s.waiting[k])
      BY <2>1, <2>4, <2>5
    <2> QED BY <2>2, <2>6, <2>7 DEF Joins, Held
  <1>3. CASE ~ s.locked[l]
    <2> DEFINE q == LockGrab(s, t, l)
    <2>1. /\ q.waiting = s.waiting
          /\ \A k \in Locks :
               /\ q.owners[k] = IF k = l THEN s.owners[l] \cup {t} ELSE s.owners[k]
               /\ q.locked[k] = IF k = l THEN TRUE ELSE s.locked[k]
      BY <1>1, <1>3 DEF LockGrab, VMStates
    <2> HIDE DEF q
    <2>2. s.owners[l] = {}
      BY <1>3 DEF OneOwner
    <2>3. OneOwner(q)
      BY ZenonT(60), <2>1, <2>2 DEF OneOwner
    <2> QED BY <2>1, <2>2, <2>3 DEF Joins, Held, q
  <1> QED BY <1>2, <1>3

LEMMA ReleaseQuits ==
  ASSUME NEW s, Consistent(s), OneOwner(s), NEW t \in Threads, NEW l \in Locks,
         t \in s.owners[l], t \notin Range(s.waiting[l])
  PROVE  Quits(LockRelease(s, t, l), s, t, l)
  <1> DEFINE r == LockRelease(s, t, l)
  <1>1. s \in VMStates /\ l \in Queues
    BY LocksAreQueues DEF Consistent
  <1>2. s.owners[l] = {t} /\ s.locked[l]
    BY <1>1 DEF OneOwner, VMStates
  <1>3. CASE s.waiting[l] # <<>>
    <2> DEFINE u == Head(s.waiting[l])
               q == WakeFirst(s, l)
    <2>1. /\ q.waiting = [s.waiting EXCEPT ![l] = Tail(@)]
          /\ q.owners = s.owners /\ q.locked = s.locked /\ Consistent(q)
      <3> HIDE DEF u, q
      <3> QED BY <1>1, <1>3, WakeFirstConsistent DEF u, q
    <2>2. r = [q EXCEPT !.owners[l] = (@ \ {t}) \cup {u}]
      BY <1>3 DEF LockRelease
    <2>3. /\ u \in Range(s.waiting[l])
          /\ Range(Tail(s.waiting[l])) = Range(s.waiting[l]) \ {u}
      <3>1. s.waiting[l] \in Seq(Threads) /\ IsQueue(s.waiting[l])
        BY <1>1, Lists
      <3> QED BY <1>3, <3>1, TailQueue
    <2> HIDE DEF q, u, r
    <2>4. q \in VMStates
      BY <2>1 DEF Consistent
    <2>5. /\ r.waiting = q.waiting /\ r.locked = q.locked
          /\ r.owners = [s.owners EXCEPT ![l] = (@ \ {t}) \cup {u}]
      BY <2>1, <2>2, <2>4 DEF VMStates
    <2>6. \A k \in Locks :
            /\ r.waiting[k] = IF k = l THEN Tail(s.waiting[l]) ELSE s.waiting[k]
            /\ r.owners[k] = IF k = l THEN {u} ELSE s.owners[k]
      <3>1. s.waiting \in [Queues -> Seq(Threads)]
            /\ s.owners \in [Locks -> SUBSET Threads] /\ Locks \subseteq Queues
        BY <1>1, LocksAreQueues DEF VMStates
      <3>2. \A k \in Locks :
              r.waiting[k] = IF k = l THEN Tail(s.waiting[l]) ELSE s.waiting[k]
        BY <1>1, <2>1, <2>5, <3>1
      <3>3. \A k \in Locks : r.owners[k] = IF k = l THEN {u} ELSE s.owners[k]
        BY <1>2, <2>5, <3>1
      <3> QED BY <3>2, <3>3
    <2>7. OneOwner(r)
      BY <1>2, <2>1, <2>5, <2>6 DEF OneOwner
    <2> QED BY <1>2, <2>3, <2>6, <2>7 DEF Quits, Held, r
  <1>4. CASE s.waiting[l] = <<>>
    <2>1. /\ r.waiting = s.waiting
          /\ \A k \in Locks :
               /\ r.owners[k] = IF k = l THEN s.owners[l] \ {t} ELSE s.owners[k]
               /\ r.locked[k] = IF k = l THEN FALSE ELSE s.locked[k]
      BY <1>1, <1>4 DEF LockRelease, VMStates
    <2> HIDE DEF r
    <2>2. OneOwner(r)
      <3>1. r.owners[l] = {} /\ ~ r.locked[l]
        BY <1>2, <2>1
      <3>2. \A k \in Locks \ {l} : r.locked[k] = s.locked[k] /\ r.owners[k] = s.owners[k]
        BY <2>1
      <3> QED BY <3>1, <3>2 DEF OneOwner
    <2>3. Range(s.waiting[l]) = {}
      BY <1>4 DEF Range
    <2> QED BY <1>2, <2>1, <2>2, <2>3 DEF Quits, Held, r
  <1> QED BY <1>3, <1>4

LEMMA SameStays ==
  ASSUME NEW r, NEW s, OneOwner(s), r.locked = s.locked, SameTurns(r, s)
  PROVE  Stays(r, s)
  BY DEF Stays, SameTurns, OneOwner, Held

LEMMA EnqueueWaits ==
  ASSUME NEW s, Consistent(s), NEW t \in Threads, s.status[t] = "Running",
         NEW e \in Events
  PROVE  /\ Consistent(Enqueue(s, t, e, "Waiting"))
         /\ Enqueue(s, t, e, "Waiting").waiting
              = [s.waiting EXCEPT ![e] = Append(@, t)]
         /\ Enqueue(s, t, e, "Waiting").owners = s.owners
         /\ Enqueue(s, t, e, "Waiting").locked = s.locked
  <1>1. e \in Queues
    BY LocksAreQueues
  <1>2. "Waiting" = IF e \in Locks THEN "Blocked" ELSE "Waiting"
    BY ObjectsAssumption
  <1>3. "Waiting" \in {"Blocked", "Waiting"}
    OBVIOUS
  <1> QED BY <1>1, <1>2, <1>3, EnqueueConsistent

LEMMA WaitQuits ==
  ASSUME NEW s, Consistent(s), OneOwner(s), NEW t \in Threads,
         s.status[t] = "Running", NEW l \in Locks, NEW e \in Events,
         t \in s.owners[l]
  PROVE  Quits(EventWait(s, t, e, l), s, t, l)
  <1> DEFINE q == Enqueue(s, t, e, "Waiting")
  <1>1. e \in Queues /\ l # NoObj /\ s \in VMStates /\ l \in Queues
    BY LocksAreQueues, ObjectsAssumption DEF Consistent
  <1>2. /\ Consistent(q)
        /\ q.waiting = [s.waiting EXCEPT ![e] = Append(@, t)]
        /\ q.owners = s.owners /\ q.locked = s.locked
    BY EnqueueWaits
  <1>3. EventWait(s, t, e, l) = LockRelease(q, t, l)
    BY <1>1 DEF EventWait
  <1> HIDE DEF q
  <1>4. SameTurns(q, s)
    BY <1>1, <1>2, EventSameTurns
  <1>5. Stays(q, s)
    BY <1>2, <1>4, SameStays
  <1>6. t \notin Range(s.waiting[l])
    BY <1>1, Waiter
  <1>7. Quits(LockRelease(q, t, l), q, t, l)
    BY <1>2, <1>5, <1>6, ReleaseQuits DEF Stays
  <1>8. \A k \in Locks : /\ q.owners[k] = s.owners[k] /\ q.waiting[k] = s.waiting[k]
                         /\ Held(q, k) = Held(s, k)
    BY <1>5 DEF Stays, Held
  <1> QED BY <1>3, <1>7, <1>8 DEF Quits

LEMMA SignalStays ==
  ASSUME NEW s, Consistent(s), OneOwner(s), NEW e \in Events
  PROVE  Stays(EventSignal(s, e), s)
  <1>1. s \in VMStates /\ e \in Queues
    BY LocksAreQueues DEF Consistent
  <1>2. CASE s.waiting[e] # <<>>
    <2>1. /\ WakeFirst(s, e).waiting = [s.waiting EXCEPT ![e] = Tail(@)]
          /\ WakeFirst(s, e).owners = s.owners
          /\ WakeFirst(s, e).locked = s.locked
      BY <1>1, <1>2, WakeFirstConsistent
    <2>2. EventSignal(s, e) = WakeFirst(s, e)
      BY <1>2 DEF EventSignal
    <2>3. SameTurns(EventSignal(s, e), s)
      BY <1>1, <2>1, <2>2, EventSameTurns
    <2> QED BY <2>1, <2>2, <2>3, SameStays
  <1>3. CASE s.waiting[e] = <<>>
    BY <1>3 DEF EventSignal, Stays, Held
  <1> QED BY <1>2, <1>3

LEMMA PickStays ==
  ASSUME NEW s, Consistent(s), OneOwner(s)
  PROVE  Stays(PickThread(s), s)
  <1>1. s \in VMStates
    BY DEF Consistent
  <1>2. SameTurns(PickThread(s), s)
    BY <1>1, DriverSameTurns
  <1>3. PickThread(s).locked = s.locked
    BY <1>1 DEF PickThread, VMStates
  <1> QED BY <1>2, <1>3, SameStays

-----------------------------------------------------------------------------
(* The steps of a thread. *)

(* A step x once its thread has come to the place p. *)
LEMMA Placed ==
  ASSUME NEW x \in Steps, x # Idle, NEW p
  PROVE  LET y == [x EXCEPT !.at = p]
         IN /\ x.op \in {"grab", "release", "wait"} /\ x.on \in Locks
            /\ y.op = x.op /\ y.on = x.on /\ y.at = p
            /\ x.op = "grab" /\ p \in {"enter", "test", "sleep", "take", "again", "leave"}
                 => y \in Steps
            /\ x.op = "release" /\ p \in {"enter", "check", "clear", "signal", "leave"}
                 => y \in Steps
            /\ x.op = "wait"
                 /\ p \in {"enter", "check", "clear", "signal", "wait_event", "leave"}
                 => y \in Steps
            /\ x.op = "wait" => x.on = Semaphore
  <1>1. Semaphore \in Locks
    BY SyncAssumption
  <1> QED BY <1>1 DEF Steps, Idle

LEMMA IdleFacts ==
  /\ Idle \in Steps /\ Idle.op = "none" /\ Idle.on = NoObj /\ Idle.at = "done"
  /\ \A o \in Locks : ~ Inside(Idle, o)
  BY ObjectsAssumption DEF Idle, Steps, Inside

LEMMA StepAfter ==
  ASSUME step \in [Threads -> Steps], NEW t \in Threads, NEW st \in Steps,
         step' = [step EXCEPT ![t] = st]
  PROVE  /\ step' \in [Threads -> Steps]
         /\ step'[t] = st
         /\ \A u \in Threads \ {t} : step'[u] = step[u]
  OBVIOUS

LEMMA MovesTo ==
  ASSUME step \in [Threads -> Steps], NEW t \in Threads, NEW p, Moves(t, p)
  PROVE  step' = [step EXCEPT ![t] = [step[t] EXCEPT !.at = p]]
  BY DEF Moves

-----------------------------------------------------------------------------
(* The monitors. *)

(* The thread that executes waits for no spinlock, and owns the one of the *)
(* monitor that it is in.                                                  *)
LEMMA Runner ==
  ASSUME SyncInv, NEW t \in Threads, Executes(t)
  PROVE  /\ vm.status[t] = "Running" /\ Consistent(vm) /\ OneOwner(vm)
         /\ WaitedAreLocked(vm) /\ t # NoThread
         /\ \A o \in Locks : t \notin Range(vm.waiting[o])
         /\ \A o \in Locks : Inside(step[t], o) => t \in vm.owners[o]
         /\ Inside(step[t], Multilock) => deserted = NoThread
  <1>1. /\ vm.status[t] = "Running" /\ Consistent(vm) /\ LocksAgree(vm)
        /\ t # NoThread
    BY ExecutesRunning DEF SyncInv
  <1>2. \A o \in Locks : t \notin Range(vm.waiting[o])
    BY <1>1, Waiter, LocksAreQueues
  <1>3. \A o \in Locks : Inside(step[t], o) => t \in vm.owners[o]
    BY <1>2 DEF SyncInv, SpinInv, Held
  <1>4. Inside(step[t], Multilock) => deserted = NoThread
    BY <1>2, SyncAssumption DEF SyncInv, SpinInv
  <1> QED BY <1>1, <1>2, <1>3, <1>4 DEF SyncInv, SpinInv, LocksAgree

(* While it is in there, others are at most on the way in.                 *)
LEMMA Alone ==
  ASSUME SyncInv, NEW t \in Threads, Executes(t), NEW o \in Locks,
         Inside(step[t], o), NEW u \in Threads \ {t}, Inside(step[u], o)
  PROVE  step[u].at \in {"test", "check"}
  <1>1. t \in vm.owners[o] /\ OneOwner(vm)
    BY Runner
  <1>2. u \notin vm.owners[o]
    BY <1>1 DEF OneOwner
  <1>3. u \in Held(vm, o)
    BY DEF SyncInv, SpinInv
  <1> QED BY <1>2, <1>3 DEF SyncInv, SpinInv, Held

LEMMA SpinJoins ==
  ASSUME SyncInv, NEW t \in Threads, NEW o \in Locks, Joins(vm', vm, t, o),
         step[t].at = "enter", NEW st \in Steps, step' = [step EXCEPT ![t] = st],
         st.on = o, st.at \in {"test", "check"}, deserted' = deserted
  PROVE  SpinInv'
  <1>1. /\ step'[t] = st /\ \A u \in Threads \ {t} : step'[u] = step[u]
    BY StepAfter DEF SyncInv, ObjectTypes
  <1>2. \A k \in Locks : /\ Inside(st, k) <=> k = o
                         /\ ~ Inside(step[t], k)
    BY DEF Inside
  <1>3. ASSUME NEW k \in Locks, NEW u \in Threads
        PROVE  /\ u \in Held(vm', k) <=> Inside(step'[u], k) \/ Deserter(u, k)
               /\ u \in Range(vm'.waiting[k]) =>
                    Inside(step'[u], k) /\ step'[u].at \in {"test", "check"}
    <2>1. CASE u = t
      BY <1>1, <1>2, <2>1 DEF SyncInv, SpinInv, Joins
    <2>2. CASE u # t
      BY <1>1, <2>2 DEF SyncInv, SpinInv, Joins
    <2> QED BY <2>1, <2>2
  <1>4. ASSUME deserted # NoThread
        PROVE  /\ deserted \in vm'.owners[Multilock]
               /\ \A u \in Threads :
                    Inside(step'[u], Multilock) => u \in Range(vm'.waiting[Multilock])
    <2>1. Multilock \in Locks
      BY SyncAssumption
    <2>2. /\ deserted \in vm.owners[Multilock]
          /\ \A u \in Threads :
               Inside(step[u], Multilock) => u \in Range(vm.waiting[Multilock])
      BY <1>4 DEF SyncInv, SpinInv
    <2> QED BY <1>1, <1>2, <2>1, <2>2 DEF Joins
  <1> QED BY <1>3, <1>4 DEF SpinInv, Joins, Deserter

LEMMA SpinQuits ==
  ASSUME SyncInv, NEW t \in Threads, Executes(t), NEW o \in Locks,
         Quits(vm', vm, t, o), Inside(step[t], o),
         NEW st \in Steps, step' = [step EXCEPT ![t] = st],
         \A k \in Locks : ~ Inside(st, k), deserted' = deserted
  PROVE  SpinInv'
  <1>1. /\ step'[t] = st /\ \A u \in Threads \ {t} : step'[u] = step[u]
    BY StepAfter DEF SyncInv, ObjectTypes
  <1>2. \A k \in Locks : /\ Inside(step[t], k) => k = o
                         /\ t \notin Range(vm.waiting[k])
    BY Runner DEF Inside
  <1>3. o = Multilock => deserted = NoThread
    BY Runner
  <1>4. ASSUME NEW k \in Locks, NEW u \in Threads
        PROVE  /\ u \in Held(vm', k) <=> Inside(step'[u], k) \/ Deserter(u, k)
               /\ u \in Range(vm'.waiting[k]) =>
                    Inside(step'[u], k) /\ step'[u].at \in {"test", "check"}
    <2>1. CASE u = t
      <3>1. Deserter(t, o) => FALSE
        BY <1>3, ThreadsAssumption DEF Deserter
      <3> QED BY <1>1, <1>2, <2>1, <3>1 DEF SyncInv, SpinInv, Quits
    <2>2. CASE u # t
      BY <1>1, <2>2 DEF SyncInv, SpinInv, Quits
    <2> QED BY <2>1, <2>2
  <1>5. ASSUME deserted # NoThread
        PROVE  /\ deserted \in vm'.owners[Multilock]
               /\ \A u \in Threads :
                    Inside(step'[u], Multilock) => u \in Range(vm'.waiting[Multilock])
    <2>1. Multilock \in Locks /\ Multilock # o
      BY <1>3, <1>5, SyncAssumption
    <2>2. /\ deserted \in vm.owners[Multilock]
          /\ \A u \in Threads :
               Inside(step[u], Multilock) => u \in Range(vm.waiting[Multilock])
      BY <1>5 DEF SyncInv, SpinInv
    <2> QED BY <1>1, <2>1, <2>2 DEF Quits
  <1> QED BY <1>4, <1>5 DEF SpinInv, Quits, Deserter

LEMMA SpinStays ==
  ASSUME SyncInv, NEW t \in Threads, Executes(t), Stays(vm', vm),
         NEW st \in Steps, step' = [step EXCEPT ![t] = st],
         \A k \in Locks : Inside(st, k) <=> Inside(step[t], k), deserted' = deserted
  PROVE  SpinInv'
  <1>1. /\ step'[t] = st /\ \A u \in Threads \ {t} : step'[u] = step[u]
    BY StepAfter DEF SyncInv, ObjectTypes
  <1>2. \A k \in Locks : t \notin Range(vm.waiting[k])
    BY Runner
  <1>3. ASSUME NEW k \in Locks, NEW u \in Threads
        PROVE  /\ u \in Held(vm', k) <=> Inside(step'[u], k) \/ Deserter(u, k)
               /\ u \in Range(vm'.waiting[k]) =>
                    Inside(step'[u], k) /\ step'[u].at \in {"test", "check"}
    <2>1. Held(vm', k) = Held(vm, k) /\ vm'.waiting[k] = vm.waiting[k]
      BY DEF Stays, Held
    <2>2. CASE u = t
      BY <1>1, <1>2, <2>1, <2>2 DEF SyncInv, SpinInv
    <2>3. CASE u # t
      BY <1>1, <2>1, <2>3 DEF SyncInv, SpinInv
    <2> QED BY <2>2, <2>3
  <1>4. ASSUME deserted # NoThread
        PROVE  /\ deserted \in vm'.owners[Multilock]
               /\ \A u \in Threads :
                    Inside(step'[u], Multilock) => u \in Range(vm'.waiting[Multilock])
    <2>1. Multilock \in Locks
      BY SyncAssumption
    <2>2. /\ deserted \in vm.owners[Multilock]
          /\ \A u \in Threads :
               Inside(step[u], Multilock) => u \in Range(vm.waiting[Multilock])
      BY <1>4 DEF SyncInv, SpinInv
    <2> QED BY <1>1, <2>1, <2>2 DEF Stays
  <1> QED BY <1>3, <1>4 DEF SpinInv, Stays, Deserter

(* A thread finds that nobody holds the multilock, and deserts.            *)
LEMMA SpinDeserted ==
  ASSUME SyncInv, NEW t \in Threads, Executes(t), Inside(step[t], Multilock),
         vm' = vm, step' = [step EXCEPT ![t] = Idle], deserted' = t
  PROVE  SpinInv'
  <1>1. /\ step'[t] = Idle /\ \A u \in Threads \ {t} : step'[u] = step[u]
    BY StepAfter, IdleFacts DEF SyncInv, ObjectTypes
  <1>2. /\ deserted = NoThread /\ t # NoThread /\ OneOwner(vm) /\ Multilock \in Locks
        /\ t \in vm.owners[Multilock] /\ \A k \in Locks : t \notin Range(vm.waiting[k])
    BY Runner, SyncAssumption
  <1>3. \A k \in Locks, u \in Threads :
          /\ u \in Held(vm, k) <=> Inside(step[u], k)
          /\ u \in Range(vm.waiting[k]) =>
               Inside(step[u], k) /\ step[u].at \in {"test", "check"}
    BY <1>2, ThreadsAssumption DEF SyncInv, SpinInv, Deserter
  <1>4. ASSUME NEW k \in Locks, NEW u \in Threads
        PROVE  /\ u \in Held(vm, k) <=> Inside(step'[u], k) \/ (k = Multilock /\ t = u)
               /\ u \in Range(vm.waiting[k]) =>
                    Inside(step'[u], k) /\ step'[u].at \in {"test", "check"}
    <2>1. CASE u = t
      <3>1. u \in Held(vm, k) <=> k = Multilock
        BY <1>2, <1>3, <2>1 DEF Inside
      <3> QED BY <1>1, <1>2, <2>1, <3>1, IdleFacts
    <2>2. CASE u # t
      BY <1>1, <1>3, <2>2
    <2> QED BY <2>1, <2>2
  <1>5. ASSUME NEW u \in Threads, Inside(step'[u], Multilock)
        PROVE  u \in Range(vm.waiting[Multilock])
    <2>1. u # t
      BY <1>1, <1>2, <1>5, IdleFacts
    <2>2. u \in Held(vm, Multilock)
      BY <1>1, <1>2, <1>3, <1>5, <2>1
    <2>3. u \notin vm.owners[Multilock]
      BY <1>2, <2>1 DEF OneOwner
    <2> QED BY <2>2, <2>3 DEF Held
  <1> QED BY <1>2, <1>4, <1>5 DEF SpinInv, Deserter

(* A step of t that changes no object, though it may desert the multilock. *)
LEMMA ObjectsStay ==
  ASSUME SyncInv, NEW t \in Threads, NEW st \in Steps,
         step' = [step EXCEPT ![t] = st], StepRight(t, st),
         UNCHANGED <<lockedQ, locker, count, taker>>,
         deserted' = deserted \/ (deserted' = t /\ locker = NoThread)
  PROVE  ObjectTypes' /\ ObjectInv'
  <1>1. /\ step' \in [Threads -> Steps] /\ step'[t] = st
        /\ \A u \in Threads \ {t} : step'[u] = step[u]
    BY StepAfter DEF SyncInv, ObjectTypes
  <1>2. lockedQ' = lockedQ /\ taker' = taker /\ locker' = locker /\ count' = count
    OBVIOUS
  <1>3. ASSUME NEW u \in Threads PROVE StepRight(u, step[u])'
    <2>1. CASE u = t
      BY <1>1, <1>2, <2>1 DEF StepRight
    <2>2. CASE u # t
      <3>1. StepRight(u, step[u])
        BY DEF SyncInv, ObjectInv
      <3> QED BY <1>1, <1>2, <2>2, <3>1 DEF StepRight
    <2> QED BY <2>1, <2>2
  <1>4. ObjectTypes'
    BY <1>1, <1>2 DEF SyncInv, ObjectTypes
  <1>5. ObjectInv'
    BY <1>2, <1>3 DEF SyncInv, ObjectInv
  <1> QED BY <1>4, <1>5

(* A step of t that leaves the thread tables alone, and the objects too.   *)
LEMMA Quiet ==
  ASSUME SyncInv, UNCHANGED <<vm, pause>>
  PROVE  IInv' /\ Stays(vm', vm)
  <1>1. IInv'
    BY DEF SyncInv, IInv, CurrentIsRunning, AtPrompt
  <1> QED BY <1>1 DEF SyncInv, SpinInv, Stays

LEMMA QuietStep ==
  ASSUME SyncInv, NEW t \in Threads, Executes(t), UNCHANGED <<vm, pause, objectVars>>,
         NEW st \in Steps, step' = [step EXCEPT ![t] = st], StepRight(t, st),
         \A k \in Locks : Inside(st, k) <=> Inside(step[t], k)
  PROVE  SyncInv'
  <1>1. IInv' /\ Stays(vm', vm)
    BY Quiet
  <1>2. UNCHANGED <<lockedQ, locker, count, taker>> /\ deserted' = deserted
    BY DEF objectVars
  <1>3. SpinInv'
    BY <1>1, <1>2, SpinStays
  <1>4. ObjectTypes' /\ ObjectInv'
    BY <1>2, ObjectsStay
  <1> QED BY <1>1, <1>3, <1>4 DEF SyncInv

LEMMA BeginInv ==
  ASSUME SyncInv, NEW t \in Threads, NEW op \in {"grab", "release", "wait"},
         NEW o \in Locks, Begin(t, op, o), op = "wait" => o = Semaphore
  PROVE  SyncInv'
  <1> DEFINE st == [op |-> op, on |-> o, at |-> "enter"]
  <1>1. st \in Steps
    BY DEF Steps
  <1>2. /\ Executes(t) /\ UNCHANGED <<vm, pause, objectVars>>
        /\ step[t] = Idle /\ step' = [step EXCEPT ![t] = st]
    BY DEF Begin
  <1>3. st.op = op /\ st.on = o /\ st.at = "enter"
    OBVIOUS
  <1> HIDE DEF st
  <1>4. StepRight(t, st)
    BY <1>3 DEF StepRight
  <1>5. \A k \in Locks : Inside(st, k) <=> Inside(step[t], k)
    BY <1>2, <1>3, IdleFacts DEF Inside
  <1> QED BY <1>1, <1>2, <1>4, <1>5, QuietStep

LEMMA CallInv ==
  ASSUME SyncInv, NEW t \in Threads,
         CallGrab(t) \/ CallRelease(t) \/ CallWait(t)
  PROVE  SyncInv'
  <1>1. Semaphore \in Locks /\ Multilock \in Locks /\ Semaphore # Multilock
    BY SyncAssumption
  <1>2. CASE CallGrab(t)
    <2>1. PICK o \in Locks : Begin(t, "grab", o)
      BY <1>1, <1>2 DEF CallGrab
    <2> QED BY <2>1, BeginInv
  <1>3. CASE CallRelease(t)
    <2>1. PICK o \in Locks : Begin(t, "release", o)
      BY <1>1, <1>3 DEF CallRelease
    <2> QED BY <2>1, BeginInv
  <1>4. CASE CallWait(t)
    <2>1. Begin(t, "wait", Semaphore)
      BY <1>4 DEF CallWait
    <2> QED BY <1>1, <2>1, BeginInv
  <1> QED BY <1>2, <1>3, <1>4

LEMMA EnterInv ==
  ASSUME SyncInv, NEW t \in Threads, Enter(t)
  PROVE  SyncInv'
  <1> DEFINE o == step[t].on
             p == IF step[t].op = "grab" THEN "test" ELSE "check"
             st == [step[t] EXCEPT !.at = p]
  <1>1. /\ step[t].at = "enter" /\ GrabLock(t, o) /\ Executes(t)
        /\ vm' = LockGrab(vm, t, o) /\ Moves(t, p)
        /\ UNCHANGED <<lockedQ, locker, count, taker>> /\ deserted' = deserted
    BY DEF Enter, GrabLock, objectVars
  <1>2. step[t] \in Steps /\ step[t] # Idle /\ step \in [Threads -> Steps]
    BY <1>1, IdleFacts DEF SyncInv, ObjectTypes
  <1>3. step' = [step EXCEPT ![t] = st]
    BY <1>1, <1>2, MovesTo
  <1>4. /\ st \in Steps /\ o \in Locks /\ st.op = step[t].op /\ st.on = o
        /\ st.at = p /\ p \in {"test", "check"}
        /\ p = "check" => st.op # "grab"
    BY <1>2, Placed
  <1> HIDE DEF st, o, p
  <1>5. IInv'
    BY <1>1, <1>4, GrabLockIInv DEF SyncInv
  <1>6. Joins(vm', vm, t, o)
    BY <1>1, <1>4, Runner, GrabJoins
  <1>7. SpinInv'
    BY <1>1, <1>3, <1>4, <1>6, SpinJoins DEF o
  <1>8. StepRight(t, st)
    BY <1>4 DEF StepRight
  <1>9. ObjectTypes' /\ ObjectInv'
    BY <1>1, <1>3, <1>4, <1>8, ObjectsStay
  <1> QED BY <1>5, <1>7, <1>9 DEF SyncInv

(* A thread that is past the entrance has a step of an operation.          *)
LEMMA InMonitor ==
  ASSUME SyncInv, NEW t \in Threads, step[t].at \notin {"done", "enter"}
  PROVE  /\ step \in [Threads -> Steps] /\ step[t] \in Steps /\ step[t] # Idle
         /\ step[t].on \in Locks /\ Inside(step[t], step[t].on)
         /\ step[t].op \in {"grab", "release", "wait"}
         /\ StepRight(t, step[t])
  <1>1. step \in [Threads -> Steps] /\ step[t] \in Steps /\ step[t] # Idle
    BY IdleFacts DEF SyncInv, ObjectTypes
  <1>2. StepRight(t, step[t])
    BY DEF SyncInv, ObjectInv
  <1> QED BY <1>1, <1>2, Placed DEF Inside

LEMMA LeaveInv ==
  ASSUME SyncInv, NEW t \in Threads, Leave(t)
  PROVE  SyncInv'
  <1> DEFINE o == step[t].on
  <1>1. /\ step[t].at = "leave" /\ ReleaseLock(t, o) /\ Executes(t)
        /\ vm' = LockRelease(vm, t, o) /\ step' = [step EXCEPT ![t] = Idle]
        /\ UNCHANGED <<lockedQ, locker, count, taker>> /\ deserted' = deserted
    BY DEF Leave, ReleaseLock, Finishes, objectVars
  <1>2. o \in Locks /\ Inside(step[t], o)
    BY <1>1, InMonitor
  <1> HIDE DEF o
  <1>3. IInv'
    BY <1>1, <1>2, ReleaseLockIInv DEF SyncInv
  <1>4. Quits(vm', vm, t, o)
    BY <1>1, <1>2, Runner, ReleaseQuits
  <1>5. SpinInv'
    BY <1>1, <1>4, <1>2, SpinQuits, IdleFacts
  <1>6. StepRight(t, Idle)
    BY IdleFacts DEF StepRight
  <1>7. ObjectTypes' /\ ObjectInv'
    BY <1>1, <1>6, ObjectsStay, IdleFacts
  <1> QED BY <1>3, <1>5, <1>7 DEF SyncInv

LEMMA SleepInv ==
  ASSUME SyncInv, NEW t \in Threads, Sleep(t)
  PROVE  SyncInv'
  <1> DEFINE o == step[t].on
             st == [step[t] EXCEPT !.at = "enter"]
  <1>1. /\ step[t].at = "sleep" /\ step[t].op = "grab"
        /\ WaitForEvent(t, Available(o), o) /\ Executes(t)
        /\ vm' = EventWait(vm, t, Available(o), o) /\ Moves(t, "enter")
        /\ UNCHANGED <<lockedQ, locker, count, taker>> /\ deserted' = deserted
    BY DEF Sleep, WaitForEvent, At, objectVars
  <1>2. /\ o \in Locks /\ Inside(step[t], o) /\ step[t] \in Steps /\ step[t] # Idle
        /\ step \in [Threads -> Steps]
    BY <1>1, InMonitor
  <1>3. step' = [step EXCEPT ![t] = st]
    BY <1>1, <1>2, MovesTo
  <1>4. st \in Steps /\ st.op = "grab" /\ st.on = o /\ st.at = "enter"
    BY <1>1, <1>2, Placed
  <1>5. Available(o) \in Events
    BY <1>2, SyncAssumption
  <1> HIDE DEF o, st
  <1>6. IInv'
    BY <1>1, <1>2, <1>5, WaitForEventIInv DEF SyncInv
  <1>7. Quits(vm', vm, t, o)
    BY <1>1, <1>2, <1>5, Runner, WaitQuits
  <1>8. \A k \in Locks : ~ Inside(st, k)
    BY <1>4 DEF Inside
  <1>9. SpinInv'
    BY <1>1, <1>3, <1>4, <1>7, <1>8, <1>2, SpinQuits
  <1>10. StepRight(t, st)
    BY <1>4 DEF StepRight
  <1>11. ObjectTypes' /\ ObjectInv'
    BY <1>1, <1>3, <1>4, <1>10, ObjectsStay
  <1> QED BY <1>6, <1>9, <1>11 DEF SyncInv

LEMMA WaitUserInv ==
  ASSUME SyncInv, NEW t \in Threads, WaitUser(t)
  PROVE  SyncInv'
  <1> DEFINE o == step[t].on
  <1>1. /\ step[t].at = "wait_event" /\ step[t].op = "wait"
        /\ WaitForEvent(t, UserEvent, Semaphore) /\ Executes(t)
        /\ vm' = EventWait(vm, t, UserEvent, Semaphore)
        /\ step' = [step EXCEPT ![t] = Idle]
        /\ UNCHANGED <<lockedQ, locker, count, taker>> /\ deserted' = deserted
    BY DEF WaitUser, WaitForEvent, At, Finishes, objectVars
  <1>2. o \in Locks /\ Inside(step[t], o) /\ o = Semaphore
    BY <1>1, InMonitor, Placed
  <1>3. UserEvent \in Events
    BY SyncAssumption
  <1> HIDE DEF o
  <1>4. IInv'
    BY <1>1, <1>2, <1>3, WaitForEventIInv DEF SyncInv
  <1>5. Quits(vm', vm, t, o)
    BY <1>1, <1>2, <1>3, Runner, WaitQuits
  <1>6. SpinInv'
    BY <1>1, <1>5, <1>2, SpinQuits, IdleFacts
  <1>7. StepRight(t, Idle)
    BY IdleFacts DEF StepRight
  <1>8. ObjectTypes' /\ ObjectInv'
    BY <1>1, <1>7, ObjectsStay, IdleFacts
  <1> QED BY <1>4, <1>6, <1>8 DEF SyncInv

(* Test, and Check: the thread looks at the object.                        *)
LEMMA LookInv ==
  ASSUME SyncInv, NEW t \in Threads, Executes(t), UNCHANGED <<vm, pause, objectVars>>,
         step[t].at \notin {"done", "enter"},
         NEW p \in {"sleep", "take", "again", "clear", "leave"}, Moves(t, p),
         step[t].op = "grab" => p # "clear",
         step[t].op # "grab" => p \in {"clear", "leave"},
         p = "take" => IF step[t].on = Semaphore THEN ~ lockedQ ELSE locker = NoThread,
         p = "again" => step[t].on = Multilock /\ locker = t,
         p = "clear" => IF step[t].on = Semaphore THEN lockedQ ELSE locker = t
  PROVE  SyncInv'
  <1> DEFINE st == [step[t] EXCEPT !.at = p]
  <1>1. /\ step \in [Threads -> Steps] /\ step[t] \in Steps /\ step[t] # Idle
        /\ Inside(step[t], step[t].on) /\ StepRight(t, step[t])
    BY InMonitor
  <1>2. step' = [step EXCEPT ![t] = st]
    BY <1>1, MovesTo
  <1>3. st \in Steps /\ st.op = step[t].op /\ st.on = step[t].on /\ st.at = p
    BY <1>1, Placed
  <1> HIDE DEF st
  <1>4. StepRight(t, st)
    BY <1>3 DEF StepRight
  <1>5. \A k \in Locks : Inside(st, k) <=> Inside(step[t], k)
    BY <1>3 DEF Inside
  <1> QED BY <1>2, <1>3, <1>4, <1>5, QuietStep

LEMMA TestInv ==
  ASSUME SyncInv, NEW t \in Threads, Test(t)
  PROVE  SyncInv'
  <1> DEFINE p == IF step[t].on = Multilock /\ locker = t THEN "again"
                  ELSE IF Takes(step[t].on) THEN "sleep" ELSE "take"
  <1>1. /\ step[t].op = "grab" /\ step[t].at = "test" /\ Executes(t)
        /\ UNCHANGED <<vm, pause, objectVars>> /\ Moves(t, p)
    BY DEF Test, At
  <1>2. /\ p \in {"sleep", "take", "again"}
        /\ p = "take" => IF step[t].on = Semaphore THEN ~ lockedQ ELSE locker = NoThread
        /\ p = "again" => step[t].on = Multilock /\ locker = t
    BY DEF Takes
  <1> HIDE DEF p
  <1> QED BY <1>1, <1>2, LookInv

LEMMA DesertInv ==
  ASSUME SyncInv, NEW t \in Threads, Executes(t), step[t].at = "check",
         step[t].on = Multilock, locker = NoThread, deserted' = t, Finishes(t),
         UNCHANGED <<vm, pause, lockedQ, locker, count, taker>>
  PROVE  SyncInv'
  <1>1. step' = [step EXCEPT ![t] = Idle] /\ Inside(step[t], Multilock)
    BY DEF Finishes, Inside
  <1>2. IInv'
    BY Quiet
  <1>3. SpinInv'
    BY <1>1, SpinDeserted
  <1>4. StepRight(t, Idle)
    BY IdleFacts DEF StepRight
  <1>5. ObjectTypes' /\ ObjectInv'
    BY <1>1, <1>4, ObjectsStay, IdleFacts
  <1> QED BY <1>2, <1>3, <1>5 DEF SyncInv

LEMMA CheckInv ==
  ASSUME SyncInv, NEW t \in Threads, Check(t)
  PROVE  SyncInv'
  <1>1. /\ step[t].at = "check" /\ Executes(t)
        /\ UNCHANGED <<vm, pause, lockedQ, locker, count, taker>>
    BY DEF Check
  <1>2. /\ step[t] \in Steps /\ step[t] # Idle
        /\ step[t].on \in Locks /\ step[t].op \in {"grab", "release", "wait"}
    BY <1>1, InMonitor
  <1>3. step[t].op # "grab"
    BY <1>1, <1>2 DEF Steps, Idle
  <1>4. CASE step[t].on = Multilock /\ locker = NoThread
    BY <1>1, <1>4, DesertInv DEF Check
  <1>5. CASE ~ (step[t].on = Multilock /\ locker = NoThread)
    <2> DEFINE p == IF step[t].on = Semaphore
                      THEN IF lockedQ THEN "clear" ELSE "leave"
                      ELSE IF locker = t THEN "clear" ELSE "leave"
    <2>1. Moves(t, p) /\ UNCHANGED objectVars
      BY <1>1, <1>5 DEF Check, objectVars
    <2>2. /\ p \in {"clear", "leave"}
          /\ p = "clear" => IF step[t].on = Semaphore THEN lockedQ ELSE locker = t
      OBVIOUS
    <2> HIDE DEF p
    <2> QED BY <1>1, <1>3, <2>1, <2>2, LookInv
  <1> QED BY <1>4, <1>5

(* The objects change: what the other threads in the monitor, which have   *)
(* looked at nothing yet, take for granted still holds.                    *)
LEMMA OthersRight ==
  ASSUME SyncInv, NEW t \in Threads, Executes(t), NEW o \in Locks,
         Inside(step[t], o), NEW u \in Threads \ {t},
         o # Semaphore => lockedQ' = lockedQ,
         o # Multilock => locker' = locker,
         locker # NoThread => locker = t \/ locker' = locker
  PROVE  StepRight(u, step[u])'  \/ step'[u] # step[u]
  <1> SUFFICES ASSUME step'[u] = step[u] PROVE StepRight(u, step[u])'
    OBVIOUS
  <1>1. StepRight(u, step[u]) /\ u # NoThread /\ locker \in Threads \cup {NoThread}
    BY ThreadsAssumption DEF SyncInv, ObjectInv, ObjectTypes
  <1>2. Semaphore \in Locks /\ Multilock \in Locks /\ Semaphore # Multilock
        /\ Locks = {Semaphore, Multilock}
    BY SyncAssumption
  <1>3. Inside(step[u], o) => step[u].at \in {"test", "check"}
    BY Alone
  <1>4. locker = u => locker' = u
    BY <1>1
  <1>5. step[u] \in Steps /\ (step[u] # Idle => step[u].on \in Locks)
    BY Placed DEF SyncInv, ObjectTypes
  <1>6. CASE step[u].at \in {"take", "again", "clear"}
    <2>1. step[u] # Idle /\ step[u].on \in Locks /\ step[u].on # o
      BY <1>3, <1>5, <1>6, IdleFacts DEF Inside
    <2>2. \/ step[u].on = Semaphore /\ lockedQ' = lockedQ
          \/ step[u].on = Multilock /\ locker' = locker
      BY <1>2, <2>1
    <2> QED BY <1>1, <1>2, <1>4, <1>6, <2>2 DEF StepRight
  <1>7. CASE step[u].at \notin {"take", "again", "clear"}
    BY <1>1, <1>4, <1>7 DEF StepRight
  <1> QED BY <1>6, <1>7

(* A step of t in the monitor of o that changes o, to the place p.         *)
LEMMA ChangeInv ==
  ASSUME SyncInv, NEW t \in Threads, Executes(t), UNCHANGED <<vm, pause>>,
         NEW o \in Locks, step[t].on = o, step[t].at \in {"take", "again", "clear"},
         o # Semaphore => lockedQ' = lockedQ /\ taker' = taker,
         o # Multilock => locker' = locker /\ count' = count,
         locker # NoThread => locker = t \/ locker' = locker,
         lockedQ' \in BOOLEAN, taker' \in Threads \cup {NoThread},
         locker' \in Threads \cup {NoThread}, count' \in Nat,
         lockedQ' <=> taker' # NoThread, locker' = NoThread <=> count' = 0,
         NEW p \in {"leave", "signal"}, Moves(t, p),
         step[t].op = "grab" => p = "leave", deserted' = deserted
  PROVE  SyncInv'
  <1> DEFINE st == [step[t] EXCEPT !.at = p]
  <1>1. /\ step \in [Threads -> Steps] /\ step[t] \in Steps /\ step[t] # Idle
        /\ Inside(step[t], o)
    BY InMonitor
  <1>2. step' = [step EXCEPT ![t] = st]
    BY <1>1, MovesTo
  <1>3. /\ st \in Steps /\ st.op = step[t].op /\ st.on = o /\ st.at = p
        /\ step[t].op \in {"grab", "release", "wait"}
    BY <1>1, Placed
  <1> HIDE DEF st
  <1>4. /\ step' \in [Threads -> Steps] /\ step'[t] = st
        /\ \A u \in Threads \ {t} : step'[u] = step[u]
    BY <1>1, <1>2, <1>3, StepAfter
  <1>5. StepRight(t, step[t])'
    BY <1>3, <1>4 DEF StepRight
  <1>6. ASSUME NEW u \in Threads \ {t} PROVE StepRight(u, step[u])'
    BY <1>1, <1>4, OthersRight
  <1>7. \A u \in Threads : StepRight(u, step[u])'
    BY <1>5, <1>6
  <1>8. ObjectTypes' /\ ObjectInv'
    <2>1. deserted # NoThread => locker' = NoThread
      BY <1>1, Runner DEF SyncInv, ObjectInv
    <2>2. deserted' \in Threads \cup {NoThread}
      BY DEF SyncInv, ObjectTypes
    <2> QED BY <1>4, <1>7, <2>1, <2>2 DEF ObjectTypes, ObjectInv
  <1>9. IInv' /\ Stays(vm', vm)
    BY Quiet
  <1>10. \A k \in Locks : Inside(st, k) <=> Inside(step[t], k)
    BY <1>3 DEF Inside
  <1>11. SpinInv'
    BY <1>2, <1>3, <1>9, <1>10, SpinStays
  <1> QED BY <1>8, <1>9, <1>11 DEF SyncInv

(* What Take, Again and Clear find and leave of the objects.               *)
LEMMA TakeInv ==
  ASSUME SyncInv, NEW t \in Threads, Take(t)
  PROVE  SyncInv'
  <1>1. /\ step[t].op = "grab" /\ step[t].at = "take" /\ Executes(t)
        /\ UNCHANGED <<vm, pause, deserted>> /\ Moves(t, "leave")
        /\ IF step[t].on = Semaphore
             THEN lockedQ' = TRUE /\ taker' = t /\ UNCHANGED <<locker, count>>
             ELSE locker' = t /\ count' = 1 /\ UNCHANGED <<lockedQ, taker>>
    BY DEF Take, At
  <1>2. StepRight(t, step[t]) /\ step[t].on \in Locks
    BY <1>1, InMonitor
  <1>3. ObjectTypes /\ ObjectInv /\ t # NoThread
    BY ThreadsAssumption DEF SyncInv
  <1>4. step[t].on \in {Semaphore, Multilock} /\ Semaphore # Multilock
    BY <1>2, SyncAssumption
  <1>5. CASE step[t].on = Semaphore
    BY <1>1, <1>2, <1>3, <1>4, <1>5, ChangeInv DEF ObjectTypes, ObjectInv
  <1>6. CASE step[t].on = Multilock
    <2>1. locker = NoThread
      BY <1>1, <1>2, <1>4, <1>6 DEF StepRight
    <2> QED BY <1>1, <1>2, <1>3, <1>4, <1>6, <2>1, ChangeInv DEF ObjectTypes, ObjectInv
  <1> QED BY <1>4, <1>5, <1>6

LEMMA AgainInv ==
  ASSUME SyncInv, NEW t \in Threads, Again(t)
  PROVE  SyncInv'
  <1>1. /\ step[t].op = "grab" /\ step[t].at = "again" /\ Executes(t)
        /\ UNCHANGED <<vm, pause, lockedQ, locker, taker, deserted>> /\ Moves(t, "leave")
        /\ count' = count + 1
    BY DEF Again, At
  <1>2. StepRight(t, step[t]) /\ step[t].on \in Locks
    BY <1>1, InMonitor
  <1>3. ObjectTypes /\ ObjectInv /\ t # NoThread
    BY ThreadsAssumption DEF SyncInv
  <1>4. step[t].on = Multilock /\ locker = t /\ Semaphore # Multilock
    BY <1>1, <1>2, SyncAssumption DEF StepRight
  <1>5. count \in Nat /\ count' \in Nat /\ count' # 0
    BY <1>1, <1>3 DEF ObjectTypes
  <1> QED BY <1>1, <1>2, <1>3, <1>4, <1>5, ChangeInv DEF ObjectTypes, ObjectInv

LEMMA ClearInv ==
  ASSUME SyncInv, NEW t \in Threads, Clear(t)
  PROVE  SyncInv'
  <1>1. /\ step[t].at = "clear" /\ Executes(t) /\ UNCHANGED <<vm, pause, deserted>>
    BY DEF Clear
  <1>2. /\ StepRight(t, step[t]) /\ step[t].on \in Locks
        /\ step[t] \in Steps /\ step[t] # Idle
    BY <1>1, InMonitor
  <1>3. ObjectTypes /\ ObjectInv /\ t # NoThread
    BY ThreadsAssumption DEF SyncInv
  <1>4. step[t].on \in {Semaphore, Multilock} /\ Semaphore # Multilock
    BY <1>2, SyncAssumption
  <1>5. step[t].op # "grab"
    BY <1>1, <1>2 DEF Steps, Idle
  <1>6. CASE step[t].on = Semaphore
    <2>1. /\ lockedQ' = FALSE /\ taker' = NoThread /\ locker' = locker
          /\ count' = count /\ Moves(t, "signal")
      BY <1>6 DEF Clear
    <2> QED BY <1>1, <1>2, <1>3, <1>4, <1>5, <1>6, <2>1, ChangeInv
            DEF ObjectTypes, ObjectInv
  <1>7. CASE step[t].on = Multilock
    <2> DEFINE p == IF count = 1 THEN "signal" ELSE "leave"
    <2>1. /\ count' = count - 1
          /\ locker' = IF count = 1 THEN NoThread ELSE locker
          /\ Moves(t, p) /\ lockedQ' = lockedQ /\ taker' = taker
      BY <1>4, <1>7 DEF Clear
    <2>2. locker = t
      BY <1>1, <1>2, <1>4, <1>7 DEF StepRight
    <2>3. /\ count \in Nat /\ count # 0 /\ count' \in Nat
          /\ count' = 0 <=> count = 1
      BY <1>3, <2>1, <2>2 DEF ObjectTypes, ObjectInv
    <2>4. p \in {"leave", "signal"}
      OBVIOUS
    <2>5. locker' \in Threads \cup {NoThread} /\ (locker' = NoThread <=> count' = 0)
      BY <1>3, <2>1, <2>2, <2>3
    <2> HIDE DEF p
    <2> QED BY <1>1, <1>2, <1>3, <1>4, <1>5, <1>7, <2>1, <2>2, <2>3, <2>4, <2>5,
               ChangeInv DEF ObjectTypes, ObjectInv
  <1> QED BY <1>4, <1>6, <1>7

LEMMA SignalInv ==
  ASSUME SyncInv, NEW t \in Threads, Signal(t)
  PROVE  SyncInv'
  <1> DEFINE o == step[t].on
             p == IF step[t].op = "wait" THEN "wait_event" ELSE "leave"
             st == [step[t] EXCEPT !.at = p]
  <1>1. /\ step[t].at = "signal" /\ SignalEvent(t, Available(o)) /\ Executes(t)
        /\ vm' = EventSignal(vm, Available(o)) /\ Moves(t, p)
        /\ UNCHANGED <<lockedQ, locker, count, taker>> /\ deserted' = deserted
    BY DEF Signal, SignalEvent, objectVars
  <1>2. /\ step \in [Threads -> Steps] /\ step[t] \in Steps /\ step[t] # Idle
        /\ o \in Locks /\ step[t].op \in {"grab", "release", "wait"}
    BY <1>1, InMonitor
  <1>3. step' = [step EXCEPT ![t] = st]
    BY <1>1, <1>2, MovesTo
  <1>4. st \in Steps /\ st.op = step[t].op /\ st.on = o /\ st.at = p
    BY <1>2, Placed
  <1>5. Available(o) \in Events
    BY <1>2, SyncAssumption
  <1>6. p \in {"wait_event", "leave"}
    OBVIOUS
  <1> HIDE DEF st, p
  <1>7. IInv'
    BY <1>1, <1>5, SignalEventIInv DEF SyncInv
  <1>8. Stays(vm', vm)
    BY <1>1, <1>5, Runner, SignalStays
  <1>9. \A k \in Locks : Inside(st, k) <=> Inside(step[t], k)
    BY <1>1, <1>4, <1>6 DEF Inside
  <1>10. SpinInv'
    BY <1>1, <1>3, <1>4, <1>8, <1>9, SpinStays
  <1>11. StepRight(t, st)
    BY <1>4, <1>6 DEF StepRight
  <1>12. ObjectTypes' /\ ObjectInv'
    BY <1>1, <1>3, <1>4, <1>11, ObjectsStay
  <1> QED BY <1>7, <1>10, <1>12 DEF SyncInv

(* The tables change, and nothing else does. *)
LEMMA TablesInv ==
  ASSUME SyncInv, IInv', Stays(vm', vm), UNCHANGED <<objectVars, step>>
  PROVE  SyncInv'
  <1>1. lockedQ' = lockedQ /\ taker' = taker /\ locker' = locker /\ count' = count
        /\ step' = step /\ deserted' = deserted
    BY DEF objectVars
  <1>2. ObjectTypes' /\ ObjectInv'
    BY <1>1 DEF SyncInv, ObjectTypes, ObjectInv, StepRight
  <1>3. SpinInv'
    <2>1. Multilock \in Locks /\ \A k \in Locks : Held(vm', k) = Held(vm, k)
      BY SyncAssumption DEF Stays, Held
    <2> QED BY <1>1, <2>1 DEF SyncInv, SpinInv, Stays, Deserter
  <1> QED BY <1>2, <1>3 DEF SyncInv

LEMMA CallSignalInv ==
  ASSUME SyncInv, NEW t \in Threads, CallSignal(t)
  PROVE  SyncInv'
  <1>1. /\ SignalEvent(t, UserEvent) /\ Executes(t) /\ UserEvent \in Events
        /\ vm' = EventSignal(vm, UserEvent) /\ UNCHANGED <<objectVars, step>>
    BY SyncAssumption DEF CallSignal, SignalEvent
  <1>2. IInv'
    BY <1>1, SignalEventIInv DEF SyncInv
  <1>3. Stays(vm', vm)
    BY <1>1, Runner, SignalStays
  <1> QED BY <1>1, <1>2, <1>3, TablesInv

LEMMA SwitchInv ==
  ASSUME SyncInv, SwitchThread
  PROVE  SyncInv'
  <1>1. PickNext /\ UNCHANGED <<objectVars, step>> /\ vm' = PickThread(vm)
    BY DEF SwitchThread, PickNext
  <1>2. IInv'
    BY <1>1, PickNextIInv DEF SyncInv
  <1>3. Consistent(vm) /\ OneOwner(vm)
    BY DEF SyncInv, IInv, SpinInv
  <1>4. Stays(vm', vm)
    BY <1>1, <1>3, PickStays
  <1> QED BY <1>1, <1>2, <1>4, TablesInv

-----------------------------------------------------------------------------
(* The state in which all threads run and nothing is locked. *)
LEMMA InitSyncInv == SyncInit => SyncInv
  <1> SUFFICES ASSUME SyncInit PROVE SyncInv
    OBVIOUS
  <1>1. PICK ring \in Rings :
          vm = [EmptyVM EXCEPT !.status = [t \in Threads |-> "Running"],
                               !.runnable = ring]
    BY DEF SyncInit
  <1>2. Cardinality(Threads) \in Nat
    BY SyncAssumption, FS_CardinalityType
  <1>3. ring \in Seq(Threads) /\ Range(ring) = Threads
    <2>1. /\ ring \in [1..Cardinality(Threads) -> Threads]
          /\ Range(ring) = Threads
      BY DEF Rings
    <2> QED BY <1>2, <2>1
  <1>4. IsQueue(ring)
    <2>1. \A i, j \in DOMAIN ring : i < j => ring[i] < ring[j]
      BY DEF Rings
    <2>2. /\ DOMAIN ring = 1..Len(ring) /\ Len(ring) \in Nat
          /\ \A i \in DOMAIN ring : i \in Nat /\ ring[i] \in Nat
      <3>1. DOMAIN ring = 1..Len(ring) /\ Len(ring) \in Nat
        BY <1>3
      <3>2. ASSUME NEW i \in DOMAIN ring PROVE i \in Nat /\ ring[i] \in Nat
        <4>1. ring[i] \in Nat
          <5>1. ring[i] \in Threads
            BY <1>3, <3>1, <3>2
          <5> QED BY <5>1, ThreadsAssumption
        <4>2. i \in 1..Len(ring)
          BY <3>1, <3>2
        <4>3. i \in Nat
          <5> DEFINE n == Len(ring)
          <5>1. i \in 1..n /\ n \in Nat
            BY <3>1, <4>2
          <5> HIDE DEF n
          <5> QED BY <5>1
        <4> QED BY <4>1, <4>3
      <3> QED BY <3>1, <3>2
    <2>3. \A i, j \in DOMAIN ring : ring[i] = ring[j] => i = j
      BY <2>1, <2>2
    <2> QED BY <2>3 DEF IsQueue, IsInjective
  <1>5. /\ vm.status = [t \in Threads |-> "Running"]
        /\ vm.suspendCount = [t \in Threads |-> 0]
        /\ vm.datum = [t \in Threads |-> NoObj]
        /\ vm.runnable = ring /\ vm.current = NoThread
        /\ vm.locked = [l \in Locks |-> FALSE]
        /\ vm.waiting = [o \in Queues |-> <<>>]
        /\ vm.owners = [l \in Locks |-> {}]
    BY <1>1 DEF EmptyVM
  <1>6. vm \in VMStates
    <2>1. [t \in Threads |-> "Running"] \in [Threads -> Statuses]
      BY DEF Statuses, LiveStatuses
    <2>2. EmptyVM \in VMStates
      BY EmptyConsistent DEF Consistent
    <2>3. ASSUME NEW st \in [Threads -> Statuses], NEW r \in Seq(Threads)
          PROVE  [EmptyVM EXCEPT !.status = st, !.runnable = r] \in VMStates
      BY <2>2 DEF VMStates
    <2> QED BY <1>1, <1>3, <2>1, <2>3
  <1>7. Range(<<>>) = {} /\ IsQueue(<<>>)
    BY DEF IsQueue, IsInjective, Range
  <1>8. OnRing(vm)
    BY <1>3, <1>4, <1>5 DEF OnRing
  <1>9. OnQueue(vm)
    BY <1>5, <1>7 DEF OnQueue, WaitsFor
  <1>10. CountsAgree(vm)
    BY <1>5 DEF CountsAgree
  <1>11. Locks \subseteq Queues
    BY LocksAreQueues
  <1>12. LocksAgree(vm) /\ OneOwner(vm)
    BY <1>5, <1>11 DEF LocksAgree, WaitedAreLocked, OneOwner
  <1>13. IInv
    BY <1>5, <1>6, <1>8, <1>9, <1>10, <1>12
       DEF SyncInit, IInv, Consistent, CurrentIsRunning, AtPrompt, PauseReasons
  <1>14. step = [t \in Threads |-> Idle] /\ lockedQ = FALSE /\ taker = NoThread
         /\ locker = NoThread /\ count = 0 /\ deserted = NoThread
    BY DEF SyncInit
  <1>15. ObjectTypes /\ ObjectInv
    BY <1>14, IdleFacts DEF ObjectTypes, ObjectInv, StepRight
  <1>16. SpinInv
    BY <1>5, <1>7, <1>11, <1>12, <1>14, IdleFacts, ThreadsAssumption
       DEF SpinInv, Held, Deserter
  <1> QED BY <1>13, <1>15, <1>16 DEF SyncInv

LEMMA NextSyncInv == SyncInv /\ [SyncNext]_syncVars => SyncInv'
  <1> SUFFICES ASSUME SyncInv, [SyncNext]_syncVars PROVE SyncInv'
    OBVIOUS
  <1>1. ASSUME NEW t \in Threads,
               CallGrab(t) \/ CallRelease(t) \/ CallWait(t) \/ CallSignal(t)
        PROVE  SyncInv'
    BY <1>1, CallInv, CallSignalInv
  <1>2. ASSUME NEW t \in Threads, Continues(t) PROVE SyncInv'
    BY <1>2, EnterInv, LeaveInv, TestInv, SleepInv, TakeInv, AgainInv, CheckInv,
       ClearInv, SignalInv, WaitUserInv DEF Continues
  <1>3. CASE UNCHANGED syncVars
    <2>1. UNCHANGED <<vm, pause>> /\ UNCHANGED <<objectVars, step>>
      BY <1>3 DEF syncVars
    <2> QED BY <2>1, Quiet, TablesInv
  <1> QED BY <1>1, <1>2, <1>3, SwitchInv DEF SyncNext

(* The invariant holds of all programs, also of those that release locks   *)
(* that they do not hold: the spinlock of a lock object is owned by one    *)
(* thread at a time, which is inside the monitor or has deserted it, and   *)
(* what grab-lock, release-lock and wait-for-event found there stays so    *)
(* until they act on it.                                                   *)
THEOREM SyncInvariance == SyncSpec => []SyncInv
  <1>1. SyncInv /\ [SyncNext]_syncVars => SyncInv'
    BY NextSyncInv
  <1> QED BY <1>1, InitSyncInv, PTL DEF SyncSpec

(* Whoever a spinlock was granted to is inside the monitor of its object,  *)
(* so nobody leaves with it (grab-lock, release-lock and wait-for-event in *)
(* semaphore.dylan and multilock.dylan) -- except by the one error that    *)
(* multilock.dylan:82 reports before it has released the spinlock; behind  *)
(* it nobody gets the multilock any more.                                  *)
THEOREM NobodyKeepsSpinlock == SyncSpec => []SpinlockHeldInside
  <1>1. SyncInv => SpinlockHeldInside
    <2> SUFFICES ASSUME SyncInv, NEW o \in Locks, NEW t \in vm.owners[o]
                 PROVE  \/ step[t].on = o /\ step[t].at # "enter"
                        \/ o = Multilock /\ deserted = t /\ locker = NoThread
      BY DEF SpinlockHeldInside
    <2>1. t \in Threads
      BY DEF SyncInv, IInv, Consistent, VMStates
    <2>2. Inside(step[t], o) \/ Deserter(t, o)
      BY <2>1 DEF SyncInv, SpinInv, Held
    <2>3. Deserter(t, o) => locker = NoThread
      BY <2>1, ThreadsAssumption DEF SyncInv, ObjectInv, Deserter
    <2> QED BY <2>2, <2>3 DEF Inside, Deserter
  <1> QED BY <1>1, SyncInvariance, PTL

-----------------------------------------------------------------------------
(***************************************************************************)
(* The two locks keep their promise.  The holder is the thread that is in  *)
(* the slot "locker", or that set "locked?" last; the callers are those    *)
(* inside grab-lock.                                                       *)
(***************************************************************************)
Calls(st, o) == st.op = "grab" /\ st.on = o /\ st.at # "leave"

(* Nothing happens that a caller of either lock could notice. *)
Unnoticed == UNCHANGED <<lockedQ, locker, count, taker>> /\ \A o \in Locks : UNCHANGED CallersOf(o)

LEMMA CallersAfter ==
  ASSUME SyncInv, NEW t \in Threads, NEW st \in Steps,
         step' = [step EXCEPT ![t] = st], NEW o \in Locks
  PROVE  /\ t \in CallersOf(o) <=> Calls(step[t], o)
         /\ CallersOf(o)' = IF Calls(st, o) THEN CallersOf(o) \cup {t}
                            ELSE CallersOf(o) \ {t}
  <1>1. /\ step'[t] = st /\ \A u \in Threads \ {t} : step'[u] = step[u]
    BY StepAfter DEF SyncInv, ObjectTypes
  <1> QED BY <1>1 DEF CallersOf, Calls

LEMMA OneMove ==
  ASSUME SyncInv, NEW t \in Threads, UNCHANGED <<lockedQ, locker, count, taker>>,
         NEW st \in Steps, step' = [step EXCEPT ![t] = st],
         \A o \in Locks : Calls(st, o) <=> Calls(step[t], o)
  PROVE  Unnoticed
  <1> SUFFICES ASSUME NEW o \in Locks PROVE UNCHANGED CallersOf(o)
    BY DEF Unnoticed
  <1>1. /\ t \in CallersOf(o) <=> Calls(step[t], o)
        /\ CallersOf(o)' = IF Calls(st, o) THEN CallersOf(o) \cup {t}
                           ELSE CallersOf(o) \ {t}
    BY CallersAfter
  <1> QED BY <1>1

(* The steps inside the monitors that change no object, and the signals    *)
(* and switches.                                                           *)
LEMMA InnerUnnoticed ==
  ASSUME SyncInv, NEW t \in Threads,
         Enter(t) \/ Leave(t) \/ Test(t) \/ Sleep(t) \/ Check(t) \/ Signal(t) \/ WaitUser(t)
  PROVE  Unnoticed
  <1>1. UNCHANGED <<lockedQ, locker, count, taker>>
    BY DEF Enter, Leave, Test, Sleep, Check, Signal, WaitUser, objectVars
  <1>2. /\ step[t].at \notin {"done"} /\ step[t] \in Steps /\ step[t] # Idle
        /\ step \in [Threads -> Steps]
    <2>1. step[t].at # "done"
      BY DEF Enter, Leave, Test, Sleep, Check, Signal, WaitUser, At
    <2> QED BY <2>1, IdleFacts DEF SyncInv, ObjectTypes
  <1>3. ASSUME NEW p, Moves(t, p), step[t].op # "grab" \/ step[t].at # "leave",
               [step[t] EXCEPT !.at = p] \in Steps, step[t].op = "grab" => p # "leave"
        PROVE  Unnoticed
    <2> DEFINE st == [step[t] EXCEPT !.at = p]
    <2>1. st.op = step[t].op /\ st.on = step[t].on /\ st.at = p
      BY <1>2, Placed
    <2>2. step' = [step EXCEPT ![t] = st]
      BY <1>2, <1>3, MovesTo
    <2>3. st \in Steps
      BY <1>3
    <2> HIDE DEF st
    <2>4. \A o \in Locks : Calls(st, o) <=> Calls(step[t], o)
      BY <1>3, <2>1 DEF Calls
    <2> QED BY <1>1, <2>2, <2>3, <2>4, OneMove
  <1>4. ASSUME Finishes(t), step[t].op # "grab" \/ step[t].at = "leave"
        PROVE  Unnoticed
    <2>1. step' = [step EXCEPT ![t] = Idle]
      BY <1>4 DEF Finishes
    <2>2. \A o \in Locks : Calls(Idle, o) <=> Calls(step[t], o)
      BY <1>4, IdleFacts DEF Calls
    <2> QED BY <1>1, <2>1, <2>2, IdleFacts, OneMove
  <1>5. CASE Leave(t)
    BY <1>4, <1>5 DEF Leave
  <1>6. CASE WaitUser(t)
    BY <1>4, <1>6 DEF WaitUser, At
  <1>7. CASE Enter(t)
    <2> DEFINE p == IF step[t].op = "grab" THEN "test" ELSE "check"
    <2>1. step[t].at = "enter" /\ Moves(t, p)
      BY <1>7 DEF Enter
    <2>2. /\ [step[t] EXCEPT !.at = p] \in Steps
          /\ step[t].op = "grab" => p # "leave"
      BY <1>2, Placed
    <2> HIDE DEF p
    <2> QED BY <1>3, <2>1, <2>2
  <1>8. CASE Test(t)
    <2>1. PICK p \in {"again", "sleep", "take"} : Moves(t, p)
      BY <1>8 DEF Test
    <2>2. step[t].op = "grab" /\ step[t].at = "test"
      BY <1>8 DEF Test, At
    <2>3. [step[t] EXCEPT !.at = p] \in Steps
      BY <1>2, <2>2, Placed
    <2> QED BY <1>3, <2>1, <2>2, <2>3
  <1>9. CASE Sleep(t)
    <2>1. step[t].op = "grab" /\ step[t].at = "sleep" /\ Moves(t, "enter")
      BY <1>9 DEF Sleep, At
    <2>2. [step[t] EXCEPT !.at = "enter"] \in Steps
      BY <1>2, <2>1, Placed
    <2> QED BY <1>3, <2>1, <2>2
  <1>10. CASE Check(t)
    <2>1. step[t].at = "check" /\ step[t].op \in {"release", "wait"}
      BY <1>2, <1>10 DEF Check, Steps, Idle
    <2>2. Finishes(t) \/ \E p \in {"clear", "leave"} : Moves(t, p)
      BY <1>10 DEF Check
    <2>3. CASE Finishes(t)
      BY <1>4, <2>1, <2>3
    <2>4. ASSUME NEW p \in {"clear", "leave"}, Moves(t, p) PROVE Unnoticed
      <3>1. [step[t] EXCEPT !.at = p] \in Steps
        BY <1>2, <2>1, Placed
      <3> QED BY <1>3, <2>1, <2>4, <3>1
    <2> QED BY <2>2, <2>3, <2>4
  <1>11. CASE Signal(t)
    <2> DEFINE p == IF step[t].op = "wait" THEN "wait_event" ELSE "leave"
    <2>1. step[t].at = "signal" /\ step[t].op \in {"release", "wait"} /\ Moves(t, p)
      BY <1>2, <1>11 DEF Signal, Steps, Idle
    <2>2. [step[t] EXCEPT !.at = p] \in Steps
      BY <1>2, <2>1, Placed
    <2> HIDE DEF p
    <2> QED BY <1>3, <2>1, <2>2
  <1> QED BY <1>5, <1>6, <1>7, <1>8, <1>9, <1>10, <1>11

(* grab-lock is called. *)
LEMMA CallMaps ==
  ASSUME SyncInv, NEW t \in Threads, NEW op \in {"grab", "release", "wait"},
         NEW o \in Locks, Begin(t, op, o)
  PROVE  /\ UNCHANGED objectVars
         /\ \A k \in Locks :
              IF op = "grab" /\ k = o
                THEN t \notin CallersOf(k) /\ CallersOf(k)' = CallersOf(k) \cup {t}
                ELSE UNCHANGED CallersOf(k)
  <1> DEFINE st == [op |-> op, on |-> o, at |-> "enter"]
  <1>1. /\ UNCHANGED objectVars /\ step[t] = Idle
        /\ step' = [step EXCEPT ![t] = st]
    BY DEF Begin
  <1>2. st.op = op /\ st.on = o /\ st.at = "enter"
    OBVIOUS
  <1>3. step \in [Threads -> Steps]
    BY DEF SyncInv, ObjectTypes
  <1> HIDE DEF st
  <1>4. /\ step'[t] = st /\ \A u \in Threads \ {t} : step'[u] = step[u]
    BY <1>1, <1>3
  <1>5. ASSUME NEW k \in Locks
        PROVE  IF op = "grab" /\ k = o
                 THEN t \notin CallersOf(k) /\ CallersOf(k)' = CallersOf(k) \cup {t}
                 ELSE UNCHANGED CallersOf(k)
    <2>1. /\ t \notin CallersOf(k)
          /\ t \in CallersOf(k)' <=> op = "grab" /\ o = k
      BY <1>1, <1>2, <1>4, IdleFacts DEF CallersOf
    <2>2. \A u \in Threads \ {t} : u \in CallersOf(k)' <=> u \in CallersOf(k)
      BY <1>4 DEF CallersOf
    <2>3. CallersOf(k) \subseteq Threads /\ CallersOf(k)' \subseteq Threads
      BY DEF CallersOf
    <2> QED BY <2>1, <2>2, <2>3
  <1> QED BY <1>1, <1>5

(* The steps that change an object: only the last of grab-lock has a       *)
(* caller return.                                                          *)
LEMMA ChangeCallers ==
  ASSUME SyncInv, NEW t \in Threads, NEW o \in Locks, step[t].on = o,
         step[t].at \in {"take", "again", "clear"},
         NEW p \in {"leave", "signal"}, Moves(t, p),
         step[t].op = "grab" => p = "leave"
  PROVE  \A k \in Locks :
           IF step[t].op = "grab" /\ k = o
             THEN t \in CallersOf(k) /\ CallersOf(k)' = CallersOf(k) \ {t}
             ELSE UNCHANGED CallersOf(k)
  <1> DEFINE st == [step[t] EXCEPT !.at = p]
  <1>1. step[t] \in Steps /\ step[t] # Idle /\ step \in [Threads -> Steps]
    BY InMonitor
  <1>2. step' = [step EXCEPT ![t] = st]
    BY <1>1, MovesTo
  <1>3. st \in Steps /\ st.op = step[t].op /\ st.on = o /\ st.at = p
    BY <1>1, Placed, InMonitor
  <1> HIDE DEF st
  <1> TAKE k \in Locks
  <1>4. /\ t \in CallersOf(k) <=> Calls(step[t], k)
        /\ CallersOf(k)' = IF Calls(st, k) THEN CallersOf(k) \cup {t}
                           ELSE CallersOf(k) \ {t}
    BY <1>2, <1>3, CallersAfter
  <1>5. ~ Calls(st, k) /\ (Calls(step[t], k) <=> step[t].op = "grab" /\ k = o)
    BY <1>3 DEF Calls
  <1> QED BY <1>4, <1>5

LEMMA UnnoticedMaps ==
  ASSUME Unnoticed
  PROVE  UNCHANGED S!lockVars /\ UNCHANGED M!lockVars
  <1>1. Semaphore \in Locks /\ Multilock \in Locks
    BY SyncAssumption
  <1> QED BY <1>1 DEF Unnoticed, S!lockVars, M!lockVars

LEMMA CallRefines ==
  ASSUME SyncInv, NEW t \in Threads,
         CallGrab(t) \/ CallRelease(t) \/ CallWait(t) \/ CallSignal(t)
  PROVE  [S!LockNext]_(S!lockVars) /\ [M!LockNext]_(M!lockVars)
  <1>1. Semaphore \in Locks /\ Multilock \in Locks /\ Semaphore # Multilock
    BY SyncAssumption
  <1>2. CASE CallSignal(t)
    <2>1. Unnoticed
      BY <1>2 DEF CallSignal, Unnoticed, CallersOf, objectVars
    <2> QED BY <2>1, UnnoticedMaps
  <1>3. ASSUME NEW op \in {"release", "wait"}, NEW o \in Locks, Begin(t, op, o)
        PROVE  [S!LockNext]_(S!lockVars) /\ [M!LockNext]_(M!lockVars)
    <2>1. Unnoticed
      BY <1>3, CallMaps DEF Unnoticed, objectVars
    <2> QED BY <2>1, UnnoticedMaps
  <1>4. CASE Begin(t, "grab", Semaphore)
    <2>1. /\ UNCHANGED objectVars /\ UNCHANGED CallersOf(Multilock)
          /\ t \notin CallersOf(Semaphore)
          /\ CallersOf(Semaphore)' = CallersOf(Semaphore) \cup {t}
      BY <1>1, <1>4, CallMaps
    <2>2. S!Call(t) /\ UNCHANGED M!lockVars
      BY <2>1 DEF S!Call, M!lockVars, objectVars
    <2> QED BY <2>2 DEF S!LockNext
  <1>5. CASE Begin(t, "grab", Multilock)
    <2>1. /\ UNCHANGED objectVars /\ UNCHANGED CallersOf(Semaphore)
          /\ t \notin CallersOf(Multilock)
          /\ CallersOf(Multilock)' = CallersOf(Multilock) \cup {t}
      BY <1>1, <1>5, CallMaps
    <2>2. M!Call(t) /\ UNCHANGED S!lockVars
      BY <2>1 DEF M!Call, S!lockVars, objectVars
    <2> QED BY <2>2 DEF M!LockNext
  <1> QED BY <1>1, <1>2, <1>3, <1>4, <1>5 DEF CallGrab, CallRelease, CallWait

LEMMA TakeRefines ==
  ASSUME SyncInv, NEW t \in Threads, Take(t)
  PROVE  [S!LockNext]_(S!lockVars) /\ [M!LockNext]_(M!lockVars)
  <1>1. /\ step[t].op = "grab" /\ step[t].at = "take" /\ Moves(t, "leave")
        /\ IF step[t].on = Semaphore
             THEN lockedQ' = TRUE /\ taker' = t /\ UNCHANGED <<locker, count>>
             ELSE locker' = t /\ count' = 1 /\ UNCHANGED <<lockedQ, taker>>
    BY DEF Take, At
  <1>2. StepRight(t, step[t]) /\ step[t].on \in Locks
    BY <1>1, InMonitor
  <1>3. ObjectTypes /\ ObjectInv
    BY DEF SyncInv
  <1>4. /\ step[t].on \in {Semaphore, Multilock} /\ Semaphore # Multilock
        /\ Semaphore \in Locks /\ Multilock \in Locks
    BY <1>2, SyncAssumption
  <1>5. \A k \in Locks :
          IF k = step[t].on
            THEN t \in CallersOf(k) /\ CallersOf(k)' = CallersOf(k) \ {t}
            ELSE UNCHANGED CallersOf(k)
    BY <1>1, <1>2, ChangeCallers
  <1>6. CASE step[t].on = Semaphore
    <2>1. taker = NoThread /\ ~ lockedQ
      BY <1>1, <1>2, <1>3, <1>6 DEF StepRight, ObjectInv
    <2>2. S!Acquire(t)
      BY <1>1, <1>4, <1>5, <1>6, <2>1 DEF S!Acquire, S!MayHave
    <2>3. UNCHANGED M!lockVars
      BY <1>1, <1>4, <1>5, <1>6 DEF M!lockVars
    <2> QED BY <2>2, <2>3 DEF S!LockNext
  <1>7. CASE step[t].on = Multilock
    <2>1. locker = NoThread /\ count = 0
      BY <1>1, <1>2, <1>3, <1>4, <1>7 DEF StepRight, ObjectInv
    <2>2. M!Acquire(t)
      BY <1>1, <1>4, <1>5, <1>7, <2>1 DEF M!Acquire, M!MayHave
    <2>3. UNCHANGED S!lockVars
      BY <1>1, <1>4, <1>5, <1>7 DEF S!lockVars
    <2> QED BY <2>2, <2>3 DEF M!LockNext
  <1> QED BY <1>4, <1>6, <1>7

LEMMA AgainRefines ==
  ASSUME SyncInv, NEW t \in Threads, Again(t)
  PROVE  [S!LockNext]_(S!lockVars) /\ [M!LockNext]_(M!lockVars)
  <1>1. /\ step[t].op = "grab" /\ step[t].at = "again" /\ Moves(t, "leave")
        /\ UNCHANGED <<lockedQ, locker, taker>> /\ count' = count + 1
    BY DEF Again, At
  <1>2. /\ step[t].on = Multilock /\ locker = t /\ Semaphore # Multilock
        /\ Semaphore \in Locks /\ Multilock \in Locks
    BY <1>1, InMonitor, SyncAssumption DEF StepRight
  <1>3. \A k \in Locks :
          IF k = step[t].on
            THEN t \in CallersOf(k) /\ CallersOf(k)' = CallersOf(k) \ {t}
            ELSE UNCHANGED CallersOf(k)
    BY <1>1, <1>2, ChangeCallers
  <1>4. M!Acquire(t)
    BY <1>1, <1>2, <1>3 DEF M!Acquire, M!MayHave
  <1>5. UNCHANGED S!lockVars
    BY <1>1, <1>2, <1>3 DEF S!lockVars
  <1> QED BY <1>4, <1>5 DEF M!LockNext

LEMMA ClearRefines ==
  ASSUME SyncInv, NEW t \in Threads, Clear(t)
  PROVE  [S!LockNext]_(S!lockVars) /\ [M!LockNext]_(M!lockVars)
  <1>1. step[t].at = "clear"
    BY DEF Clear
  <1>2. /\ StepRight(t, step[t]) /\ step[t].on \in Locks
        /\ step[t] \in Steps /\ step[t] # Idle
    BY <1>1, InMonitor
  <1>3. ObjectTypes /\ ObjectInv /\ t # NoThread
    BY ThreadsAssumption DEF SyncInv
  <1>4. /\ step[t].on \in {Semaphore, Multilock} /\ Semaphore # Multilock
        /\ Semaphore \in Locks /\ Multilock \in Locks
    BY <1>2, SyncAssumption
  <1>5. step[t].op # "grab"
    BY <1>1, <1>2 DEF Steps, Idle
  <1>6. PICK p \in {"leave", "signal"} : Moves(t, p)
    BY DEF Clear
  <1>7. \A k \in Locks : UNCHANGED CallersOf(k)
    BY <1>1, <1>2, <1>5, <1>6, ChangeCallers
  <1>8. CASE step[t].on = Semaphore
    <2>1. /\ lockedQ' = FALSE /\ taker' = NoThread /\ UNCHANGED <<locker, count>>
      BY <1>8 DEF Clear
    <2>2. lockedQ /\ taker # NoThread
      BY <1>1, <1>2, <1>3, <1>8 DEF StepRight, ObjectInv
    <2>3. S!Release
      BY <1>4, <1>7, <2>1, <2>2 DEF S!Release
    <2>4. UNCHANGED M!lockVars
      BY <1>4, <1>7, <2>1 DEF M!lockVars
    <2> QED BY <2>3, <2>4 DEF S!LockNext
  <1>9. CASE step[t].on = Multilock
    <2>1. /\ count' = count - 1 /\ UNCHANGED <<lockedQ, taker>>
          /\ locker' = IF count = 1 THEN NoThread ELSE locker
      BY <1>4, <1>9 DEF Clear
    <2>2. locker # NoThread
      BY <1>1, <1>2, <1>3, <1>4, <1>9 DEF StepRight
    <2>3. M!Release
      BY <1>4, <1>7, <2>1, <2>2 DEF M!Release
    <2>4. UNCHANGED S!lockVars
      BY <1>4, <1>7, <2>1 DEF S!lockVars
    <2> QED BY <2>3, <2>4 DEF M!LockNext
  <1> QED BY <1>4, <1>8, <1>9

LEMMA NextRefines ==
  SyncInv /\ [SyncNext]_syncVars
    => [S!LockNext]_(S!lockVars) /\ [M!LockNext]_(M!lockVars)
  <1> SUFFICES ASSUME SyncInv, [SyncNext]_syncVars
               PROVE  [S!LockNext]_(S!lockVars) /\ [M!LockNext]_(M!lockVars)
    OBVIOUS
  <1>1. ASSUME NEW t \in Threads, Continues(t)
        PROVE  [S!LockNext]_(S!lockVars) /\ [M!LockNext]_(M!lockVars)
    BY <1>1, InnerUnnoticed, UnnoticedMaps, TakeRefines, AgainRefines, ClearRefines
       DEF Continues
  <1>2. CASE SwitchThread \/ UNCHANGED syncVars
    <2>1. Unnoticed
      BY <1>2 DEF SwitchThread, syncVars, Unnoticed, CallersOf, objectVars
    <2> QED BY <2>1, UnnoticedMaps
  <1> QED BY <1>1, <1>2, CallRefines DEF SyncNext

LEMMA InitRefines == SyncInit => S!Free /\ M!Free
  <1> SUFFICES ASSUME SyncInit PROVE S!Free /\ M!Free
    OBVIOUS
  <1>1. \A o : CallersOf(o) = {}
    BY DEF SyncInit, CallersOf, Idle
  <1> QED BY <1>1 DEF SyncInit, S!Free, M!Free

(* The semaphore gives itself to one caller of grab-lock at a time         *)
(* (semaphore.dylan), whoever releases it.                                 *)
THEOREM SemaphoreIsLock == SyncSpec => S!LockSafety
  <1>1. SyncInv /\ [SyncNext]_syncVars => [S!LockNext]_(S!lockVars)
    BY NextRefines
  <1>2. SyncInit => S!Free
    BY InitRefines
  <1> QED BY <1>1, <1>2, SyncInvariance, PTL DEF SyncSpec, S!LockSafety

(* So does the multilock, except that its holder may grab it again, and    *)
(* keeps it until it has released it as often (multilock.dylan); calls of  *)
(* release-lock by others change nothing.                                  *)
THEOREM MultilockIsLock == SyncSpec => M!LockSafety
  <1>1. SyncInv /\ [SyncNext]_syncVars => [M!LockNext]_(M!lockVars)
    BY NextRefines
  <1>2. SyncInit => M!Free
    BY InitRefines
  <1> QED BY <1>1, <1>2, SyncInvariance, PTL DEF SyncSpec, M!LockSafety
-----------------------------------------------------------------------------
(***************************************************************************)
(* Non-local exits and handlers.                                           *)
(***************************************************************************)
(* The frames of the stack, by kind. *)
Frames ==
  [kind : {"uwp"}, prev : Nat, handlers : Seq(Handlers), cleanup : Cleanups]
    \cup [kind : {"catch"}, block : Blocks]
    \cup [kind : {"cleanup"}, cleanup : Cleanups]
    \cup [kind : {"unwinding"}, cleanup : Cleanups, to : Blocks]
    \cup [kind : {"binding"}, handler : Handlers]

CatchBlocks ==
  [valid : BOOLEAN, uwp : Nat, prev : Blocks \cup {NoBlock}, fp : Nat,
   handlers : Seq(Handlers)]

NlxTypeOK ==
  /\ frames \in Seq(Frames)
  /\ blocks \in [Blocks -> CatchBlocks]
  /\ curCatch \in Blocks \cup {NoBlock}
  /\ curUwp \in Nat
  /\ handlers \in Seq(Handlers)
  /\ fault \in BOOLEAN

-----------------------------------------------------------------------------
(* i is the innermost position up to p with a frame of that kind, or 0.    *)
IsLast(f, kind, p, i) ==
  /\ i \in 0..p
  /\ i # 0 => f[i].kind = kind
  /\ \A j \in (i + 1)..p : f[j].kind # kind

(* c is the block of the innermost catch up to p, or NoBlock. *)
LinksTo(f, p, c) ==
  \E i \in 0..p : /\ IsLast(f, "catch", p, i)
                  /\ c = IF i = 0 THEN NoBlock ELSE f[i].block

(* What a frame says of the part of the stack below it. *)
FrameRight(f, b, i) ==
  /\ f[i].kind = "catch" =>
       /\ b[f[i].block].valid
       /\ b[f[i].block].fp = i
       /\ LinksTo(f, i - 1, b[f[i].block].prev)
       /\ IsLast(f, "uwp", i - 1, b[f[i].block].uwp)
       /\ b[f[i].block].handlers = BoundBelow(f, i - 1)
  /\ f[i].kind = "uwp" =>
       /\ IsLast(f, "uwp", i - 1, f[i].prev)
       /\ f[i].handlers = BoundBelow(f, i - 1)
  /\ f[i].kind = "unwinding" =>
       \E j \in 1..(i - 1) : f[j] = [kind |-> "catch", block |-> f[i].to]

(* The stack f goes with the blocks b, the innermost protected form u, the *)
(* innermost catch block c and the handlers hs.                            *)
StackInv(f, b, u, c, hs) ==
  /\ IsLast(f, "uwp", Len(f), u)
  /\ LinksTo(f, Len(f), c)
  /\ hs = BoundBelow(f, Len(f))
  /\ \A i \in 1..Len(f) : FrameRight(f, b, i)
  /\ \A d \in Blocks : b[d].valid =>
       \E i \in 1..Len(f) : f[i] = [kind |-> "catch", block |-> d]

(***************************************************************************)
(* The inductive invariant: the chains and the handlers are those of the   *)
(* stack, seen from its top and from each frame; valid blocks are on the   *)
(* stack; and what a cleanup unwinds to is still below it.                 *)
(***************************************************************************)
NlxInv ==
  /\ NlxTypeOK
  /\ ~ fault
  /\ StackInv(frames, blocks, curUwp, curCatch, handlers)

-----------------------------------------------------------------------------
(* Stacks. *)

(* Induction on a position: two sequences of values that begin alike and   *)
(* go on alike are alike.                                                  *)
LEMMA AgreeingRecursions ==
  ASSUME NEW n \in Nat, NEW g, NEW h, g[0] = h[0],
         \A i \in 1..n : g[i - 1] = h[i - 1] => g[i] = h[i]
  PROVE  g[n] = h[n]
  <1> DEFINE T == {i \in Nat : i <= n /\ g[i] # h[i]}
  <1>1. ASSUME T # {} PROVE FALSE
    <2>1. PICK k \in T : \A m \in T : k <= m
      <3>1. T \in SUBSET Nat
        OBVIOUS
      <3> QED BY <1>1, <3>1, LeastNat
    <2>2. k \in 1..n /\ g[k - 1] = h[k - 1]
      BY <2>1
    <2> QED BY <2>1, <2>2
  <1> QED BY <1>1

(* The step of the recursion of BoundBelow. *)
BoundStep(f, p) ==
  [x \in (1..p) \X Seq(Handlers) |-> BoundOver(f[x[1]], x[2])]

LEMMA BoundOverType ==
  ASSUME NEW x \in Frames, NEW hs \in Seq(Handlers)
  PROVE  BoundOver(x, hs) \in Seq(Handlers)
  <1>1. x.kind = "binding" => x.handler \in Handlers
    BY DEF Frames
  <1> QED BY <1>1 DEF BoundOver

LEMMA BoundRecursion ==
  ASSUME NEW f \in Seq(Frames), NEW p \in 0..Len(f)
  PROVE  \E b : /\ b \in [0..p -> Seq(Handlers)]
                /\ BoundBelow(f, p) = b[p]
                /\ b[0] = <<>>
                /\ \A i \in 1..p : b[i] = BoundOver(f[i], b[i - 1])
  <1> DEFINE F == BoundStep(f, p)
             Things == Seq(Handlers)
             Body(b) == [i \in 0..p |-> IF i = 0 THEN <<>>
                                        ELSE BoundOver(f[i], b[i - 1])]
             bound == CHOOSE b : b = Body(b)
  <1>1. \A i \in 1..p : \A v \in Things : BoundOver(f[i], v) \in Things
    BY BoundOverType
  <1>2. F \in [(1..p) \X Things -> Things] /\ p \in Nat /\ <<>> \in Things
    <2>1. \A x \in (1..p) \X Things : BoundOver(f[x[1]], x[2]) \in Things
      <3> HIDE DEF Things
      <3> QED BY <1>1
    <2>2. F \in [(1..p) \X Things -> Things]
      <3> HIDE DEF Things
      <3>1. F = [x \in (1..p) \X Things |-> BoundOver(f[x[1]], x[2])]
        BY DEF BoundStep, Things
      <3> QED BY <2>1, <3>1
    <2> QED BY <2>2
  <1>3. \A i \in 1..p : \A v \in Things : F[<<i, v>>] = BoundOver(f[i], v)
    BY DEF BoundStep
  <1>4. BoundBelow(f, p) = bound[p]
    BY DEF BoundBelow
  <1> HIDE DEF F, Things
  <1>5. PICK g \in [0..p -> Things] : Follows(g, p, <<>>, F)
    BY <1>2, RecursionExists
  <1>6. \A i \in 1..p : g[i - 1] \in Things
    BY <1>2
  <1>7. g = Body(g)
    BY <1>3, <1>5, <1>6 DEF Follows
  <1>8. bound = Body(bound)
    BY <1>7
  <1> HIDE DEF bound
  <1>9. /\ DOMAIN bound = 0..p /\ bound[0] = <<>>
        /\ \A i \in 1..p : bound[i] = BoundOver(f[i], bound[i - 1])
    BY <1>2, <1>8
  <1>10. /\ g[0] = <<>>
         /\ \A i \in 1..p : g[i] = BoundOver(f[i], g[i - 1])
    BY <1>2, <1>7
  <1>11. ASSUME NEW i \in 0..p PROVE bound[i] = g[i]
    <2>1. \A j \in 1..i : bound[j - 1] = g[j - 1] => bound[j] = g[j]
      BY <1>9, <1>10
    <2>2. i \in Nat /\ bound[0] = g[0]
      BY <1>9, <1>10
    <2> HIDE DEF Body
    <2> QED BY <2>1, <2>2, AgreeingRecursions
  <1>12. bound \in [0..p -> Things]
    <2>1. bound = [i \in 0..p |-> bound[i]]
      BY <1>8, <1>9
    <2> QED BY <1>11, <2>1
  <1> QED BY <1>4, <1>9, <1>12 DEF Things

(* What the frames bind, one frame at a time. *)
LEMMA BoundValues ==
  ASSUME NEW f \in Seq(Frames), NEW p \in 0..Len(f)
  PROVE  /\ BoundBelow(f, p) \in Seq(Handlers)
         /\ p = 0 => BoundBelow(f, p) = <<>>
         /\ \A g \in Seq(Frames) :
              p <= Len(g) /\ (\A i \in 1..p : g[i] = f[i])
                => BoundBelow(g, p) = BoundBelow(f, p)
         /\ p > 0 => BoundBelow(f, p) = BoundOver(f[p], BoundBelow(f, p - 1))
  <1>1. PICK b : /\ b \in [0..p -> Seq(Handlers)]
                 /\ BoundBelow(f, p) = b[p]
                 /\ b[0] = <<>>
                 /\ \A i \in 1..p : b[i] = BoundOver(f[i], b[i - 1])
    BY BoundRecursion
  <1>a. p \in Nat /\ b[p] \in Seq(Handlers)
    BY <1>1
  <1>2. ASSUME NEW g \in Seq(Frames), p <= Len(g), \A i \in 1..p : g[i] = f[i]
        PROVE  BoundBelow(g, p) = BoundBelow(f, p)
    <2>1. PICK c : /\ c \in [0..p -> Seq(Handlers)]
                   /\ BoundBelow(g, p) = c[p]
                   /\ c[0] = <<>>
                   /\ \A i \in 1..p : c[i] = BoundOver(g[i], c[i - 1])
      <3>1. p \in 0..Len(g)
        BY <1>2
      <3> QED BY <3>1, BoundRecursion
    <2>2. \A i \in 1..p : b[i - 1] = c[i - 1] => b[i] = c[i]
      BY <1>1, <1>2, <2>1
    <2>3. b[0] = c[0]
      BY <1>1, <2>1
    <2>4. b[p] = c[p]
      BY <1>a, <2>2, <2>3, AgreeingRecursions
    <2> QED BY <1>1, <2>1, <2>4
  <1>3. ASSUME p > 0
        PROVE  BoundBelow(f, p) = BoundOver(f[p], BoundBelow(f, p - 1))
    <2>1. p - 1 \in 0..Len(f) /\ p \in 1..p /\ p - 1 \in Nat
      BY <1>3
    <2>2. PICK c : /\ c \in [0..(p - 1) -> Seq(Handlers)]
                   /\ BoundBelow(f, p - 1) = c[p - 1]
                   /\ c[0] = <<>>
                   /\ \A i \in 1..(p - 1) : c[i] = BoundOver(f[i], c[i - 1])
      BY <2>1, BoundRecursion
    <2>3. \A i \in 1..(p - 1) : b[i - 1] = c[i - 1] => b[i] = c[i]
      BY <1>1, <2>2
    <2>4. b[p - 1] = c[p - 1]
      BY ZenonT(60), <1>1, <2>1, <2>2, <2>3, AgreeingRecursions
    <2> QED BY <1>1, <2>1, <2>2, <2>4
  <1> QED BY <1>1, <1>a, <1>2, <1>3

(* There is one innermost frame of a kind, and stacks that agree up to p   *)
(* agree on which it is.                                                   *)
LEMMA LastFacts ==
  ASSUME NEW f, NEW kind, NEW p \in Nat, NEW i, IsLast(f, kind, p, i)
  PROVE  /\ i \in 0..p
         /\ \A j : IsLast(f, kind, p, j) => i = j
         /\ \A g : (\A j \in 1..p : g[j] = f[j]) => IsLast(g, kind, p, i)
         /\ \A r \in 0..p : i <= r => IsLast(f, kind, r, i)
         /\ f[p + 1].kind # kind => IsLast(f, kind, p + 1, i)
         /\ f[p + 1].kind = kind => IsLast(f, kind, p + 1, p + 1)
  BY DEF IsLast

LEMMA LinkFacts ==
  ASSUME NEW f, NEW p \in Nat, NEW c, LinksTo(f, p, c)
  PROVE  /\ \A d : LinksTo(f, p, d) => c = d
         /\ \A g : (\A j \in 1..p : g[j] = f[j]) => LinksTo(g, p, c)
         /\ f[p + 1].kind # "catch" => LinksTo(f, p + 1, c)
         /\ f[p + 1].kind = "catch" => LinksTo(f, p + 1, f[p + 1].block)
  BY DEF LinksTo, IsLast

(* A frame stays right while the stack up to it and its block do.          *)
LEMMA FrameKept ==
  ASSUME NEW f \in Seq(Frames), NEW g \in Seq(Frames), NEW b, NEW d,
         NEW i \in 1..Len(f), i <= Len(g), \A j \in 1..i : g[j] = f[j],
         FrameRight(f, b, i),
         f[i].kind = "catch" => d[f[i].block] = b[f[i].block]
  PROVE  FrameRight(g, d, i)
  <1>1. i - 1 \in Nat /\ i - 1 \in 0..Len(f) /\ i - 1 <= Len(g) /\ g[i] = f[i]
        /\ \A j \in 1..(i - 1) : g[j] = f[j]
    OBVIOUS
  <1>2. BoundBelow(g, i - 1) = BoundBelow(f, i - 1)
    BY <1>1, BoundValues
  <1>3. \A kind, v : IsLast(f, kind, i - 1, v) => IsLast(g, kind, i - 1, v)
    BY <1>1, LastFacts
  <1>4. \A v : LinksTo(f, i - 1, v) => LinksTo(g, i - 1, v)
    BY <1>1, LinkFacts
  <1> QED BY <1>1, <1>2, <1>3, <1>4 DEF FrameRight

(* The stack under the position p + 1. *)
LEMMA CutInv ==
  ASSUME NEW f \in Seq(Frames), NEW b, NEW u, NEW c, NEW hs,
         StackInv(f, b, u, c, hs), NEW p \in 0..Len(f), NEW d,
         \A i \in 1..p : f[i].kind = "catch" => d[f[i].block] = b[f[i].block],
         \A x \in Blocks : d[x].valid =>
           \E i \in 1..p : f[i] = [kind |-> "catch", block |-> x],
         NEW v, IsLast(f, "uwp", p, v), NEW e, LinksTo(f, p, e)
  PROVE  /\ SubSeq(f, 1, p) \in Seq(Frames)
         /\ Len(SubSeq(f, 1, p)) = p
         /\ StackInv(SubSeq(f, 1, p), d, v, e, BoundBelow(f, p))
  <1> DEFINE g == SubSeq(f, 1, p)
  <1>1. g \in Seq(Frames) /\ Len(g) = p /\ p \in Nat
        /\ \A j \in 1..p : g[j] = f[j]
    OBVIOUS
  <1> HIDE DEF g
  <1>2. IsLast(g, "uwp", p, v)
    BY <1>1, LastFacts
  <1>3. LinksTo(g, p, e)
    BY <1>1, LinkFacts
  <1>4. BoundBelow(g, p) = BoundBelow(f, p)
    BY <1>1, BoundValues
  <1>5. ASSUME NEW i \in 1..p PROVE FrameRight(g, d, i)
    <2>1. FrameRight(f, b, i) /\ i \in 1..Len(f)
      BY DEF StackInv
    <2>2. i <= Len(g) /\ \A j \in 1..i : g[j] = f[j]
      BY <1>1
    <2> QED BY <1>1, <2>1, <2>2, FrameKept
  <1>6. StackInv(g, d, v, e, BoundBelow(f, p))
    BY <1>1, <1>2, <1>3, <1>4, <1>5 DEF StackInv
  <1> QED BY <1>1, <1>6 DEF g

(* A frame more: what does not depend on its kind. *)
LEMMA PushFacts ==
  ASSUME NEW f \in Seq(Frames), NEW b, NEW u, NEW c, NEW hs,
         StackInv(f, b, u, c, hs), NEW x \in Frames
  PROVE  /\ Append(f, x) \in Seq(Frames)
         /\ Len(Append(f, x)) = Len(f) + 1
         /\ Append(f, x)[Len(f) + 1] = x
         /\ \A j \in 1..Len(f) : Append(f, x)[j] = f[j]
         /\ IsLast(Append(f, x), "uwp", Len(f) + 1,
                   IF x.kind = "uwp" THEN Len(f) + 1 ELSE u)
         /\ LinksTo(Append(f, x), Len(f) + 1,
                    IF x.kind = "catch" THEN x.block ELSE c)
         /\ BoundBelow(Append(f, x), Len(f) + 1) = BoundOver(x, hs)
         /\ IsLast(Append(f, x), "uwp", Len(f), u)
         /\ LinksTo(Append(f, x), Len(f), c)
         /\ BoundBelow(Append(f, x), Len(f)) = hs
         /\ \A d : (\A i \in 1..Len(f) : f[i].kind = "catch" =>
                                           d[f[i].block] = b[f[i].block])
                   => \A i \in 1..Len(f) : FrameRight(Append(f, x), d, i)
  <1> DEFINE g == Append(f, x)  n == Len(f)
  <1>1. /\ g \in Seq(Frames) /\ Len(g) = n + 1 /\ g[n + 1] = x /\ n \in Nat
        /\ \A j \in 1..n : g[j] = f[j]
    OBVIOUS
  <1> HIDE DEF g
  <1>2. IsLast(f, "uwp", n, u) /\ LinksTo(f, n, c) /\ hs = BoundBelow(f, n)
        /\ \A i \in 1..n : FrameRight(f, b, i)
    BY DEF StackInv
  <1> HIDE DEF n
  <1>3. IsLast(g, "uwp", n, u)
    BY <1>1, <1>2, LastFacts
  <1>4. LinksTo(g, n, c)
    BY <1>1, <1>2, LinkFacts
  <1>5. IsLast(g, "uwp", n + 1, IF x.kind = "uwp" THEN n + 1 ELSE u)
    BY <1>1, <1>3, LastFacts
  <1>6. LinksTo(g, n + 1, IF x.kind = "catch" THEN x.block ELSE c)
    BY <1>1, <1>4, LinkFacts
  <1>7. BoundBelow(g, n) = hs
    <2>1. n \in 0..Len(f) /\ n <= Len(g)
      BY <1>1 DEF n
    <2> QED BY <1>1, <1>2, <2>1, BoundValues
  <1>8. BoundBelow(g, n + 1) = BoundOver(x, hs)
    <2>1. n + 1 \in 0..Len(g) /\ n + 1 > 0 /\ (n + 1) - 1 = n
      BY <1>1
    <2> QED BY <1>1, <1>7, <2>1, BoundValues
  <1>9. ASSUME NEW d, \A i \in 1..n : f[i].kind = "catch" =>
                                        d[f[i].block] = b[f[i].block],
               NEW i \in 1..n
        PROVE  FrameRight(g, d, i)
    <2>1. i <= Len(g) /\ i \in 1..Len(f) /\ \A j \in 1..i : g[j] = f[j]
      BY <1>1 DEF n
    <2> QED BY <1>1, <1>2, <1>9, <2>1, FrameKept
  <1> QED BY <1>1, <1>3, <1>4, <1>5, <1>6, <1>7, <1>8, <1>9 DEF g, n

(* What was on the stack still is. *)
LEMMA PushKeeps ==
  ASSUME NEW f, NEW g, NEW n \in Nat, \A j \in 1..n : g[j] = f[j], NEW v,
         \E i \in 1..n : f[i] = v
  PROVE  \E i \in 1..(n + 1) : g[i] = v
  <1>1. PICK i \in 1..n : f[i] = v
    OBVIOUS
  <1>2. i \in 1..(n + 1) /\ g[i] = v
    BY <1>1
  <1> QED BY <1>2

(* A protected form is entered. *)
LEMMA PushUwp ==
  ASSUME NEW f \in Seq(Frames), NEW b, NEW u, NEW c, NEW hs,
         StackInv(f, b, u, c, hs), NEW x \in Frames,
         x.kind = "uwp", x.prev = u, x.handlers = hs
  PROVE  StackInv(Append(f, x), b, Len(f) + 1, c, hs)
  <1> DEFINE g == Append(f, x)  n == Len(f)
  <1>1. /\ Len(g) = n + 1 /\ g[n + 1] = x /\ n \in Nat
        /\ \A j \in 1..n : g[j] = f[j]
        /\ IsLast(g, "uwp", n + 1, n + 1) /\ LinksTo(g, n + 1, c)
        /\ BoundBelow(g, n + 1) = BoundOver(x, hs)
        /\ IsLast(g, "uwp", n, u) /\ BoundBelow(g, n) = hs
        /\ \A i \in 1..n : FrameRight(g, b, i)
    BY PushFacts
  <1> HIDE DEF g
  <1>2. FrameRight(g, b, n + 1)
    <2>1. (n + 1) - 1 = n
      BY <1>1
    <2> QED BY <1>1, <2>1 DEF FrameRight
  <1>3. \A i \in 1..(n + 1) : FrameRight(g, b, i)
    BY <1>1, <1>2
  <1>4. BoundOver(x, hs) = hs
    BY DEF BoundOver
  <1>5. ASSUME NEW d \in Blocks, b[d].valid
        PROVE  \E i \in 1..(n + 1) : g[i] = [kind |-> "catch", block |-> d]
    <2>1. \E i \in 1..n : f[i] = [kind |-> "catch", block |-> d]
      BY <1>5 DEF StackInv
    <2> QED BY <1>1, <2>1, PushKeeps
  <1>6. StackInv(g, b, n + 1, c, hs)
    BY <1>1, <1>3, <1>4, <1>5 DEF StackInv
  <1> QED BY <1>6 DEF g

(* A cleanup is called, or a handler bound. *)
LEMMA PushOther ==
  ASSUME NEW f \in Seq(Frames), NEW b, NEW u, NEW c, NEW hs,
         StackInv(f, b, u, c, hs), NEW x \in Frames,
         x.kind \in {"cleanup", "unwinding", "binding"},
         x.kind = "unwinding" =>
           \E j \in 1..Len(f) : f[j] = [kind |-> "catch", block |-> x.to]
  PROVE  StackInv(Append(f, x), b, u, c, BoundOver(x, hs))
  <1> DEFINE g == Append(f, x)  n == Len(f)
  <1>1. /\ Len(g) = n + 1 /\ g[n + 1] = x /\ n \in Nat
        /\ \A j \in 1..n : g[j] = f[j]
        /\ IsLast(g, "uwp", n + 1, u) /\ LinksTo(g, n + 1, c)
        /\ BoundBelow(g, n + 1) = BoundOver(x, hs)
        /\ \A i \in 1..n : FrameRight(g, b, i)
    BY PushFacts
  <1> HIDE DEF g
  <1>2. FrameRight(g, b, n + 1)
    <2>1. (n + 1) - 1 = n
      BY <1>1
    <2> QED BY <1>1, <2>1 DEF FrameRight
  <1>3. \A i \in 1..(n + 1) : FrameRight(g, b, i)
    BY <1>1, <1>2
  <1>4. ASSUME NEW d \in Blocks, b[d].valid
        PROVE  \E i \in 1..(n + 1) : g[i] = [kind |-> "catch", block |-> d]
    <2>1. \E i \in 1..n : f[i] = [kind |-> "catch", block |-> d]
      BY <1>4 DEF StackInv
    <2> QED BY <1>1, <2>1, PushKeeps
  <1>5. StackInv(g, b, u, c, BoundOver(x, hs))
    BY <1>1, <1>3, <1>4 DEF StackInv
  <1> QED BY <1>5 DEF g

(* A catch block is entered, one that is not in use. *)
LEMMA PushCatch ==
  ASSUME NEW f \in Seq(Frames), NEW b \in [Blocks -> CatchBlocks],
         NEW u, NEW c, NEW hs,
         StackInv(f, b, u, c, hs), NEW k \in Blocks, ~ b[k].valid, NEW new,
         new = [valid |-> TRUE, uwp |-> u, prev |-> c, fp |-> Len(f) + 1,
                handlers |-> hs]
  PROVE  StackInv(Append(f, [kind |-> "catch", block |-> k]),
                  [b EXCEPT ![k] = new], u, k, hs)
  <1> DEFINE x == [kind |-> "catch", block |-> k]
             g == Append(f, x)  n == Len(f)  d == [b EXCEPT ![k] = new]
  <1>1. x \in Frames /\ x.kind = "catch" /\ x.block = k
    BY DEF Frames
  <1>2. \A y \in Blocks : d[y] = IF y = k THEN new ELSE b[y]
    OBVIOUS
  <1>3. ASSUME NEW i \in 1..n, f[i].kind = "catch"
        PROVE  d[f[i].block] = b[f[i].block]
    <2>1. b[f[i].block].valid
      BY <1>3 DEF StackInv, FrameRight
    <2>2. f[i].block \in Blocks
      <3>1. f[i] \in Frames
        OBVIOUS
      <3> QED BY <1>3, <3>1 DEF Frames
    <2> QED BY <1>2, <2>1, <2>2
  <1> HIDE DEF d, x
  <1>4. /\ Len(g) = n + 1 /\ g[n + 1] = x /\ n \in Nat
        /\ \A j \in 1..n : g[j] = f[j]
        /\ IsLast(g, "uwp", n + 1, u) /\ LinksTo(g, n + 1, k)
        /\ BoundBelow(g, n + 1) = BoundOver(x, hs)
        /\ IsLast(g, "uwp", n, u) /\ LinksTo(g, n, c) /\ BoundBelow(g, n) = hs
        /\ \A i \in 1..n : FrameRight(g, d, i)
    BY SMTT(30), <1>1, <1>3, PushFacts
  <1> HIDE DEF g
  <1>5. FrameRight(g, d, n + 1)
    <2>1. (n + 1) - 1 = n
      BY <1>4
    <2>2. d[k] = new
      BY <1>2
    <2> QED BY <1>1, <1>4, <2>1, <2>2 DEF FrameRight
  <1>6. \A i \in 1..(n + 1) : FrameRight(g, d, i)
    BY <1>4, <1>5
  <1>7. BoundOver(x, hs) = hs
    BY <1>1 DEF BoundOver
  <1>8. ASSUME NEW y \in Blocks, d[y].valid
        PROVE  \E i \in 1..(n + 1) : g[i] = [kind |-> "catch", block |-> y]
    <2>1. CASE y = k
      BY <1>4, <2>1 DEF x
    <2>2. CASE y # k
      <3>1. b[y].valid
        BY <1>2, <1>8, <2>2
      <3>2. \E i \in 1..n : f[i] = [kind |-> "catch", block |-> y]
        BY <3>1 DEF StackInv
      <3> QED BY <1>4, <3>2, PushKeeps
    <2> QED BY <2>1, <2>2
  <1>9. StackInv(g, d, u, k, hs)
    BY <1>4, <1>6, <1>7, <1>8 DEF StackInv
  <1> QED BY <1>9 DEF g, d, x

-----------------------------------------------------------------------------
(* Entering and leaving. *)

LEMMA StackTypes ==
  ASSUME NlxInv
  PROVE  /\ frames \in Seq(Frames) /\ Len(frames) \in Nat
         /\ blocks \in [Blocks -> CatchBlocks]
         /\ curCatch \in Blocks \cup {NoBlock}
         /\ curUwp \in Nat
         /\ handlers \in Seq(Handlers)
         /\ StackInv(frames, blocks, curUwp, curCatch, handlers)
         /\ ~ fault
  BY DEF NlxInv, NlxTypeOK

LEMMA EnterProtectedInv ==
  ASSUME NlxInv, NEW k \in Cleanups, EnterProtected(k)
  PROVE  NlxInv'
  <1> DEFINE x == [kind |-> "uwp", prev |-> curUwp,
                   handlers |-> handlers, cleanup |-> k]
  <1>1. x \in Frames /\ x.kind = "uwp" /\ x.prev = curUwp /\ x.handlers = handlers
    BY StackTypes DEF Frames
  <1>2. /\ frames' = Append(frames, x) /\ curUwp' = Len(frames) + 1
        /\ UNCHANGED <<blocks, curCatch, handlers, fault>>
    BY DEF EnterProtected
  <1> HIDE DEF x
  <1>3. StackInv(frames', blocks, curUwp', curCatch, handlers)
    BY <1>1, <1>2, StackTypes, PushUwp
  <1>4. NlxTypeOK'
    BY <1>1, <1>2 DEF NlxInv, NlxTypeOK
  <1> QED BY <1>2, <1>3, <1>4 DEF NlxInv

LEMMA EnterCatchInv ==
  ASSUME NlxInv, NEW c \in Blocks, EnterCatch(c)
  PROVE  NlxInv'
  <1> DEFINE x == [kind |-> "catch", block |-> c]
             new == [valid |-> TRUE, uwp |-> curUwp, prev |-> curCatch,
                     fp |-> Len(frames) + 1, handlers |-> handlers]
  <1>1. x \in Frames /\ new \in CatchBlocks
    BY StackTypes DEF Frames, CatchBlocks
  <1>2. /\ frames' = Append(frames, x) /\ blocks' = [blocks EXCEPT ![c] = new]
        /\ curCatch' = c /\ ~ blocks[c].valid
        /\ UNCHANGED <<curUwp, handlers, fault>>
    BY DEF EnterCatch
  <1>3. StackInv(frames', blocks', curUwp, c, handlers)
    BY <1>2, StackTypes, PushCatch
  <1> HIDE DEF x, new
  <1>4. NlxTypeOK'
    BY <1>1, <1>2 DEF NlxInv, NlxTypeOK
  <1> QED BY <1>2, <1>3, <1>4 DEF NlxInv

LEMMA BindHandlerInv ==
  ASSUME NlxInv, NEW h \in Handlers, BindHandler(h)
  PROVE  NlxInv'
  <1> DEFINE x == [kind |-> "binding", handler |-> h]
  <1>1. x \in Frames /\ x.kind = "binding" /\ x.handler = h
    BY DEF Frames
  <1>2. /\ frames' = Append(frames, x) /\ handlers' = <<h>> \o handlers
        /\ UNCHANGED <<blocks, curCatch, curUwp, fault>>
    BY DEF BindHandler
  <1> HIDE DEF x
  <1>3. BoundOver(x, handlers) = handlers'
    BY <1>1, <1>2 DEF BoundOver
  <1>4. StackInv(frames', blocks, curUwp, curCatch, BoundOver(x, handlers))
    BY <1>1, <1>2, StackTypes, PushOther
  <1>5. NlxTypeOK'
    BY <1>1, <1>2, <1>3, StackTypes, BoundOverType DEF NlxInv, NlxTypeOK
  <1> QED BY <1>2, <1>3, <1>4, <1>5 DEF NlxInv

(* The topmost frame, and the stack without it. *)
LEMMA TopFacts ==
  ASSUME NlxInv, frames # <<>>
  PROVE  /\ Top = frames[Len(frames)] /\ Top \in Frames
         /\ Len(frames) \in 1..Len(frames)
         /\ Front(frames) = SubSeq(frames, 1, Len(frames) - 1)
         /\ Len(frames) - 1 \in 0..Len(frames)
         /\ (Len(frames) - 1) + 1 = Len(frames)
         /\ FrameRight(frames, blocks, Len(frames))
         /\ handlers = BoundOver(Top, BoundBelow(frames, Len(frames) - 1))
         /\ BoundBelow(frames, Len(frames) - 1) \in Seq(Handlers)
  <1>1. frames \in Seq(Frames) /\ Len(frames) \in Nat \ {0}
    BY StackTypes
  <1>2. Len(frames) \in 0..Len(frames) /\ Len(frames) > 0
        /\ Len(frames) - 1 \in 0..Len(frames)
    BY <1>1
  <1>3. /\ BoundBelow(frames, Len(frames)) =
             BoundOver(frames[Len(frames)], BoundBelow(frames, Len(frames) - 1))
        /\ BoundBelow(frames, Len(frames) - 1) \in Seq(Handlers)
    BY <1>1, <1>2, BoundValues
  <1> QED BY <1>1, <1>3, StackTypes DEF Top, Last, Front, StackInv

(* The topmost frame returns, one that is no block's. *)
LEMMA PopInv ==
  ASSUME NlxInv, frames # <<>>, Top.kind # "catch",
         NEW u, IsLast(frames, "uwp", Len(frames) - 1, u)
  PROVE  /\ Front(frames) \in Seq(Frames)
         /\ Len(Front(frames)) = Len(frames) - 1
         /\ StackInv(Front(frames), blocks, u, curCatch,
                     BoundBelow(frames, Len(frames) - 1))
  <1> DEFINE p == Len(frames) - 1
  <1>1. p \in 0..Len(frames) /\ p \in Nat /\ p + 1 = Len(frames)
        /\ Front(frames) = SubSeq(frames, 1, p)
        /\ frames[p + 1].kind # "catch" /\ frames \in Seq(Frames)
    BY TopFacts, StackTypes
  <1>2. StackInv(frames, blocks, curUwp, curCatch, handlers)
    BY StackTypes
  <1> HIDE DEF p
  <1>3. LinksTo(frames, p, curCatch)
    <2>1. LinksTo(frames, p + 1, curCatch)
      BY <1>1, <1>2 DEF StackInv
    <2>2. PICK i \in 0..(p + 1) :
            /\ IsLast(frames, "catch", p + 1, i)
            /\ curCatch = IF i = 0 THEN NoBlock ELSE frames[i].block
      BY <2>1 DEF LinksTo
    <2>3. i \in 0..p /\ IsLast(frames, "catch", p, i)
      BY <1>1, <2>2 DEF IsLast
    <2> QED BY <2>2, <2>3 DEF LinksTo
  <1>4. ASSUME NEW d \in Blocks, blocks[d].valid
        PROVE  \E i \in 1..p : frames[i] = [kind |-> "catch", block |-> d]
    <2>1. PICK i \in 1..Len(frames) : frames[i] = [kind |-> "catch", block |-> d]
      BY <1>2, <1>4 DEF StackInv
    <2>2. i # p + 1
      BY <1>1, <2>1
    <2>3. i \in 1..p
      BY <1>1, <2>1, <2>2
    <2> QED BY <2>1, <2>3
  <1>5. IsLast(frames, "uwp", p, u)
    BY DEF p
  <1>6. /\ SubSeq(frames, 1, p) \in Seq(Frames)
        /\ Len(SubSeq(frames, 1, p)) = p
        /\ StackInv(SubSeq(frames, 1, p), blocks, u, curCatch,
                    BoundBelow(frames, p))
    BY <1>1, <1>2, <1>3, <1>4, <1>5, CutInv
  <1> QED BY <1>1, <1>6 DEF p

LEMMA UnbindHandlerInv ==
  ASSUME NlxInv, UnbindHandler
  PROVE  NlxInv'
  <1>1. /\ frames # <<>> /\ Top.kind = "binding" /\ frames' = Front(frames)
        /\ handlers' = Tail(handlers)
        /\ UNCHANGED <<blocks, curCatch, curUwp, fault>>
    BY DEF UnbindHandler, Returns
  <1> DEFINE hs == BoundBelow(frames, Len(frames) - 1)
  <1>2. handlers = <<Top.handler>> \o hs /\ hs \in Seq(Handlers)
        /\ Top.handler \in Handlers
    BY <1>1, TopFacts DEF BoundOver, Frames
  <1> HIDE DEF hs
  <1>3. handlers' = hs
    BY <1>1, <1>2
  <1>4. IsLast(frames, "uwp", Len(frames) - 1, curUwp)
    BY <1>1, TopFacts, StackTypes DEF StackInv, IsLast
  <1>5. /\ Front(frames) \in Seq(Frames)
        /\ StackInv(Front(frames), blocks, curUwp, curCatch, hs)
    BY <1>1, <1>4, PopInv DEF hs
  <1>6. NlxTypeOK'
    BY <1>1, <1>2, <1>3, <1>5 DEF NlxInv, NlxTypeOK
  <1> QED BY <1>1, <1>3, <1>5, <1>6 DEF NlxInv

LEMMA CleanupDoneInv ==
  ASSUME NlxInv, CleanupDone
  PROVE  NlxInv'
  <1>1. /\ frames # <<>> /\ Top.kind = "cleanup" /\ frames' = Front(frames)
        /\ UNCHANGED <<blocks, curCatch, curUwp, handlers, fault>>
    BY DEF CleanupDone, Returns
  <1>2. handlers = BoundBelow(frames, Len(frames) - 1)
    BY <1>1, TopFacts DEF BoundOver
  <1>3. IsLast(frames, "uwp", Len(frames) - 1, curUwp)
    BY <1>1, TopFacts, StackTypes DEF StackInv, IsLast
  <1>4. /\ Front(frames) \in Seq(Frames)
        /\ StackInv(Front(frames), blocks, curUwp, curCatch, handlers)
    BY <1>1, <1>2, <1>3, PopInv
  <1>5. NlxTypeOK'
    BY <1>1, <1>4 DEF NlxInv, NlxTypeOK
  <1> QED BY <1>1, <1>4, <1>5 DEF NlxInv

(* The innermost protected form is the topmost frame when that is one.     *)
LEMMA TopUwp ==
  ASSUME NlxInv, frames # <<>>, Top.kind = "uwp"
  PROVE  curUwp = Len(frames)
  BY TopFacts, StackTypes DEF StackInv, IsLast

LEMMA LeaveProtectedInv ==
  ASSUME NlxInv, LeaveProtected
  PROVE  NlxInv'
  <1> DEFINE x == [kind |-> "cleanup", cleanup |-> frames[curUwp].cleanup]
             g == Front(frames)
  <1>1. /\ frames # <<>> /\ Top.kind = "uwp" /\ frames' = Append(g, x)
        /\ curUwp' = frames[curUwp].prev
        /\ UNCHANGED <<blocks, curCatch, handlers, fault>>
    BY DEF LeaveProtected, Returns
  <1>2. frames[curUwp] = Top /\ Top \in Frames
    BY <1>1, TopUwp, TopFacts
  <1>3. x \in Frames /\ x.kind = "cleanup" /\ curUwp' \in Nat
    BY <1>1, <1>2 DEF Frames
  <1>4. IsLast(frames, "uwp", Len(frames) - 1, curUwp')
    BY <1>1, <1>2, TopFacts DEF FrameRight
  <1>5. handlers = BoundBelow(frames, Len(frames) - 1)
    BY <1>1, TopFacts DEF BoundOver
  <1>6. g \in Seq(Frames) /\ StackInv(g, blocks, curUwp', curCatch, handlers)
    BY <1>1, <1>4, <1>5, PopInv
  <1> HIDE DEF x, g
  <1>7. StackInv(frames', blocks, curUwp', curCatch, BoundOver(x, handlers))
    BY <1>1, <1>3, <1>6, PushOther
  <1>8. BoundOver(x, handlers) = handlers
    BY <1>3 DEF BoundOver
  <1>9. NlxTypeOK'
    BY <1>1, <1>3, <1>6 DEF NlxInv, NlxTypeOK
  <1> QED BY <1>1, <1>7, <1>8, <1>9 DEF NlxInv

LEMMA LeaveCatchInv ==
  ASSUME NlxInv, LeaveCatch
  PROVE  NlxInv'
  <1> DEFINE p == Len(frames) - 1  b == Top.block
  <1>1. /\ frames # <<>> /\ Top.kind = "catch" /\ frames' = Front(frames)
        /\ curCatch' = blocks[curCatch].prev
        /\ blocks' = [blocks EXCEPT ![curCatch] = NewBlock]
        /\ UNCHANGED <<curUwp, handlers, fault>>
    BY DEF LeaveCatch, Returns
  <1>2. b \in Blocks /\ frames[p + 1] = Top /\ p \in Nat /\ p + 1 = Len(frames)
    BY <1>1, TopFacts, StackTypes DEF Frames
  <1>3. curCatch = b
    <2>1. LinksTo(frames, p + 1, curCatch)
      BY <1>2, StackTypes DEF StackInv
    <2> QED BY <1>1, <1>2, <2>1 DEF LinksTo, IsLast
  <1>9. frames' = SubSeq(frames, 1, p) /\ p \in 0..Len(frames)
    BY <1>1, TopFacts
  <1> HIDE DEF b, p
  <1>4. \A d \in Blocks : blocks'[d] = IF d = b THEN NewBlock ELSE blocks[d]
    BY <1>1, <1>3, StackTypes
  <1>5. /\ blocks[b].fp = p + 1 /\ LinksTo(frames, p, curCatch')
        /\ handlers = BoundBelow(frames, p)
    BY <1>1, <1>2, <1>3, TopFacts DEF FrameRight, BoundOver, b, p
  <1>6. IsLast(frames, "uwp", p, curUwp)
    BY <1>1, <1>2, StackTypes DEF StackInv, IsLast
  <1>7. ASSUME NEW i \in 1..p, frames[i].kind = "catch"
        PROVE  blocks'[frames[i].block] = blocks[frames[i].block]
    <2>1. i \in 1..Len(frames) /\ i # p + 1
      BY <1>2
    <2>2. blocks[frames[i].block].fp = i
      BY <1>7, <2>1, StackTypes DEF StackInv, FrameRight
    <2>3. frames[i].block \in Blocks
      <3>1. frames[i] \in Frames
        BY <2>1, StackTypes
      <3> QED BY <1>7, <3>1 DEF Frames
    <2> QED BY <1>4, <1>5, <2>1, <2>2, <2>3
  <1>8. ASSUME NEW d \in Blocks, blocks'[d].valid
        PROVE  \E i \in 1..p : frames[i] = [kind |-> "catch", block |-> d]
    <2>1. d # b /\ blocks[d].valid
      BY <1>4, <1>8 DEF NewBlock
    <2>2. PICK i \in 1..Len(frames) : frames[i] = [kind |-> "catch", block |-> d]
      BY <2>1, StackTypes DEF StackInv
    <2>3. i # p + 1
      BY <1>2, <2>1, <2>2 DEF b
    <2>4. i \in 1..p
      BY <1>2, <2>2, <2>3
    <2> QED BY <2>2, <2>4
  <1>10. /\ frames' \in Seq(Frames)
         /\ StackInv(frames', blocks', curUwp, curCatch', BoundBelow(frames, p))
    BY ZenonT(60), <1>5, <1>6, <1>7, <1>8, <1>9, StackTypes, CutInv
  <1>11. NlxTypeOK'
    <2>1. NewBlock \in CatchBlocks
      BY DEF NewBlock, CatchBlocks
    <2>2. blocks[b] \in CatchBlocks
      BY <1>2, StackTypes
    <2> QED BY <1>1, <1>2, <1>3, <1>10, <2>1, <2>2
            DEF NlxInv, NlxTypeOK, CatchBlocks
  <1> QED BY <1>1, <1>5, <1>10, <1>11 DEF NlxInv

-----------------------------------------------------------------------------
(* Throwing. *)

(* The block outside of c, as LinkedFrom goes on. *)
PrevOf(c) == IF c = NoBlock THEN NoBlock ELSE blocks[c].prev

LEMMA LinkedRecursion ==
  ASSUME NlxInv, NEW n \in Nat
  PROVE  \E b : /\ b \in [0..n -> Blocks \cup {NoBlock}]
                /\ LinkedFrom(n) = b[n]
                /\ b[0] = curCatch
                /\ \A i \in 1..n : b[i] = PrevOf(b[i - 1])
  <1> DEFINE Things == Blocks \cup {NoBlock}
             F == [x \in (1..n) \X Things |-> PrevOf(x[2])]
             Body(b) == [i \in 0..n |-> IF i = 0 THEN curCatch
                                        ELSE IF b[i - 1] = NoBlock THEN NoBlock
                                        ELSE blocks[b[i - 1]].prev]
             back == CHOOSE b : b = Body(b)
  <1>1. curCatch \in Things /\ \A c \in Things : PrevOf(c) \in Things
    BY StackTypes DEF PrevOf, CatchBlocks
  <1> HIDE DEF Things
  <1>2. F \in [(1..n) \X Things -> Things]
    BY <1>1
  <1>3. \A i \in 1..n : \A v \in Things : F[<<i, v>>] = PrevOf(v)
    OBVIOUS
  <1>4. LinkedFrom(n) = back[n]
    BY DEF LinkedFrom
  <1> HIDE DEF F
  <1>5. PICK g \in [0..n -> Things] : Follows(g, n, curCatch, F)
    BY <1>1, <1>2, RecursionExists
  <1>6. \A i \in 1..n : g[i - 1] \in Things
    OBVIOUS
  <1>7. g = Body(g)
    BY <1>3, <1>5, <1>6 DEF Follows, PrevOf
  <1>8. back = Body(back)
    BY <1>7
  <1> HIDE DEF back
  <1>9. /\ DOMAIN back = 0..n /\ back[0] = curCatch
        /\ \A i \in 1..n : back[i] = PrevOf(back[i - 1])
    BY <1>8 DEF PrevOf
  <1>10. /\ g[0] = curCatch
         /\ \A i \in 1..n : g[i] = PrevOf(g[i - 1])
    BY <1>7 DEF PrevOf
  <1>11. ASSUME NEW i \in 0..n PROVE back[i] = g[i]
    <2>1. \A j \in 1..i : back[j - 1] = g[j - 1] => back[j] = g[j]
      BY <1>9, <1>10
    <2>2. i \in Nat /\ back[0] = g[0]
      BY <1>9, <1>10
    <2> HIDE DEF Body
    <2> QED BY <2>1, <2>2, AgreeingRecursions
  <1>12. back \in [0..n -> Things]
    <2>1. back = [i \in 0..n |-> back[i]]
      BY <1>8, <1>9
    <2> QED BY <1>11, <2>1
  <1> QED BY <1>4, <1>9, <1>12 DEF Things

LEMMA LinkedValues ==
  ASSUME NlxInv, NEW n \in Nat
  PROVE  /\ LinkedFrom(0) = curCatch
         /\ LinkedFrom(n) \in Blocks \cup {NoBlock}
         /\ LinkedFrom(n + 1) = PrevOf(LinkedFrom(n))
  <1>1. LinkedFrom(0) = curCatch
    BY LinkedRecursion
  <1>2. PICK b : /\ b \in [0..n -> Blocks \cup {NoBlock}]
                 /\ LinkedFrom(n) = b[n]
                 /\ b[0] = curCatch
                 /\ \A i \in 1..n : b[i] = PrevOf(b[i - 1])
    BY LinkedRecursion
  <1>3. PICK c : /\ c \in [0..(n + 1) -> Blocks \cup {NoBlock}]
                 /\ LinkedFrom(n + 1) = c[n + 1]
                 /\ c[0] = curCatch
                 /\ \A i \in 1..(n + 1) : c[i] = PrevOf(c[i - 1])
    <2>1. n + 1 \in Nat
      OBVIOUS
    <2> QED BY <2>1, LinkedRecursion
  <1>4. b[0] = c[0] /\ \A i \in 1..n : b[i - 1] = c[i - 1] => b[i] = c[i]
    BY <1>2, <1>3
  <1>5. b[n] = c[n]
    BY <1>4, AgreeingRecursions
  <1>6. c[n + 1] = PrevOf(c[n])
    <2>1. n + 1 \in 1..(n + 1) /\ (n + 1) - 1 = n
      OBVIOUS
    <2> QED BY <1>3, <2>1
  <1> QED BY <1>1, <1>2, <1>3, <1>5, <1>6

(***************************************************************************)
(* The i-th block of the chain is that of the catch frame at q (0: there   *)
(* is none left): the catch frames above q are those of the blocks before  *)
(* it in the chain, and no others.                                         *)
(***************************************************************************)
AtLink(i, q) ==
  /\ q \in 0..Len(frames)
  /\ q # 0 => frames[q].kind = "catch" /\ q + i <= Len(frames)
  /\ LinkedFrom(i) = IF q = 0 THEN NoBlock ELSE frames[q].block
  /\ \A j \in (q + 1)..Len(frames) :
       frames[j].kind = "catch" =>
         \E m \in 0..(i - 1) : LinkedFrom(m) = frames[j].block
  /\ \A m \in 0..(i - 1) :
       \/ LinkedFrom(m) = NoBlock
       \/ \E j \in (q + 1)..Len(frames) :
            frames[j].kind = "catch" /\ LinkedFrom(m) = frames[j].block

LEMMA LinkStep ==
  ASSUME NlxInv, NEW i \in Nat, NEW q, AtLink(i, q)
  PROVE  \E r : AtLink(i + 1, r)
  <1>1. LinkedFrom(i + 1) = PrevOf(LinkedFrom(i))
    BY LinkedValues
  <1>2. Len(frames) \in Nat
    BY StackTypes
  <1>3. CASE q = 0
    <2>1. LinkedFrom(i) = NoBlock /\ LinkedFrom(i + 1) = NoBlock
      BY <1>1, <1>3 DEF AtLink, PrevOf
    <2>2. \A m \in 0..i : m \in 0..(i - 1) \/ m = i
      OBVIOUS
    <2>3. AtLink(i + 1, 0)
      BY <1>2, <1>3, <2>1, <2>2 DEF AtLink
    <2> QED BY <2>3
  <1>4. CASE q # 0
    <2>1. /\ q \in 1..Len(frames) /\ frames[q].kind = "catch"
          /\ LinkedFrom(i) = frames[q].block /\ q + i <= Len(frames)
      BY <1>2, <1>4 DEF AtLink
    <2>2. frames[q].block \in Blocks
      <3>1. frames[q] \in Frames
        BY <2>1, StackTypes
      <3> QED BY <2>1, <3>1 DEF Frames
    <2>3. LinksTo(frames, q - 1, blocks[frames[q].block].prev)
      BY <2>1, StackTypes DEF StackInv, FrameRight
    <2>4. PICK r \in 0..(q - 1) :
            /\ IsLast(frames, "catch", q - 1, r)
            /\ blocks[frames[q].block].prev =
                 IF r = 0 THEN NoBlock ELSE frames[r].block
      BY <2>3 DEF LinksTo
    <2>5. LinkedFrom(i + 1) = IF r = 0 THEN NoBlock ELSE frames[r].block
      BY <1>1, <2>1, <2>2, <2>4, NlxAssumption DEF PrevOf
    <2>6. ASSUME NEW j \in (r + 1)..Len(frames), frames[j].kind = "catch"
          PROVE  \E m \in 0..i : LinkedFrom(m) = frames[j].block
      <3>1. j >= q
        BY <1>2, <2>1, <2>4, <2>6 DEF IsLast
      <3>2. CASE j = q
        BY <2>1, <3>2
      <3>3. CASE j # q
        <4>1. j \in (q + 1)..Len(frames)
          BY <1>2, <2>1, <2>6, <3>1, <3>3
        <4>2. PICK m \in 0..(i - 1) : LinkedFrom(m) = frames[j].block
          BY <2>6, <4>1 DEF AtLink
        <4>3. m \in 0..i
          OBVIOUS
        <4> QED BY <4>2, <4>3
      <3> QED BY <3>2, <3>3
    <2>7. ASSUME NEW m \in 0..i
          PROVE  \/ LinkedFrom(m) = NoBlock
                 \/ \E j \in (r + 1)..Len(frames) :
                      frames[j].kind = "catch" /\ LinkedFrom(m) = frames[j].block
      <3>1. CASE m = i
        <4>1. q \in (r + 1)..Len(frames)
          BY <1>2, <2>1, <2>4
        <4> QED BY <2>1, <3>1, <4>1
      <3>2. CASE m # i
        <4>1. m \in 0..(i - 1)
          BY <3>2
        <4>2. (q + 1)..Len(frames) \subseteq (r + 1)..Len(frames)
          BY <1>2, <2>1, <2>4
        <4> QED BY <4>1, <4>2 DEF AtLink
      <3> QED BY <3>1, <3>2
    <2>8. /\ r \in 0..Len(frames)
          /\ r # 0 => frames[r].kind = "catch" /\ r + (i + 1) <= Len(frames)
      BY <1>2, <2>1, <2>4 DEF IsLast
    <2>9. (i + 1) - 1 = i
      OBVIOUS
    <2>10. AtLink(i + 1, r)
      BY <2>5, <2>6, <2>7, <2>8, <2>9 DEF AtLink
    <2> QED BY <2>10
  <1> QED BY <1>3, <1>4

LEMMA EveryLink ==
  ASSUME NlxInv, NEW i \in Nat
  PROVE  \E q : AtLink(i, q)
  <1> DEFINE T == {n \in Nat : ~ \E q : AtLink(n, q)}
  <1>1. \E q : AtLink(0, q)
    <2>1. LinkedFrom(0) = curCatch
      BY LinkedValues
    <2>2. PICK q \in 0..Len(frames) :
            /\ IsLast(frames, "catch", Len(frames), q)
            /\ curCatch = IF q = 0 THEN NoBlock ELSE frames[q].block
      BY StackTypes DEF StackInv, LinksTo
    <2>3. AtLink(0, q)
      BY <2>1, <2>2, StackTypes DEF AtLink, IsLast
    <2> QED BY <2>3
  <1>2. ASSUME T # {} PROVE FALSE
    <2>1. PICK k \in T : \A m \in T : k <= m
      <3>1. T \in SUBSET Nat
        OBVIOUS
      <3> QED BY <1>2, <3>1, LeastNat
    <2>2. k # 0
      BY <1>1, <2>1
    <2>3. k - 1 \in Nat /\ k - 1 < k
      BY <2>2
    <2>4. PICK q : AtLink(k - 1, q)
      BY <2>1, <2>3
    <2>5. \E r : AtLink((k - 1) + 1, r)
      BY <2>3, <2>4, LinkStep
    <2>6. (k - 1) + 1 = k
      BY <2>3
    <2> QED BY <2>1, <2>5, <2>6
  <1> QED BY <1>2

(* unwind stops, at the latest when the chain ends. *)
LEMMA PassedStops ==
  ASSUME NlxInv, NEW c \in Blocks
  PROVE  /\ Passed(c) \in 0..Len(frames)
         /\ Stops(Passed(c)) \/ (Passed(c) > 0 /\ LinkedFrom(Passed(c) - 1) = c)
         /\ \A i \in 0..(Passed(c) - 1) :
              ~ Stops(i) /\ (i > 0 => LinkedFrom(i - 1) # c)
  <1> DEFINE P(n) == Stops(n) \/ (n > 0 /\ LinkedFrom(n - 1) = c)
             T == {n \in 0..Len(frames) : P(n)}
  <1>1. Len(frames) \in Nat
    BY StackTypes
  <1>2. Stops(Len(frames))
    <2>1. PICK q : AtLink(Len(frames), q)
      BY <1>1, EveryLink
    <2>2. q = 0
      BY <1>1, <2>1 DEF AtLink
    <2> QED BY <2>1, <2>2 DEF AtLink, Stops
  <1> HIDE DEF P
  <1>3. Len(frames) \in T /\ T \in SUBSET Nat
    BY <1>1, <1>2 DEF P
  <1>4. PICK n \in T : \A m \in T : n <= m
    BY <1>3, LeastNat
  <1>5. /\ n \in 0..Len(frames) /\ P(n)
        /\ \A i \in 0..(n - 1) : ~ P(i)
    BY <1>1, <1>4
  <1>6. \E m \in 0..Len(frames) :
          /\ Stops(m) \/ (m > 0 /\ LinkedFrom(m - 1) = c)
          /\ \A i \in 0..(m - 1) : ~ Stops(i) /\ (i > 0 => LinkedFrom(i - 1) # c)
    BY <1>5 DEF P
  <1> HIDE DEF T
  <1> QED BY <1>6 DEF Passed

(* The frames of the passed blocks are the catch frames from a on.         *)
PassedFrom(c, a) ==
  /\ \A j \in a..Len(frames) :
       frames[j].kind = "catch" => frames[j].block \in PassedBlocks(c)
  /\ \A d \in PassedBlocks(c) :
       d \in Blocks /\ blocks[d].fp >= a /\ blocks[d].uwp = curUwp

LEMMA CatchFrame ==
  ASSUME NlxInv, NEW j \in 1..Len(frames), frames[j].kind = "catch"
  PROVE  /\ frames[j].block \in Blocks
         /\ frames[j] = [kind |-> "catch", block |-> frames[j].block]
         /\ blocks[frames[j].block].valid
         /\ blocks[frames[j].block].fp = j
         /\ LinksTo(frames, j - 1, blocks[frames[j].block].prev)
         /\ IsLast(frames, "uwp", j - 1, blocks[frames[j].block].uwp)
         /\ blocks[frames[j].block].handlers = BoundBelow(frames, j - 1)
  <1>1. frames[j] \in Frames
    BY StackTypes
  <1> QED BY <1>1, StackTypes DEF Frames, StackInv, FrameRight

(* Where a throw to the block of the frame k ends: there, when no          *)
(* protected form is above it; else at the innermost protected form.       *)
LEMMA WhereUnwindStops ==
  ASSUME NlxInv, NEW k \in 1..Len(frames), frames[k].kind = "catch"
  PROVE  LET c == frames[k].block
             next == LinkedFrom(Passed(c))
         IN \/ /\ c \in PassedBlocks(c)
               /\ PassedFrom(c, k)
               /\ blocks[c].uwp = curUwp
            \/ /\ c \notin PassedBlocks(c)
               /\ next # NoBlock
               /\ curUwp > k /\ curUwp <= Len(frames)
               /\ frames[curUwp].kind = "uwp"
               /\ PassedFrom(c, curUwp)
               /\ LinksTo(frames, curUwp - 1, next)
  <1> DEFINE c == frames[k].block
             n == Passed(c)
             next == LinkedFrom(n)
  <1>1. Len(frames) \in Nat /\ curUwp \in Nat
    BY StackTypes
  <1>2. c \in Blocks /\ blocks[c].fp = k
    BY CatchFrame
  <1> HIDE DEF c
  <1>3. /\ n \in 0..Len(frames)
        /\ Stops(n) \/ (n > 0 /\ LinkedFrom(n - 1) = c)
        /\ \A i \in 0..(n - 1) : ~ Stops(i) /\ (i > 0 => LinkedFrom(i - 1) # c)
    BY <1>2, PassedStops
  <1>4. PassedBlocks(c) = {LinkedFrom(i) : i \in 0..(n - 1)}
    BY DEF PassedBlocks
  <1> HIDE DEF n
  <1>5. ASSUME NEW i \in 0..(n - 1)
        PROVE  LinkedFrom(i) # NoBlock /\ blocks[LinkedFrom(i)].uwp = curUwp
    BY <1>3 DEF Stops
  <1>6. CASE c \in PassedBlocks(c)
    <2>1. PICK i \in 0..(n - 1) : LinkedFrom(i) = c
      BY <1>4, <1>6
    <2>2. i = n - 1 /\ n > 0 /\ i \in Nat
      <3>1. i + 1 <= n /\ i + 1 > 0 /\ (i + 1) - 1 = i
        BY <1>1, <1>3
      <3>2. ~ (i + 1 \in 0..(n - 1))
        BY <1>3, <2>1, <3>1
      <3> QED BY <1>1, <1>3, <3>1, <3>2
    <2>3. PICK q : AtLink(i, q)
      BY <2>2, EveryLink
    <2>4. q = k
      <3>1. q # 0
        BY <1>2, <2>1, <2>3, NlxAssumption DEF AtLink
      <3>2. q \in 1..Len(frames) /\ frames[q].kind = "catch" /\ frames[q].block = c
        BY <1>1, <2>1, <2>3, <3>1 DEF AtLink
      <3> QED BY <1>2, <3>2, CatchFrame
    <2>5. ASSUME NEW j \in k..Len(frames), frames[j].kind = "catch"
          PROVE  frames[j].block \in PassedBlocks(c)
      <3>1. CASE j = k
        BY <1>6, <3>1 DEF c
      <3>2. CASE j # k
        <4>1. j \in (q + 1)..Len(frames)
          BY <1>1, <2>4, <2>5, <3>2
        <4>2. PICK m \in 0..(i - 1) : LinkedFrom(m) = frames[j].block
          BY <2>3, <2>5, <4>1 DEF AtLink
        <4>3. m \in 0..(n - 1)
          BY <1>3, <2>2
        <4> QED BY <1>4, <4>2, <4>3
      <3> QED BY <3>1, <3>2
    <2>6. ASSUME NEW d \in PassedBlocks(c)
          PROVE  d \in Blocks /\ blocks[d].fp >= k /\ blocks[d].uwp = curUwp
      <3>1. PICK m \in 0..(n - 1) : LinkedFrom(m) = d
        BY <1>4, <2>6
      <3>2. d # NoBlock /\ blocks[d].uwp = curUwp
        BY <1>5, <3>1
      <3>3. CASE m = i
        BY <1>1, <1>2, <2>1, <3>1, <3>2, <3>3
      <3>4. CASE m # i
        <4>1. m \in 0..(i - 1)
          BY <1>3, <2>2, <3>4
        <4>2. PICK j \in (q + 1)..Len(frames) :
                frames[j].kind = "catch" /\ d = frames[j].block
          BY <2>3, <3>1, <3>2, <4>1 DEF AtLink
        <4>3. j \in 1..Len(frames) /\ j >= k
          BY <1>1, <2>4, <4>2
        <4> QED BY <3>2, <4>2, <4>3, CatchFrame
      <3> QED BY <3>3, <3>4
    <2>7. blocks[c].uwp = curUwp
      BY <1>6, <2>6
    <2> QED BY <1>6, <2>5, <2>6, <2>7 DEF PassedFrom, c
  <1>7. CASE c \notin PassedBlocks(c)
    <2>1. Stops(n)
      <3>1. n > 0 => n - 1 \in 0..(n - 1)
        BY <1>3
      <3> QED BY <1>3, <1>4, <1>7, <3>1
    <2>2. PICK q : AtLink(n, q)
      BY <1>3, EveryLink
    <2>3. k <= q
      <3>1. ASSUME ~ (k <= q) PROVE FALSE
        <4>1. k \in (q + 1)..Len(frames)
          BY <1>1, <2>2, <3>1 DEF AtLink
        <4>2. \E m \in 0..(n - 1) : LinkedFrom(m) = c
          BY <2>2, <4>1 DEF AtLink, c
        <4> QED BY <1>4, <1>7, <4>2
      <3> QED BY <3>1
    <2>4. /\ q \in 1..Len(frames) /\ frames[q].kind = "catch"
          /\ next = frames[q].block
      BY <1>1, <2>2, <2>3 DEF AtLink
    <2>5. /\ frames[q].block \in Blocks
          /\ IsLast(frames, "uwp", q - 1, blocks[frames[q].block].uwp)
      BY <2>4, CatchFrame
    <2> HIDE DEF next
    <2>14. next # NoBlock /\ IsLast(frames, "uwp", q - 1, blocks[next].uwp)
      BY <2>4, <2>5, NlxAssumption
    <2>6. blocks[next].uwp # curUwp
      BY <2>1, <2>14 DEF Stops, next
    <2>7. IsLast(frames, "uwp", Len(frames), curUwp)
      BY StackTypes DEF StackInv
    <2>8. curUwp > q /\ curUwp <= Len(frames) /\ frames[curUwp].kind = "uwp"
      <3>1. ASSUME curUwp <= q - 1 PROVE FALSE
        <4>1. IsLast(frames, "uwp", q - 1, curUwp) /\ q - 1 \in Nat
          BY <1>1, <2>4, <2>7, <3>1 DEF IsLast
        <4>2. \A j : IsLast(frames, "uwp", q - 1, j) => curUwp = j
          BY <4>1, LastFacts
        <4>3. curUwp = blocks[next].uwp
          BY <2>14, <4>2
        <4> QED BY <2>6, <4>3
      <3>2. curUwp # q
        BY <2>4, <2>7 DEF IsLast
      <3> QED BY <1>1, <2>4, <2>7, <3>1, <3>2 DEF IsLast
    <2>9. ASSUME NEW j \in (q + 1)..Len(frames), frames[j].kind = "catch"
          PROVE  frames[j].block \in PassedBlocks(c) /\ j > curUwp
      <3>1. PICK m \in 0..(n - 1) : LinkedFrom(m) = frames[j].block
        BY <2>2, <2>9 DEF AtLink
      <3>2. blocks[frames[j].block].uwp = curUwp
        BY <1>5, <3>1
      <3>3. IsLast(frames, "uwp", j - 1, curUwp)
        <4>1. j \in 1..Len(frames)
          BY <1>1, <2>4, <2>9
        <4> QED BY <2>9, <3>2, <4>1, CatchFrame
      <3>4. j > curUwp
        BY <1>1, <2>4, <2>9, <3>3 DEF IsLast
      <3> QED BY <1>4, <3>1, <3>4
    <2>10. ASSUME NEW d \in PassedBlocks(c)
           PROVE  d \in Blocks /\ blocks[d].fp >= curUwp /\ blocks[d].uwp = curUwp
      <3>1. PICK m \in 0..(n - 1) : LinkedFrom(m) = d
        BY <1>4, <2>10
      <3>2. d # NoBlock /\ blocks[d].uwp = curUwp
        BY <1>5, <3>1
      <3>3. PICK j \in (q + 1)..Len(frames) :
              frames[j].kind = "catch" /\ d = frames[j].block
        BY <2>2, <3>1, <3>2 DEF AtLink
      <3>4. j > curUwp
        BY <2>9, <3>3
      <3>5. j \in 1..Len(frames)
        BY <1>1, <2>4, <3>3
      <3>6. d \in Blocks /\ blocks[d].fp = j
        BY <3>3, <3>5, CatchFrame
      <3> QED BY <1>1, <3>2, <3>4, <3>5, <3>6
    <2>11. PassedFrom(c, curUwp)
      <3>1. \A j \in curUwp..Len(frames) : j \in (q + 1)..Len(frames)
        BY <1>1, <2>4, <2>8
      <3> QED BY <2>9, <2>10, <3>1 DEF PassedFrom
    <2>12. LinksTo(frames, curUwp - 1, next)
      <3>1. q \in 0..(curUwp - 1) /\ q # 0
        BY <1>1, <2>4, <2>8
      <3>2. \A j \in (q + 1)..(curUwp - 1) : frames[j].kind # "catch"
        BY <1>1, <2>4, <2>8, <2>9
      <3>3. IsLast(frames, "catch", curUwp - 1, q)
        BY <2>4, <3>1, <3>2 DEF IsLast
      <3> QED BY <2>4, <3>1, <3>3 DEF LinksTo
    <2>13. curUwp > k
      BY <1>1, <2>3, <2>4, <2>8
    <2> QED BY <1>7, <2>14, <2>8, <2>11, <2>12, <2>13 DEF next, c, n
  <1> QED BY <1>6, <1>7 DEF c

(* The blocks that a throw to c passes are invalid. *)
BlocksPassed(c) ==
  blocks' = [d \in Blocks |-> IF d \in PassedBlocks(c) THEN NewBlock ELSE blocks[d]]

(* The blocks after the blocks of the frames from a on were passed.        *)
LEMMA PassedInvalid ==
  ASSUME NlxInv, NEW c \in Blocks, NEW a \in 1..Len(frames), PassedFrom(c, a),
         BlocksPassed(c)
  PROVE  /\ blocks' \in [Blocks -> CatchBlocks]
         /\ \A i \in 1..(a - 1) :
              frames[i].kind = "catch" =>
                blocks'[frames[i].block] = blocks[frames[i].block]
         /\ \A d \in Blocks : blocks'[d].valid =>
              \E i \in 1..(a - 1) : frames[i] = [kind |-> "catch", block |-> d]
  <1>1. Len(frames) \in Nat /\ a \in Nat /\ blocks \in [Blocks -> CatchBlocks]
    BY StackTypes
  <1>2. NewBlock \in CatchBlocks
    BY DEF NewBlock, CatchBlocks
  <1>3. /\ blocks' \in [Blocks -> CatchBlocks]
        /\ \A d \in Blocks : blocks'[d] = IF d \in PassedBlocks(c) THEN NewBlock
                                          ELSE blocks[d]
    BY <1>1, <1>2 DEF BlocksPassed
  <1>4. ASSUME NEW i \in 1..(a - 1), frames[i].kind = "catch"
        PROVE  blocks'[frames[i].block] = blocks[frames[i].block]
    <2>1. i \in 1..Len(frames) /\ ~ (i >= a)
      BY <1>1
    <2>2. frames[i].block \in Blocks /\ blocks[frames[i].block].fp = i
      BY <1>4, <2>1, CatchFrame
    <2>3. frames[i].block \notin PassedBlocks(c)
      BY <2>1, <2>2 DEF PassedFrom
    <2> QED BY <1>3, <2>2, <2>3
  <1>5. ASSUME NEW d \in Blocks, blocks'[d].valid
        PROVE  \E i \in 1..(a - 1) : frames[i] = [kind |-> "catch", block |-> d]
    <2>1. d \notin PassedBlocks(c) /\ blocks[d].valid
      BY <1>3, <1>5 DEF NewBlock
    <2>2. PICK i \in 1..Len(frames) : frames[i] = [kind |-> "catch", block |-> d]
      BY <2>1, StackTypes DEF StackInv
    <2>3. ~ (i \in a..Len(frames))
      BY <2>1, <2>2 DEF PassedFrom
    <2>4. i \in 1..(a - 1)
      BY <1>1, <2>3
    <2> QED BY <2>2, <2>4
  <1> QED BY <1>3, <1>4, <1>5

(* Every protected form on the stack is still there, or has just given way *)
(* to its own cleanup (the step of CleanupsRun).                           *)
CleanupsStep ==
  \A p \in DOMAIN frames :
    frames[p].kind = "uwp" =>
      /\ p \in DOMAIN frames'
      /\ \/ frames'[p] = frames[p]
         \/ /\ frames'[p].kind \in {"cleanup", "unwinding"}
            /\ frames'[p].cleanup = frames[p].cleanup
            /\ Len(frames') = p

(* A throw that arrives. *)
LEMMA LandInv ==
  ASSUME NlxInv, NEW k \in 1..Len(frames), frames[k].kind = "catch",
         NEW c, c = frames[k].block, PassedFrom(c, k), blocks[c].uwp = curUwp,
         BlocksPassed(c),
         Land(c)
  PROVE  NlxInv' /\ CleanupsStep
  <1> DEFINE p == k - 1
  <1>1. /\ c \in Blocks /\ blocks[c].fp = k
        /\ LinksTo(frames, p, blocks[c].prev)
        /\ IsLast(frames, "uwp", p, curUwp)
        /\ blocks[c].handlers = BoundBelow(frames, p)
    BY CatchFrame
  <1>2. /\ frames' = SubSeq(frames, 1, p)
        /\ curCatch' = blocks[c].prev /\ handlers' = BoundBelow(frames, p)
        /\ curUwp' = curUwp /\ fault' = fault
    BY <1>1 DEF Land, Below
  <1>3. p \in Nat /\ p \in 0..Len(frames) /\ p + 1 = k /\ Len(frames) \in Nat
    BY StackTypes
  <1>4. /\ blocks' \in [Blocks -> CatchBlocks]
        /\ \A i \in 1..p : frames[i].kind = "catch" =>
             blocks'[frames[i].block] = blocks[frames[i].block]
        /\ \A d \in Blocks : blocks'[d].valid =>
             \E i \in 1..p : frames[i] = [kind |-> "catch", block |-> d]
    BY <1>1, PassedInvalid
  <1> HIDE DEF p
  <1>5. /\ frames' \in Seq(Frames) /\ Len(frames') = p
        /\ StackInv(frames', blocks', curUwp, curCatch', handlers')
    <2>1. StackInv(frames, blocks, curUwp, curCatch, handlers)
          /\ frames \in Seq(Frames)
      BY StackTypes
    <2>2. LinksTo(frames, p, curCatch')
      BY <1>1, <1>2
    <2>3. /\ SubSeq(frames, 1, p) \in Seq(Frames)
          /\ Len(SubSeq(frames, 1, p)) = p
          /\ StackInv(SubSeq(frames, 1, p), blocks', curUwp, curCatch',
                      BoundBelow(frames, p))
      <3>1. IsLast(frames, "uwp", p, curUwp) /\ p \in 0..Len(frames)
        BY <1>1, <1>3
      <3> DEFINE d == blocks'
                 e == curCatch'
      <3>2. /\ \A i \in 1..p : frames[i].kind = "catch" =>
                 d[frames[i].block] = blocks[frames[i].block]
            /\ \A x \in Blocks : d[x].valid =>
                 \E i \in 1..p : frames[i] = [kind |-> "catch", block |-> x]
            /\ LinksTo(frames, p, e)
        BY <1>4, <2>2
      <3> HIDE DEF d, e
      <3>3. /\ SubSeq(frames, 1, p) \in Seq(Frames)
            /\ Len(SubSeq(frames, 1, p)) = p
            /\ StackInv(SubSeq(frames, 1, p), d, curUwp, e, BoundBelow(frames, p))
        BY ONLY <2>1, <3>1, <3>2, CutInv
      <3> QED BY <3>3 DEF d, e
    <2> QED BY <1>2, <2>3
  <1>6. NlxTypeOK'
    <2>1. blocks[c] \in CatchBlocks
      BY <1>1, StackTypes
    <2>2. curCatch' \in Blocks \cup {NoBlock}
      BY <1>2, <2>1 DEF CatchBlocks
    <2>3. handlers' \in Seq(Handlers)
      BY <1>2, <1>3, StackTypes, BoundValues
    <2> QED BY <1>2, <1>4, <1>5, <2>2, <2>3 DEF NlxInv, NlxTypeOK
  <1>7. ASSUME NEW i \in DOMAIN frames, frames[i].kind = "uwp"
        PROVE  i \in DOMAIN frames' /\ frames'[i] = frames[i]
    <2>1. IsLast(frames, "uwp", Len(frames), curUwp)
      BY StackTypes DEF StackInv
    <2>2. i \in 1..Len(frames)
      BY StackTypes
    <2>3. ~ (i \in (curUwp + 1)..Len(frames)) /\ curUwp <= p /\ curUwp \in Nat
      BY <1>1, <1>3, <1>7, <2>1 DEF IsLast
    <2>4. i \in 1..p
      BY <1>3, <2>2, <2>3
    <2> QED BY <1>2, <1>3, <1>5, <2>4, StackTypes
  <1> QED BY <1>2, <1>5, <1>6, <1>7 DEF NlxInv, CleanupsStep

(* A throw that runs a cleanup on its way. *)
LEMMA RunCleanupInv ==
  ASSUME NlxInv, NEW k \in 1..Len(frames), frames[k].kind = "catch",
         NEW c, c = frames[k].block, curUwp > k, curUwp <= Len(frames),
         frames[curUwp].kind = "uwp", PassedFrom(c, curUwp),
         LinksTo(frames, curUwp - 1, LinkedFrom(Passed(c))),
         BlocksPassed(c),
         RunCleanup(c)
  PROVE  NlxInv' /\ CleanupsStep
  <1> DEFINE p == curUwp - 1
             g == SubSeq(frames, 1, p)
             x == [kind |-> "unwinding", cleanup |-> frames[curUwp].cleanup,
                   to |-> c]
             e == LinkedFrom(Passed(c))
             hs == BoundBelow(frames, p)
  <1>1. /\ p \in Nat /\ p \in 0..Len(frames) /\ p + 1 = curUwp /\ k <= p
        /\ curUwp \in 1..Len(frames) /\ Len(frames) \in Nat
    BY StackTypes
  <1>2. c \in Blocks /\ frames[k] = [kind |-> "catch", block |-> c]
    BY CatchFrame
  <1>3. frames[curUwp] \in Frames
    BY <1>1, StackTypes
  <1>4. /\ IsLast(frames, "uwp", p, frames[curUwp].prev)
        /\ frames[curUwp].handlers = hs
    BY <1>1, StackTypes DEF StackInv, FrameRight
  <1>5. /\ frames' = Append(g, x)
        /\ curUwp' = frames[curUwp].prev /\ curCatch' = e
        /\ handlers' = hs /\ fault' = fault
    BY <1>4 DEF RunCleanup, Below
  <1>6. /\ x \in Frames /\ x.kind = "unwinding" /\ x.to = c
        /\ x.cleanup = frames[curUwp].cleanup /\ frames[curUwp].prev \in Nat
    BY <1>2, <1>3 DEF Frames
  <1>7. e \in Blocks \cup {NoBlock}
    <2>1. Passed(c) \in 0..Len(frames)
      BY <1>2, PassedStops
    <2>2. Passed(c) \in Nat
      BY <1>1, <2>1
    <2> QED BY <2>2, LinkedValues
  <1>8. hs \in Seq(Handlers)
    BY <1>1, StackTypes, BoundValues
  <1>9. LinksTo(frames, p, e)
    OBVIOUS
  <1>10. /\ blocks' \in [Blocks -> CatchBlocks]
         /\ \A i \in 1..p : frames[i].kind = "catch" =>
              blocks'[frames[i].block] = blocks[frames[i].block]
         /\ \A d \in Blocks : blocks'[d].valid =>
              \E i \in 1..p : frames[i] = [kind |-> "catch", block |-> d]
    BY <1>1, <1>2, PassedInvalid
  <1> HIDE DEF p, e, x
  <1>11. /\ g \in Seq(Frames) /\ Len(g) = p
         /\ StackInv(g, blocks', curUwp', e, hs)
    <2>1. StackInv(frames, blocks, curUwp, curCatch, handlers)
          /\ frames \in Seq(Frames)
      BY StackTypes
    <2>2. IsLast(frames, "uwp", p, curUwp')
      BY <1>4, <1>5
    <2> QED BY SMTT(60), <1>1, <1>9, <1>10, <2>1, <2>2, CutInv
  <1>12. \A i \in 1..p : g[i] = frames[i]
    BY <1>1, StackTypes
  <1> HIDE DEF g, hs
  <1>13. BoundOver(x, hs) = hs
    BY <1>6 DEF BoundOver
  <1>14. k \in 1..Len(g) /\ g[k] = [kind |-> "catch", block |-> x.to]
    <2>1. k \in 1..p
      BY <1>1
    <2>2. g[k] = frames[k] /\ x.to = c
      BY <1>6, <1>12, <2>1
    <2> QED BY <1>2, <1>11, <2>1, <2>2
  <1>15. StackInv(frames', blocks', curUwp', curCatch', handlers')
    <2>1. StackInv(Append(g, x), blocks', curUwp', e, BoundOver(x, hs))
      BY <1>6, <1>11, <1>14, PushOther
    <2> QED BY <1>5, <1>13, <2>1
  <1>16. frames' \in Seq(Frames) /\ Len(frames') = curUwp
         /\ frames'[curUwp] = x /\ \A i \in 1..p : frames'[i] = frames[i]
    <2>1. /\ Append(g, x) \in Seq(Frames) /\ Len(Append(g, x)) = p + 1
          /\ Append(g, x)[p + 1] = x
          /\ \A i \in 1..p : Append(g, x)[i] = g[i]
      BY <1>1, <1>6, <1>11
    <2> QED BY <1>1, <1>5, <1>12, <2>1
  <1>17. NlxTypeOK'
    BY <1>5, <1>6, <1>7, <1>8, <1>10, <1>16 DEF NlxInv, NlxTypeOK
  <1>18. ASSUME NEW i \in DOMAIN frames, frames[i].kind = "uwp"
         PROVE  /\ i \in DOMAIN frames'
                /\ \/ frames'[i] = frames[i]
                   \/ /\ frames'[i].kind \in {"cleanup", "unwinding"}
                      /\ frames'[i].cleanup = frames[i].cleanup
                      /\ Len(frames') = i
    <2>1. IsLast(frames, "uwp", Len(frames), curUwp)
      BY StackTypes DEF StackInv
    <2>2. i \in 1..Len(frames)
      BY StackTypes
    <2>3. ~ (i \in (curUwp + 1)..Len(frames))
      BY <1>18, <2>1 DEF IsLast
    <2>4. i \in 1..p \/ i = curUwp
      BY <1>1, <2>2, <2>3
    <2>5. i \in DOMAIN frames'
      BY <1>1, <1>16, <2>4
    <2> QED BY <1>6, <1>16, <2>4, <2>5
  <1> QED BY <1>5, <1>15, <1>17, <1>18 DEF NlxInv, CleanupsStep

(* A throw never comes to the end of a chain. *)
LEMMA UnwindInv ==
  ASSUME NlxInv, NEW k \in 1..Len(frames), frames[k].kind = "catch",
         Unwind(frames[k].block)
  PROVE  NlxInv' /\ CleanupsStep
  <1> DEFINE c == frames[k].block
  <1>1. BlocksPassed(c)
    BY DEF Unwind, BlocksPassed
  <1>2. CASE c \in PassedBlocks(c)
    <2>1. Land(c)
      BY <1>2 DEF Unwind
    <2>2. PassedFrom(c, k) /\ blocks[c].uwp = curUwp
      BY <1>2, WhereUnwindStops
    <2> QED BY <1>1, <2>1, <2>2, LandInv
  <1>3. CASE c \notin PassedBlocks(c)
    <2>1. /\ LinkedFrom(Passed(c)) # NoBlock
          /\ curUwp > k /\ curUwp <= Len(frames)
          /\ frames[curUwp].kind = "uwp"
          /\ PassedFrom(c, curUwp)
          /\ LinksTo(frames, curUwp - 1, LinkedFrom(Passed(c)))
      BY <1>3, WhereUnwindStops
    <2>2. curUwp # 0
      BY <2>1, StackTypes
    <2>3. RunCleanup(c)
      BY <1>3, <2>1, <2>2 DEF Unwind
    <2> QED BY <1>1, <2>1, <2>3, RunCleanupInv
  <1> QED BY <1>2, <1>3

LEMMA ThrowInv ==
  ASSUME NlxInv, NEW c \in Blocks, Throw(c)
  PROVE  NlxInv' /\ CleanupsStep
  <1>1. blocks[c].valid /\ Unwind(c)
    BY DEF Throw
  <1>2. PICK k \in 1..Len(frames) : frames[k] = [kind |-> "catch", block |-> c]
    BY <1>1, StackTypes DEF StackInv
  <1>3. frames[k].kind = "catch" /\ frames[k].block = c
    BY <1>2
  <1> QED BY <1>1, <1>3, UnwindInv

(* The block that a cleanup unwinds to is still there when it returns.     *)
LEMMA ContinueUnwindInv ==
  ASSUME NlxInv, ContinueUnwind
  PROVE  NlxInv' /\ CleanupsStep
  <1>1. frames # <<>> /\ Top.kind = "unwinding" /\ Unwind(Top.to)
    BY DEF ContinueUnwind, Returns
  <1>2. /\ FrameRight(frames, blocks, Len(frames)) /\ Top = frames[Len(frames)]
        /\ Len(frames) \in Nat
    BY <1>1, TopFacts, StackTypes
  <1>3. PICK k \in 1..(Len(frames) - 1) :
          frames[k] = [kind |-> "catch", block |-> Top.to]
    BY <1>1, <1>2 DEF FrameRight
  <1>4. k \in 1..Len(frames) /\ frames[k].kind = "catch" /\ frames[k].block = Top.to
    BY <1>2, <1>3
  <1> QED BY <1>1, <1>4, UnwindInv

-----------------------------------------------------------------------------
(* All steps. *)

(* Nothing else disturbs a protected form but its own return. *)
LEMMA OtherCleanups ==
  ASSUME NlxInv,
         \/ \E k \in Cleanups : EnterProtected(k)
         \/ \E c \in Blocks : EnterCatch(c)
         \/ \E h \in Handlers : BindHandler(h)
         \/ UnbindHandler \/ LeaveCatch \/ LeaveProtected \/ CleanupDone
  PROVE  CleanupsStep
  <1>1. frames \in Seq(Frames) /\ Len(frames) \in Nat /\ DOMAIN frames = 1..Len(frames)
    BY StackTypes
  <1>2. ASSUME NEW x, frames' = Append(frames, x) PROVE CleanupsStep
    <2>1. /\ DOMAIN frames' = 1..(Len(frames) + 1)
          /\ \A i \in 1..Len(frames) : frames'[i] = frames[i]
      BY <1>1, <1>2
    <2> QED BY <1>1, <2>1 DEF CleanupsStep
  <1>3. CASE \/ \E k \in Cleanups : EnterProtected(k)
             \/ \E c \in Blocks : EnterCatch(c)
             \/ \E h \in Handlers : BindHandler(h)
    BY <1>2, <1>3 DEF EnterProtected, EnterCatch, BindHandler
  <1>4. CASE UnbindHandler \/ LeaveCatch \/ CleanupDone
    <2>1. frames # <<>> /\ Top.kind # "uwp" /\ frames' = Front(frames)
      BY <1>4 DEF UnbindHandler, LeaveCatch, CleanupDone, Returns
    <2>2. Top = frames[Len(frames)] /\ frames' = SubSeq(frames, 1, Len(frames) - 1)
          /\ Len(frames) \in 1..Len(frames)
      BY <2>1, TopFacts
    <2>3. /\ DOMAIN frames' = 1..(Len(frames) - 1)
          /\ \A i \in 1..(Len(frames) - 1) : frames'[i] = frames[i]
      BY <1>1, <2>2
    <2>4. \A i \in DOMAIN frames : frames[i].kind = "uwp" => i \in 1..(Len(frames) - 1)
      BY <1>1, <2>1, <2>2
    <2> QED BY <2>3, <2>4 DEF CleanupsStep
  <1>5. CASE LeaveProtected
    <2> DEFINE x == [kind |-> "cleanup", cleanup |-> frames[curUwp].cleanup]
    <2>1. frames # <<>> /\ Top.kind = "uwp" /\ frames' = Append(Front(frames), x)
      BY <1>5 DEF LeaveProtected, Returns
    <2>2. curUwp = Len(frames) /\ Front(frames) = SubSeq(frames, 1, Len(frames) - 1)
          /\ Len(frames) \in 1..Len(frames)
      BY <2>1, TopUwp, TopFacts
    <2>3. x.kind = "cleanup" /\ x.cleanup = frames[Len(frames)].cleanup
      BY <2>2
    <2> HIDE DEF x
    <2>4. /\ Len(Front(frames)) = Len(frames) - 1
          /\ Front(frames) \in Seq(Frames)
          /\ \A i \in 1..(Len(frames) - 1) : Front(frames)[i] = frames[i]
      BY <1>1, <2>2
    <2>5. /\ DOMAIN frames' = 1..Len(frames) /\ Len(frames') = Len(frames)
          /\ frames'[Len(frames)] = x
          /\ \A i \in 1..(Len(frames) - 1) : frames'[i] = frames[i]
      <3> DEFINE g == Front(frames)  n == Len(frames) - 1
      <3>1. g \in Seq(Frames) /\ Len(g) = n /\ frames' = Append(g, x)
            /\ n + 1 = Len(frames) /\ n \in Nat
            /\ \A i \in 1..n : g[i] = frames[i]
        BY <1>1, <2>1, <2>2, <2>4
      <3> HIDE DEF g, n
      <3>2. /\ Len(Append(g, x)) = n + 1 /\ Append(g, x)[n + 1] = x
            /\ DOMAIN Append(g, x) = 1..(n + 1)
            /\ \A i \in 1..n : Append(g, x)[i] = g[i]
        BY <3>1
      <3>3. n = Len(frames) - 1
        BY DEF n
      <3> QED BY <3>1, <3>2, <3>3
    <2>6. \A i \in DOMAIN frames : i = Len(frames) \/ i \in 1..(Len(frames) - 1)
      BY <1>1
    <2> QED BY <1>1, <2>3, <2>5, <2>6 DEF CleanupsStep
  <1> QED BY <1>3, <1>4, <1>5

LEMMA NlxStep ==
  ASSUME NlxInv, [NlxNext]_nlxVars
  PROVE  NlxInv' /\ CleanupsStep
  <1>1. CASE UNCHANGED nlxVars
    <2>1. UNCHANGED <<frames, blocks, curCatch, curUwp, handlers, fault>>
      BY <1>1 DEF nlxVars
    <2>2. NlxInv'
      BY <2>1 DEF NlxInv, NlxTypeOK
    <2>3. CleanupsStep
      BY <2>1 DEF CleanupsStep
    <2> QED BY <2>2, <2>3
  <1>2. ASSUME NEW k \in Cleanups, EnterProtected(k) PROVE NlxInv' /\ CleanupsStep
    BY <1>2, EnterProtectedInv, OtherCleanups
  <1>3. ASSUME NEW c \in Blocks, EnterCatch(c) PROVE NlxInv' /\ CleanupsStep
    BY <1>3, EnterCatchInv, OtherCleanups
  <1>4. ASSUME NEW h \in Handlers, BindHandler(h) PROVE NlxInv' /\ CleanupsStep
    BY <1>4, BindHandlerInv, OtherCleanups
  <1>5. CASE UnbindHandler
    BY <1>5, UnbindHandlerInv, OtherCleanups
  <1>6. CASE LeaveCatch
    BY <1>6, LeaveCatchInv, OtherCleanups
  <1>7. CASE LeaveProtected
    BY <1>7, LeaveProtectedInv, OtherCleanups
  <1>8. CASE CleanupDone
    BY <1>8, CleanupDoneInv, OtherCleanups
  <1>9. ASSUME NEW c \in Blocks, Throw(c) PROVE NlxInv' /\ CleanupsStep
    BY <1>9, ThrowInv
  <1>10. CASE ContinueUnwind
    BY <1>10, ContinueUnwindInv
  <1> QED BY <1>1, <1>2, <1>3, <1>4, <1>5, <1>6, <1>7, <1>8, <1>9, <1>10 DEF NlxNext

LEMMA NlxStart ==
  ASSUME NlxInit
  PROVE  NlxInv
  <1>1. /\ frames = <<>> /\ blocks = [c \in Blocks |-> NewBlock]
        /\ curCatch = NoBlock /\ curUwp = 0 /\ handlers = <<>> /\ fault = FALSE
    BY DEF NlxInit
  <1>2. frames \in Seq(Frames) /\ Len(frames) = 0 /\ 0 \in 0..Len(frames)
    BY <1>1
  <1>3. handlers = BoundBelow(frames, Len(frames))
    BY <1>1, <1>2, BoundValues
  <1>4. \A d \in Blocks : ~ blocks[d].valid
    BY <1>1 DEF NewBlock
  <1>5. IsLast(frames, "uwp", Len(frames), curUwp)
    BY <1>1, <1>2 DEF IsLast
  <1>6. LinksTo(frames, Len(frames), curCatch)
    BY <1>1, <1>2 DEF LinksTo, IsLast
  <1>7. StackInv(frames, blocks, curUwp, curCatch, handlers)
    BY <1>2, <1>3, <1>4, <1>5, <1>6 DEF StackInv
  <1>8. NewBlock \in CatchBlocks
    BY DEF NewBlock, CatchBlocks
  <1>9. NlxTypeOK
    <2>1. blocks \in [Blocks -> CatchBlocks]
      BY <1>1, <1>8
    <2>2. frames \in Seq(Frames) /\ handlers \in Seq(Handlers)
      BY <1>1
    <2> QED BY <1>1, <2>1, <2>2 DEF NlxTypeOK
  <1> QED BY <1>1, <1>7, <1>9 DEF NlxInv

-----------------------------------------------------------------------------
(***************************************************************************)
(* Theorems.                                                               *)
(***************************************************************************)

(* The chains, the handlers and the valid blocks go with the stack in      *)
(* every state (nlx.c, handler.c).                                         *)
THEOREM NlxInvariance == NlxSpec => []NlxInv
  <1>1. NlxInit => NlxInv
    BY NlxStart
  <1>2. NlxInv /\ [NlxNext]_nlxVars => NlxInv'
    BY NlxStep
  <1> QED BY <1>1, <1>2, PTL DEF NlxSpec

(* The position that IsLast speaks of is the one that Innermost finds.     *)
LEMMA InnermostIs ==
  ASSUME NEW kind, NEW p \in Nat, NEW i, IsLast(frames, kind, p, i)
  PROVE  Innermost(kind, p) = IF i = 0 THEN {} ELSE {i}
  <1>1. CASE i = 0
    BY <1>1 DEF IsLast, Innermost
  <1>2. CASE i # 0
    <2>1. i \in Innermost(kind, p)
      BY <1>2 DEF IsLast, Innermost
    <2>2. ASSUME NEW j \in Innermost(kind, p) PROVE j = i
      <3>1. j \in 1..p /\ frames[j].kind = kind
            /\ \A m \in (j + 1)..p : frames[m].kind # kind
        BY DEF Innermost
      <3>2. i \in 1..p /\ frames[i].kind = kind
            /\ \A m \in (i + 1)..p : frames[m].kind # kind
        BY <1>2 DEF IsLast
      <3> QED BY <3>1, <3>2
    <2> QED BY <1>2, <2>1, <2>2
  <1> QED BY <1>1, <1>2

LEMMA UwpBelowIs ==
  ASSUME NEW p \in Nat, NEW i, IsLast(frames, "uwp", p, i)
  PROVE  UwpBelow(p) = i
  <1>1. Innermost("uwp", p) = IF i = 0 THEN {} ELSE {i}
    BY InnermostIs
  <1> QED BY <1>1 DEF UwpBelow

LEMMA BlockBelowIs ==
  ASSUME NEW p \in Nat, NEW c, LinksTo(frames, p, c)
  PROVE  BlockBelow(p) = c
  <1>1. PICK i \in 0..p : /\ IsLast(frames, "catch", p, i)
                          /\ c = IF i = 0 THEN NoBlock ELSE frames[i].block
    BY DEF LinksTo
  <1>2. Innermost("catch", p) = IF i = 0 THEN {} ELSE {i}
    BY <1>1, InnermostIs
  <1> QED BY <1>1, <1>2 DEF BlockBelow

LEMMA ChainsHold ==
  ASSUME NlxInv
  PROVE  ChainsFollowStack
  <1>1. Len(frames) \in Nat /\ ~ fault /\ DOMAIN frames = 1..Len(frames)
        /\ StackInv(frames, blocks, curUwp, curCatch, handlers)
    BY StackTypes
  <1>2. curCatch = BlockBelow(Len(frames))
    BY <1>1, BlockBelowIs DEF StackInv
  <1>3. curUwp = UwpBelow(Len(frames))
    BY <1>1, UwpBelowIs DEF StackInv
  <1>4. ASSUME NEW i \in 1..Len(frames), frames[i].kind = "catch"
        PROVE  /\ blocks[frames[i].block].fp = i
               /\ blocks[frames[i].block].prev = BlockBelow(i - 1)
               /\ blocks[frames[i].block].uwp = UwpBelow(i - 1)
    <2>1. /\ blocks[frames[i].block].fp = i
          /\ LinksTo(frames, i - 1, blocks[frames[i].block].prev)
          /\ IsLast(frames, "uwp", i - 1, blocks[frames[i].block].uwp)
      BY <1>4, CatchFrame
    <2>2. i - 1 \in Nat
      BY <1>1
    <2> QED BY <2>1, <2>2, BlockBelowIs, UwpBelowIs
  <1>5. ASSUME NEW i \in 1..Len(frames), frames[i].kind = "uwp"
        PROVE  frames[i].prev = UwpBelow(i - 1)
    <2>1. i - 1 \in Nat
      BY <1>1
    <2>2. FrameRight(frames, blocks, i)
      BY <1>1 DEF StackInv
    <2>3. IsLast(frames, "uwp", i - 1, frames[i].prev)
      BY <1>5, <2>2 DEF FrameRight
    <2> QED BY <2>1, <2>3, UwpBelowIs
  <1> QED BY <1>1, <1>2, <1>3, <1>4, <1>5 DEF ChainsFollowStack

(* cur_catch, cur_uwp and the prev links are the chains of the frames on   *)
(* the stack, and no throw comes to their end (catch, uwp, unwind).        *)
THEOREM ChainsRight == NlxSpec => []ChainsFollowStack
  <1>1. NlxInv => ChainsFollowStack
    BY ChainsHold
  <1> QED BY <1>1, NlxInvariance, PTL

(* A block is valid exactly while its frame is on the stack (unlink_catch, *)
(* unwind, and the test of validity in throw).                             *)
THEOREM ValidOnStack == NlxSpec => []ValidWhileOnStack
  <1>1. ASSUME NlxInv PROVE ValidWhileOnStack
    <2>1. DOMAIN frames = 1..Len(frames)
      BY <1>1, StackTypes
    <2>2. ASSUME NEW c \in Blocks, NEW i \in 1..Len(frames),
                 frames[i] = [kind |-> "catch", block |-> c]
          PROVE  blocks[c].valid
      <3>1. frames[i].kind = "catch" /\ frames[i].block = c
        BY <2>2
      <3> QED BY <1>1, <3>1, CatchFrame
    <2>3. ASSUME NEW c \in Blocks, blocks[c].valid
          PROVE  \E i \in 1..Len(frames) : frames[i] = [kind |-> "catch", block |-> c]
      BY <1>1, <2>3, StackTypes DEF StackInv
    <2> QED BY <2>1, <2>2, <2>3 DEF ValidWhileOnStack
  <1> QED BY <1>1, NlxInvariance, PTL

(* The handlers in force are those that the frames on the stack bind       *)
(* (push_handler, pop_handler, and what unwind restores).                  *)
THEOREM HandlersRight == NlxSpec => []HandlersFollowStack
  <1>1. NlxInv => HandlersFollowStack
    BY DEF NlxInv, StackInv, HandlersFollowStack
  <1> QED BY <1>1, NlxInvariance, PTL

(* A protected form gives way only to its own cleanup, whether it returns  *)
(* or is thrown past (do_uwp_cleanup, unwind).                             *)
THEOREM EveryCleanupRuns == NlxSpec => CleanupsRun
  <1>1. NlxInv /\ [NlxNext]_nlxVars =>
          [\A p \in DOMAIN frames :
             frames[p].kind = "uwp" =>
               /\ p \in DOMAIN frames'
               /\ \/ frames'[p] = frames[p]
                  \/ /\ frames'[p].kind \in {"cleanup", "unwinding"}
                     /\ frames'[p].cleanup = frames[p].cleanup
                     /\ Len(frames') = p]_nlxVars
    BY NlxStep DEF CleanupsStep
  <1> QED BY <1>1, NlxInvariance, PTL DEF NlxSpec, CleanupsRun
=============================================================================
