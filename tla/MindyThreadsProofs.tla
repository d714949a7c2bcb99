-------------------------- MODULE MindyThreadsProofs ------------------------
(***************************************************************************)
(* Proofs about MindyThreads, for any set of threads, locks and events.    *)
(***************************************************************************)
EXTENDS MindyThreads, QueueLemmas

(* What every operation on the thread tables preserves. *)
Consistent(s) ==
  /\ s \in VMStates
  /\ OnRing(s)
  /\ OnQueue(s)
  /\ CountsAgree(s)

(* What the operations on locks preserve. *)
LocksAgree(s) == WaitedAreLocked(s) /\ (OwnersOnly => OneOwner(s))

SameLocks(r, s) ==
  /\ r.locked = s.locked
  /\ r.owners = s.owners
  /\ \A l \in Locks : r.waiting[l] # <<>> => s.waiting[l] # <<>>

LEMMA SameLocksAgree ==
  ASSUME NEW r, NEW s, LocksAgree(s), SameLocks(r, s)
  PROVE  LocksAgree(r)
  BY DEF LocksAgree, SameLocks, WaitedAreLocked, OneOwner

(* The objects: a lock is not an event, and obj_False neither. *)
LEMMA QueuesDisjoint ==
  /\ \A o \in Queues : o \in Locks <=> o \notin Events
  /\ NoObj \notin Queues
  BY ObjectsAssumption DEF Queues

(* The other threads keep their status, datum and suspend count.           *)
OthersSame(r, s, t) ==
  \A u \in Threads \ {t} : /\ r.status[u] = s.status[u]
                           /\ r.datum[u] = s.datum[u]
                           /\ r.suspendCount[u] = s.suspendCount[u]

(* One thread changes its list, everything else stays where it is.         *)
LEMMA MoveConsistent ==
  ASSUME NEW s, Consistent(s), NEW r \in VMStates, NEW t \in Threads,
         OthersSame(r, s, t),
         IsQueue(r.runnable),
         t \in Range(r.runnable) <=> r.status[t] = "Running",
         \A u \in Threads \ {t} :
           u \in Range(r.runnable) <=> u \in Range(s.runnable),
         \A o \in Queues :
           /\ IsQueue(r.waiting[o])
           /\ t \in Range(r.waiting[o]) <=> WaitsFor(r, t, o)
           /\ \A u \in Threads \ {t} :
                u \in Range(r.waiting[o]) <=> u \in Range(s.waiting[o]),
         r.status[t] = "Running" => r.suspendCount[t] = 0,
         r.status[t] = "Suspended" => r.suspendCount[t] > 0
  PROVE  Consistent(r)
  <1>1. OnRing(r)
    BY DEF Consistent, OnRing, OthersSame
  <1>2. OnQueue(r)
    BY DEF Consistent, OnQueue, WaitsFor, OthersSame
  <1>3. CountsAgree(r)
    BY DEF Consistent, CountsAgree, OthersSame
  <1> QED BY <1>1, <1>2, <1>3 DEF Consistent

(* The lists of a consistent state, and where a thread is on them.         *)
LEMMA Lists ==
  ASSUME NEW s, Consistent(s)
  PROVE  /\ s.runnable \in Seq(Threads) /\ IsQueue(s.runnable)
         /\ \A o \in Queues : s.waiting[o] \in Seq(Threads)
                              /\ IsQueue(s.waiting[o])
         /\ \A t \in Threads :
              /\ t \in Range(s.runnable) <=> s.status[t] = "Running"
              /\ \A o \in Queues : t \in Range(s.waiting[o]) <=> WaitsFor(s, t, o)
              /\ s.status[t] = "Running" => s.suspendCount[t] = 0
              /\ s.status[t] = "Suspended" => s.suspendCount[t] > 0
  BY DEF Consistent, OnRing, OnQueue, CountsAgree, VMStates

-----------------------------------------------------------------------------
(* The ring. *)

(* suspend_thread takes a running thread off the ring, and does no more.   *)
LEMMA LeaveRing ==
  ASSUME NEW s, Consistent(s), NEW t \in Threads, s.status[t] = "Running"
  PROVE  /\ SuspendThread(s, t) \in VMStates
         /\ SuspendThread(s, t).runnable = Without(s.runnable, t)
         /\ SuspendThread(s, t).waiting = s.waiting
         /\ SuspendThread(s, t).locked = s.locked
         /\ SuspendThread(s, t).owners = s.owners
         /\ SuspendThread(s, t).current = s.current
         /\ SuspendThread(s, t).fault = s.fault
         /\ SuspendThread(s, t).status = s.status
         /\ SuspendThread(s, t).suspendCount = s.suspendCount
         /\ SuspendThread(s, t).datum = s.datum
         /\ IsQueue(Without(s.runnable, t))
         /\ Range(Without(s.runnable, t)) = Range(s.runnable) \ {t}
  <1>1. t \in Range(s.runnable) /\ s.runnable \in Seq(Threads)
        /\ IsQueue(s.runnable)
    BY Lists
  <1>2. /\ Without(s.runnable, t) \in Seq(Threads)
        /\ IsQueue(Without(s.runnable, t))
        /\ Range(Without(s.runnable, t)) = Range(s.runnable) \ {t}
    BY <1>1, WithoutQueue
  <1>3. SuspendThread(s, t) = [s EXCEPT !.runnable = Without(@, t)]
    BY <1>1 DEF SuspendThread
  <1>4. s \in VMStates
    BY DEF Consistent
  <1> QED BY <1>2, <1>3, <1>4 DEF VMStates

(* wakeup_thread for a thread that is on no list.                          *)
LEMMA WakeupConsistent ==
  ASSUME NEW s, Consistent(s), NEW t \in Threads,
         s.status[t] \in {"Unmade", "Suspended", "Debuggered"},
         NEW q \in VMStates,
         q.runnable = s.runnable, q.status = s.status, q.datum = s.datum,
         q.waiting = s.waiting, q.current = s.current, q.fault = s.fault,
         \A u \in Threads \ {t} : q.suspendCount[u] = s.suspendCount[u]
  PROVE  /\ Consistent(WakeupThread(q, t))
         /\ WakeupThread(q, t).locked = q.locked
         /\ WakeupThread(q, t).owners = q.owners
         /\ WakeupThread(q, t).waiting = s.waiting
         /\ WakeupThread(q, t).current = s.current
         /\ WakeupThread(q, t).fault = s.fault
         /\ OthersSame(WakeupThread(q, t), s, t)
  <1> DEFINE r == WakeupThread(q, t)
             n == q.suspendCount[t]
             status == IF n = 0 THEN "Running" ELSE "Suspended"
             ring == IF n = 0 THEN Append(s.runnable, t) ELSE s.runnable
  <1>1. n \in Nat
    BY DEF VMStates
  <1>2. /\ t \notin Range(s.runnable)
        /\ \A o \in Queues : t \notin Range(s.waiting[o])
    BY Lists DEF WaitsFor
  <1>3. r = [q EXCEPT !.runnable = ring, !.status[t] = status]
    BY DEF WakeupThread
  <1>4. /\ ring \in Seq(Threads) /\ IsQueue(ring)
        /\ t \in Range(ring) <=> status = "Running"
        /\ \A u \in Threads \ {t} : u \in Range(ring) <=> u \in Range(s.runnable)
    BY <1>2, Lists, AppendQueue
  <1>5. status \in Statuses
    BY DEF Statuses, LiveStatuses
  <1> HIDE DEF ring, status, r
  <1>6. /\ r \in VMStates
        /\ r.runnable = ring /\ r.status = [s.status EXCEPT ![t] = status]
        /\ r.suspendCount = q.suspendCount /\ r.datum = s.datum
        /\ r.locked = q.locked /\ r.owners = q.owners /\ r.waiting = s.waiting
        /\ r.current = s.current /\ r.fault = s.fault
    <2>1. [q.status EXCEPT ![t] = status] \in [Threads -> Statuses]
      BY <1>5 DEF VMStates
    <2> QED BY <1>3, <1>4, <2>1 DEF VMStates
  <1>7. r.status[t] = status /\ OthersSame(r, s, t)
    BY <1>6 DEF OthersSame, Consistent, VMStates
  <1>8. \A o \in Queues :
           /\ IsQueue(r.waiting[o])
           /\ t \in Range(r.waiting[o]) <=> WaitsFor(r, t, o)
           /\ \A u \in Threads \ {t} :
                u \in Range(r.waiting[o]) <=> u \in Range(s.waiting[o])
    <2>1. \A o \in Queues : ~ WaitsFor(r, t, o)
      BY <1>7 DEF WaitsFor, status
    <2> QED BY <1>2, <1>6, <2>1, Lists
  <1>9. /\ IsQueue(r.runnable)
        /\ t \in Range(r.runnable) <=> r.status[t] = "Running"
        /\ \A u \in Threads \ {t} :
             u \in Range(r.runnable) <=> u \in Range(s.runnable)
        /\ r.status[t] = "Running" => r.suspendCount[t] = 0
        /\ r.status[t] = "Suspended" => r.suspendCount[t] > 0
    BY <1>1, <1>4, <1>6, <1>7 DEF status
  <1>10. Consistent(r)
    BY <1>6, <1>7, <1>8, <1>9, MoveConsistent
  <1> QED BY <1>6, <1>7, <1>10 DEF r

(* A suspend count changes, and the thread stays where it is.              *)
LEMMA CountConsistent ==
  ASSUME NEW s, Consistent(s), NEW t \in Threads, NEW n \in Nat,
         s.status[t] = "Running" => n = 0,
         s.status[t] = "Suspended" => n > 0
  PROVE  Consistent([s EXCEPT !.suspendCount[t] = n])
  <1> DEFINE r == [s EXCEPT !.suspendCount[t] = n]
  <1>1. /\ r \in VMStates
        /\ r.runnable = s.runnable /\ r.status = s.status
        /\ r.datum = s.datum /\ r.waiting = s.waiting
        /\ r.suspendCount = [s.suspendCount EXCEPT ![t] = n]
    BY DEF Consistent, VMStates
  <1> HIDE DEF r
  <1>2. OnRing(r)
    BY <1>1 DEF Consistent, OnRing
  <1>3. OnQueue(r)
    BY <1>1 DEF Consistent, OnQueue, WaitsFor
  <1>4. CountsAgree(r)
    BY <1>1 DEF Consistent, CountsAgree, VMStates
  <1>5. Consistent(r)
    BY <1>1, <1>2, <1>3, <1>4 DEF Consistent
  <1> QED BY <1>5 DEF r

(* A running thread leaves the ring and is on no list afterwards.          *)
LEMMA ParkConsistent ==
  ASSUME NEW s, Consistent(s), NEW t \in Threads, s.status[t] = "Running",
         NEW r \in VMStates, OthersSame(r, s, t),
         r.runnable = Without(s.runnable, t), r.waiting = s.waiting,
         r.status[t] \notin {"Running", "Blocked", "Waiting"},
         r.status[t] = "Suspended" => r.suspendCount[t] > 0
  PROVE  Consistent(r)
  <1>1. /\ IsQueue(r.runnable)
        /\ t \in Range(r.runnable) <=> r.status[t] = "Running"
        /\ \A u \in Threads \ {t} :
             u \in Range(r.runnable) <=> u \in Range(s.runnable)
    <2>1. /\ IsQueue(Without(s.runnable, t))
          /\ Range(Without(s.runnable, t)) = Range(s.runnable) \ {t}
      BY LeaveRing
    <2> QED BY <2>1
  <1>2. \A o \in Queues :
           /\ IsQueue(r.waiting[o])
           /\ t \in Range(r.waiting[o]) <=> WaitsFor(r, t, o)
           /\ \A u \in Threads \ {t} :
                u \in Range(r.waiting[o]) <=> u \in Range(s.waiting[o])
    <2>1. \A o \in Queues : ~ WaitsFor(r, t, o) /\ ~ WaitsFor(s, t, o)
      BY DEF WaitsFor
    <2>2. \A o \in Queues : t \notin Range(s.waiting[o])
      BY <2>1, Lists
    <2> QED BY <2>1, <2>2, Lists
  <1> QED BY <1>1, <1>2, MoveConsistent

(* thread_stop. *)
LEMMA ThreadStopConsistent ==
  ASSUME NEW s, Consistent(s), NEW t \in Threads
  PROVE  /\ Consistent(ThreadStop(s, t))
         /\ SameLocks(ThreadStop(s, t), s)
         /\ ThreadStop(s, t).current = s.current
  <1> DEFINE r == ThreadStop(s, t)
  <1>1. s.suspendCount[t] \in Nat /\ s \in VMStates
    BY DEF Consistent, VMStates
  <1>2. CASE s.suspendCount[t] = 0 /\ s.status[t] = "Running"
    <2> DEFINE p == SuspendThread(s, t)
               q == [p EXCEPT !.status[t] = "Suspended"]
    <2>1. /\ p \in VMStates
          /\ p.runnable = Without(s.runnable, t) /\ p.waiting = s.waiting
          /\ p.locked = s.locked /\ p.owners = s.owners
          /\ p.current = s.current /\ p.status = s.status
          /\ p.suspendCount = s.suspendCount /\ p.datum = s.datum
      BY <1>2, LeaveRing
    <2> HIDE DEF p
    <2>2. /\ q \in VMStates
          /\ q.runnable = Without(s.runnable, t) /\ q.waiting = s.waiting
          /\ q.locked = s.locked /\ q.owners = s.owners
          /\ q.current = s.current
          /\ q.status = [s.status EXCEPT ![t] = "Suspended"]
          /\ q.suspendCount = s.suspendCount /\ q.datum = s.datum
      BY <2>1 DEF VMStates, Statuses, LiveStatuses
    <2>3. r = [q EXCEPT !.suspendCount[t] = @ + 1]
      BY <1>2 DEF ThreadStop, p
    <2> HIDE DEF q, r
    <2>b. [q.suspendCount EXCEPT ![t] = @ + 1] \in [Threads -> Nat]
      BY <2>2 DEF VMStates
    <2>4. /\ r \in VMStates
          /\ r.runnable = Without(s.runnable, t) /\ r.waiting = s.waiting
          /\ r.locked = s.locked /\ r.owners = s.owners
          /\ r.current = s.current
          /\ r.status = [s.status EXCEPT ![t] = "Suspended"]
          /\ r.suspendCount = [s.suspendCount EXCEPT ![t] = @ + 1]
          /\ r.datum = s.datum
      BY <2>2, <2>3, <2>b DEF VMStates
    <2>5. /\ OthersSame(r, s, t)
          /\ r.status[t] = "Suspended" /\ r.suspendCount[t] = 1
      BY <1>1, <1>2, <2>4 DEF OthersSame, VMStates
    <2>6. Consistent(r)
      BY <1>2, <2>4, <2>5, ParkConsistent
    <2> QED BY <2>4, <2>6 DEF SameLocks, r
  <1>3. CASE ~ (s.suspendCount[t] = 0 /\ s.status[t] = "Running")
    <2>1. r = [s EXCEPT !.suspendCount[t] = s.suspendCount[t] + 1]
      BY <1>3 DEF ThreadStop
    <2>2. s.status[t] # "Running"
      BY <1>3, Lists
    <2>3. Consistent(r)
      <3> DEFINE n == s.suspendCount[t] + 1
      <3>1. n \in Nat /\ n > 0
        BY <1>1
      <3> HIDE DEF n
      <3>2. Consistent([s EXCEPT !.suspendCount[t] = n])
        BY <2>2, <3>1, CountConsistent
      <3> QED BY <2>1, <3>2 DEF n
    <2>4. SameLocks(r, s) /\ r.current = s.current
      BY <1>1, <2>1 DEF SameLocks, VMStates
    <2> QED BY <2>3, <2>4
  <1> QED BY <1>2, <1>3

(* thread_make, for an id that was never used.                             *)
LEMMA ThreadMakeConsistent ==
  ASSUME NEW s, Consistent(s), NEW t \in Threads, s.status[t] = "Unmade"
  PROVE  /\ Consistent(ThreadMake(s, t))
         /\ SameLocks(ThreadMake(s, t), s)
         /\ OthersSame(ThreadMake(s, t), s, t)
         /\ ThreadMake(s, t).status[t] = "Suspended"
         /\ ThreadMake(s, t).current = s.current
         /\ ThreadMake(s, t).fault = s.fault
  <1> DEFINE q == [s EXCEPT !.status[t] = "Suspended"]
             r == ThreadMake(s, t)
  <1>1. s \in VMStates
    BY DEF Consistent
  <1>2. /\ q \in VMStates
        /\ q.runnable = s.runnable /\ q.waiting = s.waiting
        /\ q.locked = s.locked /\ q.owners = s.owners
        /\ q.current = s.current /\ q.fault = s.fault
        /\ q.status = [s.status EXCEPT ![t] = "Suspended"]
        /\ q.suspendCount = s.suspendCount /\ q.datum = s.datum
    BY <1>1 DEF VMStates, Statuses, LiveStatuses
  <1>3. r = [q EXCEPT !.suspendCount[t] = 1]
    BY <1>1 DEF ThreadMake, VMStates
  <1> HIDE DEF q, r
  <1>4. /\ r \in VMStates
        /\ r.runnable = s.runnable /\ r.waiting = s.waiting
        /\ r.locked = s.locked /\ r.owners = s.owners
        /\ r.current = s.current /\ r.fault = s.fault
        /\ r.status = [s.status EXCEPT ![t] = "Suspended"]
        /\ r.suspendCount = [s.suspendCount EXCEPT ![t] = 1]
        /\ r.datum = s.datum
    BY <1>2, <1>3 DEF VMStates
  <1>5. OthersSame(r, s, t) /\ r.status[t] = "Suspended" /\ r.suspendCount[t] = 1
    BY <1>1, <1>4 DEF OthersSame, VMStates
  <1>6. /\ IsQueue(r.runnable) /\ t \notin Range(r.runnable)
        /\ \A o \in Queues : /\ IsQueue(r.waiting[o])
                             /\ ~ WaitsFor(r, t, o)
                             /\ t \notin Range(r.waiting[o])
    BY <1>4, <1>5, Lists DEF WaitsFor
  <1>7. /\ t \in Range(r.runnable) <=> r.status[t] = "Running"
        /\ \A u \in Threads \ {t} :
             u \in Range(r.runnable) <=> u \in Range(s.runnable)
        /\ r.status[t] = "Running" => r.suspendCount[t] = 0
        /\ r.status[t] = "Suspended" => r.suspendCount[t] > 0
    BY <1>4, <1>5, <1>6
  <1>8. \A o \in Queues :
           /\ IsQueue(r.waiting[o])
           /\ t \in Range(r.waiting[o]) <=> WaitsFor(r, t, o)
           /\ \A u \in Threads \ {t} :
                u \in Range(r.waiting[o]) <=> u \in Range(s.waiting[o])
    BY <1>4, <1>6
  <1>9. Consistent(r)
    BY <1>4, <1>5, <1>6, <1>7, <1>8, MoveConsistent
  <1> QED BY <1>4, <1>5, <1>9 DEF r, SameLocks

(* thread_restart. *)
LEMMA ThreadRestartConsistent ==
  ASSUME NEW s, Consistent(s), NEW t \in Threads
  PROVE  /\ Consistent(ThreadRestart(s, t))
         /\ SameLocks(ThreadRestart(s, t), s)
         /\ OthersSame(ThreadRestart(s, t), s, t)
         /\ ThreadRestart(s, t).current = s.current
         /\ ThreadRestart(s, t).fault = s.fault
  <1> DEFINE r == ThreadRestart(s, t)
             n == s.suspendCount[t] - 1
             q == [s EXCEPT !.suspendCount[t] = n]
  <1>1. s.suspendCount[t] \in Nat /\ s \in VMStates
    BY DEF Consistent, VMStates
  <1>2. CASE n < 0
    BY <1>2 DEF ThreadRestart, SameLocks, OthersSame
  <1>3. CASE n >= 0
    <2>1. n \in Nat
      BY <1>1, <1>3
    <2> HIDE DEF n
    <2>2. /\ q \in VMStates
          /\ q.runnable = s.runnable /\ q.waiting = s.waiting
          /\ q.locked = s.locked /\ q.owners = s.owners
          /\ q.current = s.current /\ q.fault = s.fault
          /\ q.status = s.status /\ q.datum = s.datum
          /\ q.suspendCount = [s.suspendCount EXCEPT ![t] = n]
      BY <1>1, <2>1 DEF VMStates
    <2>3. OthersSame(q, s, t)
      BY <1>1, <2>2 DEF OthersSame, VMStates
    <2>4. CASE n = 0 /\ s.status[t] = "Suspended"
      <3>1. r = WakeupThread(q, t)
        BY <2>4 DEF ThreadRestart, n
      <3> HIDE DEF q
      <3>2. \A u \in Threads \ {t} : q.suspendCount[u] = s.suspendCount[u]
        BY <2>3 DEF OthersSame
      <3>3. /\ Consistent(WakeupThread(q, t))
            /\ WakeupThread(q, t).locked = q.locked
            /\ WakeupThread(q, t).owners = q.owners
            /\ WakeupThread(q, t).waiting = s.waiting
            /\ WakeupThread(q, t).current = s.current
            /\ WakeupThread(q, t).fault = s.fault
            /\ OthersSame(WakeupThread(q, t), s, t)
        BY <2>2, <2>4, <3>2, WakeupConsistent
      <3> QED BY <2>2, <3>1, <3>3 DEF SameLocks
    <2>5. CASE ~ (n = 0 /\ s.status[t] = "Suspended")
      <3>1. r = q
        BY <1>3, <2>1, <2>5 DEF ThreadRestart, n
      <3>2. s.status[t] # "Running" /\ (s.status[t] = "Suspended" => n > 0)
        <4>1. s.suspendCount[t] # 0
          BY <1>1, <2>1 DEF n
        <4>2. s.status[t] # "Running"
          BY <4>1, Lists
        <4> QED BY <2>1, <2>5, <4>2
      <3>3. Consistent(q)
        BY <2>1, <3>2, CountConsistent
      <3> QED BY <2>2, <2>3, <3>1, <3>3 DEF SameLocks
    <2> QED BY <2>4, <2>5
  <1> QED BY <1>1, <1>2, <1>3

(* thread_debuggered. *)
LEMMA ThreadDebuggeredConsistent ==
  ASSUME NEW s, Consistent(s), NEW t \in Threads, s.status[t] = "Running"
  PROVE  /\ Consistent(ThreadDebuggered(s, t))
         /\ SameLocks(ThreadDebuggered(s, t), s)
         /\ ThreadDebuggered(s, t).fault = s.fault
  <1> DEFINE p == SuspendThread(s, t)
             q == [p EXCEPT !.status[t] = "Debuggered"]
             r == ThreadDebuggered(s, t)
  <1>1. /\ p \in VMStates
        /\ p.runnable = Without(s.runnable, t) /\ p.waiting = s.waiting
        /\ p.locked = s.locked /\ p.owners = s.owners
        /\ p.fault = s.fault /\ p.status = s.status
        /\ p.suspendCount = s.suspendCount /\ p.datum = s.datum
    BY LeaveRing
  <1> HIDE DEF p
  <1>2. /\ q \in VMStates
        /\ q.runnable = Without(s.runnable, t) /\ q.waiting = s.waiting
        /\ q.locked = s.locked /\ q.owners = s.owners /\ q.fault = s.fault
        /\ q.status = [s.status EXCEPT ![t] = "Debuggered"]
        /\ q.suspendCount = s.suspendCount /\ q.datum = s.datum
    BY <1>1 DEF VMStates, Statuses, LiveStatuses
  <1>3. r = [q EXCEPT !.datum[t] = NoObj]
    BY <1>1 DEF ThreadDebuggered, VMStates, p
  <1> HIDE DEF q, r
  <1>4. /\ r \in VMStates
        /\ r.runnable = Without(s.runnable, t) /\ r.waiting = s.waiting
        /\ r.locked = s.locked /\ r.owners = s.owners /\ r.fault = s.fault
        /\ r.status = [s.status EXCEPT ![t] = "Debuggered"]
        /\ r.suspendCount = s.suspendCount
        /\ r.datum = [s.datum EXCEPT ![t] = NoObj]
    BY <1>2, <1>3 DEF VMStates
  <1>5. OthersSame(r, s, t) /\ r.status[t] = "Debuggered"
    BY <1>4 DEF OthersSame, Consistent, VMStates
  <1>6. Consistent(r)
    BY <1>4, <1>5, ParkConsistent
  <1> QED BY <1>4, <1>6 DEF SameLocks, r

-----------------------------------------------------------------------------
(* The queues of the locks and events. *)

(* A thread that waits has an object in its datum, and is on that queue.   *)
LEMMA Waiter ==
  ASSUME NEW s, Consistent(s), NEW t \in Threads, NEW o \in Queues,
         t \in Range(s.waiting[o])
  PROVE  /\ s.status[t] \in {"Blocked", "Waiting"}
         /\ s.datum[t] = o
         /\ t \notin Range(s.runnable)
         /\ \A p \in Queues \ {o} : t \notin Range(s.waiting[p])
  <1>1. WaitsFor(s, t, o)
    BY Lists
  <1>2. t \in Range(s.runnable) <=> s.status[t] = "Running"
    BY Lists
  <1>3. \A p \in Queues : t \in Range(s.waiting[p]) <=> WaitsFor(s, t, p)
    BY Lists
  <1> QED BY <1>1, <1>2, <1>3 DEF WaitsFor

(* The running thread goes to the end of a queue.                          *)
LEMMA EnqueueConsistent ==
  ASSUME NEW s, Consistent(s), NEW t \in Threads, s.status[t] = "Running",
         NEW o \in Queues, NEW x \in {"Blocked", "Waiting"},
         x = IF o \in Locks THEN "Blocked" ELSE "Waiting"
  PROVE  /\ Consistent(Enqueue(s, t, o, x))
         /\ Enqueue(s, t, o, x).waiting
              = [s.waiting EXCEPT ![o] = Append(@, t)]
         /\ Enqueue(s, t, o, x).locked = s.locked
         /\ Enqueue(s, t, o, x).owners = s.owners
         /\ Enqueue(s, t, o, x).current = s.current
         /\ Enqueue(s, t, o, x).fault = s.fault
         /\ OthersSame(Enqueue(s, t, o, x), s, t)
  <1> DEFINE p == SuspendThread(s, t)
             q1 == [p EXCEPT !.waiting[o] = Append(@, t)]
             q2 == [q1 EXCEPT !.status[t] = x]
             r == Enqueue(s, t, o, x)
             longer == Append(s.waiting[o], t)
  <1>1. /\ p \in VMStates
        /\ p.runnable = Without(s.runnable, t) /\ p.waiting = s.waiting
        /\ p.locked = s.locked /\ p.owners = s.owners
        /\ p.current = s.current
        /\ p.fault = s.fault /\ p.status = s.status
        /\ p.suspendCount = s.suspendCount /\ p.datum = s.datum
        /\ IsQueue(Without(s.runnable, t))
        /\ Range(Without(s.runnable, t)) = Range(s.runnable) \ {t}
    BY LeaveRing
  <1>2. \A v \in Queues : ~ WaitsFor(s, t, v) /\ t \notin Range(s.waiting[v])
    <2>1. \A v \in Queues : ~ WaitsFor(s, t, v)
      BY DEF WaitsFor
    <2> QED BY <2>1, Lists
  <1>3. /\ longer \in Seq(Threads) /\ IsQueue(longer)
        /\ Range(longer) = Range(s.waiting[o]) \cup {t}
    BY <1>2, Lists, AppendQueue
  <1>4. r = [q2 EXCEPT !.datum[t] = o]
    BY <1>1 DEF Enqueue, VMStates
  <1> HIDE DEF p
  <1>5. [p.waiting EXCEPT ![o] = Append(@, t)] = [s.waiting EXCEPT ![o] = longer]
    BY <1>1
  <1> HIDE DEF longer
  <1>6. [s.waiting EXCEPT ![o] = longer] \in [Queues -> Seq(Threads)]
    BY <1>3 DEF Consistent, VMStates
  <1>7. /\ q1 \in VMStates
        /\ q1.runnable = p.runnable
        /\ q1.waiting = [s.waiting EXCEPT ![o] = longer]
        /\ q1.locked = s.locked /\ q1.owners = s.owners
        /\ q1.current = s.current /\ q1.fault = s.fault
        /\ q1.status = s.status /\ q1.suspendCount = s.suspendCount
        /\ q1.datum = s.datum
    BY <1>1, <1>5, <1>6 DEF VMStates
  <1> HIDE DEF q1
  <1>8. /\ q2 \in VMStates
        /\ q2.runnable = p.runnable
        /\ q2.waiting = [s.waiting EXCEPT ![o] = longer]
        /\ q2.locked = s.locked /\ q2.owners = s.owners
        /\ q2.current = s.current /\ q2.fault = s.fault
        /\ q2.status = [s.status EXCEPT ![t] = x]
        /\ q2.suspendCount = s.suspendCount /\ q2.datum = s.datum
    BY <1>7 DEF VMStates, Statuses, LiveStatuses
  <1> HIDE DEF q2, r
  <1>9. /\ r \in VMStates
        /\ r.runnable = Without(s.runnable, t)
        /\ r.waiting = [s.waiting EXCEPT ![o] = longer]
        /\ r.locked = s.locked /\ r.owners = s.owners
        /\ r.current = s.current /\ r.fault = s.fault
        /\ r.status = [s.status EXCEPT ![t] = x]
        /\ r.suspendCount = s.suspendCount
        /\ r.datum = [s.datum EXCEPT ![t] = o]
    BY <1>1, <1>4, <1>8 DEF VMStates
  <1>10. OthersSame(r, s, t) /\ r.status[t] = x /\ r.datum[t] = o
    BY <1>9 DEF OthersSame, Consistent, VMStates
  <1>11. /\ IsQueue(r.runnable)
         /\ t \in Range(r.runnable) <=> r.status[t] = "Running"
         /\ \A u \in Threads \ {t} :
              u \in Range(r.runnable) <=> u \in Range(s.runnable)
         /\ r.status[t] = "Running" => r.suspendCount[t] = 0
         /\ r.status[t] = "Suspended" => r.suspendCount[t] > 0
    BY <1>1, <1>9, <1>10
  <1>12. \A v \in Queues :
           /\ IsQueue(r.waiting[v])
           /\ t \in Range(r.waiting[v]) <=> WaitsFor(r, t, v)
           /\ \A u \in Threads \ {t} :
                u \in Range(r.waiting[v]) <=> u \in Range(s.waiting[v])
    <2>1. \A v \in Queues : WaitsFor(r, t, v) <=> v = o
      BY <1>10 DEF WaitsFor
    <2>2. \A v \in Queues : r.waiting[v] = IF v = o THEN longer ELSE s.waiting[v]
      BY <1>9 DEF Consistent, VMStates
    <2> QED BY <1>2, <1>3, <2>1, <2>2, Lists
  <1>13. Consistent(r)
    BY <1>9, <1>10, <1>11, <1>12, MoveConsistent
  <1> QED BY <1>9, <1>10, <1>13 DEF r, longer

(* The head of a queue is taken off it and woken.                          *)
LEMMA WakeFirstConsistent ==
  ASSUME NEW s, Consistent(s), NEW o \in Queues, s.waiting[o] # <<>>
  PROVE  /\ Consistent(WakeFirst(s, o))
         /\ WakeFirst(s, o).waiting = [s.waiting EXCEPT ![o] = Tail(@)]
         /\ WakeFirst(s, o).locked = s.locked
         /\ WakeFirst(s, o).owners = s.owners
         /\ WakeFirst(s, o).current = s.current
         /\ WakeFirst(s, o).fault = s.fault
         /\ OthersSame(WakeFirst(s, o), s, Head(s.waiting[o]))
         /\ Head(s.waiting[o]) \in Threads
         /\ s.status[Head(s.waiting[o])] \in {"Blocked", "Waiting"}
  <1> DEFINE t == Head(s.waiting[o])
             shorter == Tail(s.waiting[o])
             q == [s EXCEPT !.waiting[o] = Tail(@)]
             n == s.suspendCount[t]
             status == IF n = 0 THEN "Running" ELSE "Suspended"
             ring == IF n = 0 THEN Append(s.runnable, t) ELSE s.runnable
             w1 == [q EXCEPT !.runnable = ring]
             w2 == [w1 EXCEPT !.status[t] = status]
             r == WakeFirst(s, o)
  <1>1. /\ t \in Threads /\ t \in Range(s.waiting[o])
        /\ shorter \in Seq(Threads) /\ IsQueue(shorter)
        /\ Range(shorter) = Range(s.waiting[o]) \ {t}
    BY Lists, TailQueue
  <1>2. s \in VMStates
    BY DEF Consistent
  <1> HIDE DEF t
  <1>3. /\ s.status[t] \in {"Blocked", "Waiting"}
        /\ t \notin Range(s.runnable)
        /\ \A p \in Queues \ {o} : t \notin Range(s.waiting[p])
    BY <1>1, Waiter
  <1>4. n \in Nat
    BY <1>1, <1>2 DEF VMStates
  <1>5. /\ ring \in Seq(Threads) /\ IsQueue(ring)
        /\ t \in Range(ring) <=> status = "Running"
        /\ \A u \in Threads \ {t} : u \in Range(ring) <=> u \in Range(s.runnable)
    BY <1>1, <1>3, Lists, AppendQueue
  <1>6. status \in Statuses
    BY DEF Statuses, LiveStatuses
  <1>7. /\ q \in VMStates
        /\ q.runnable = s.runnable
        /\ q.waiting = [s.waiting EXCEPT ![o] = shorter]
        /\ q.locked = s.locked /\ q.owners = s.owners
        /\ q.current = s.current /\ q.fault = s.fault
        /\ q.status = s.status /\ q.suspendCount = s.suspendCount
        /\ q.datum = s.datum
    <2>1. [s.waiting EXCEPT ![o] = shorter] \in [Queues -> Seq(Threads)]
      BY <1>1, <1>2 DEF VMStates
    <2> QED BY <1>2, <2>1 DEF VMStates
  <1>8. r = [w2 EXCEPT !.datum[t] = NoObj]
    <2>1. WakeupThread(q, t) = w2
      BY <1>7 DEF WakeupThread, VMStates
    <2> QED BY <2>1 DEF WakeFirst, t
  <1> HIDE DEF q, ring, status, n, shorter
  <1>9. /\ w1 \in VMStates
        /\ w1.runnable = ring
        /\ w1.waiting = [s.waiting EXCEPT ![o] = shorter]
        /\ w1.locked = s.locked /\ w1.owners = s.owners
        /\ w1.current = s.current /\ w1.fault = s.fault
        /\ w1.status = s.status /\ w1.suspendCount = s.suspendCount
        /\ w1.datum = s.datum
    BY <1>5, <1>7 DEF VMStates
  <1> HIDE DEF w1
  <1>10. /\ w2 \in VMStates
         /\ w2.runnable = ring
         /\ w2.waiting = [s.waiting EXCEPT ![o] = shorter]
         /\ w2.locked = s.locked /\ w2.owners = s.owners
         /\ w2.current = s.current /\ w2.fault = s.fault
         /\ w2.status = [s.status EXCEPT ![t] = status]
         /\ w2.suspendCount = s.suspendCount /\ w2.datum = s.datum
    <2>1. [s.status EXCEPT ![t] = status] \in [Threads -> Statuses]
      BY <1>2, <1>6 DEF VMStates
    <2> QED BY <1>9, <2>1 DEF VMStates
  <1> HIDE DEF w2, r
  <1>11. /\ r \in VMStates
         /\ r.runnable = ring
         /\ r.waiting = [s.waiting EXCEPT ![o] = shorter]
         /\ r.locked = s.locked /\ r.owners = s.owners
         /\ r.current = s.current /\ r.fault = s.fault
         /\ r.status = [s.status EXCEPT ![t] = status]
         /\ r.suspendCount = s.suspendCount
         /\ r.datum = [s.datum EXCEPT ![t] = NoObj]
    <2>1. [s.datum EXCEPT ![t] = NoObj] \in [Threads -> Queues \cup {NoObj}]
      BY <1>2 DEF VMStates
    <2> QED BY <1>8, <1>10, <2>1 DEF VMStates
  <1>12. OthersSame(r, s, t) /\ r.status[t] = status /\ r.datum[t] = NoObj
         /\ r.suspendCount[t] = n
    BY <1>1, <1>2, <1>11 DEF OthersSame, VMStates, n
  <1>13. /\ IsQueue(r.runnable)
         /\ t \in Range(r.runnable) <=> r.status[t] = "Running"
         /\ \A u \in Threads \ {t} :
              u \in Range(r.runnable) <=> u \in Range(s.runnable)
         /\ r.status[t] = "Running" => r.suspendCount[t] = 0
         /\ r.status[t] = "Suspended" => r.suspendCount[t] > 0
    BY <1>4, <1>5, <1>11, <1>12 DEF status
  <1>14. \A v \in Queues :
           /\ IsQueue(r.waiting[v])
           /\ t \in Range(r.waiting[v]) <=> WaitsFor(r, t, v)
           /\ \A u \in Threads \ {t} :
                u \in Range(r.waiting[v]) <=> u \in Range(s.waiting[v])
    <2>1. \A v \in Queues : ~ WaitsFor(r, t, v)
      BY <1>12, QueuesDisjoint DEF WaitsFor
    <2>2. \A v \in Queues : r.waiting[v] = IF v = o THEN shorter ELSE s.waiting[v]
      BY <1>2, <1>11 DEF VMStates
    <2> QED BY <1>1, <1>3, <2>1, <2>2, Lists
  <1>15. Consistent(r)
    BY <1>1, <1>11, <1>12, <1>13, <1>14, MoveConsistent
  <1> QED BY <1>1, <1>3, <1>11, <1>12, <1>15 DEF r, t, shorter

(* Nobody is stopped who was running.                                      *)
KeepsRunning(r, s) ==
  \A u \in Threads : s.status[u] = "Running" => r.status[u] = "Running"

(* What the lists say depends on neither the locks nor current nor fault.  *)
LEMMA ListsConsistent ==
  ASSUME NEW s, Consistent(s), NEW r \in VMStates,
         r.runnable = s.runnable, r.waiting = s.waiting,
         r.status = s.status, r.datum = s.datum,
         r.suspendCount = s.suspendCount
  PROVE  Consistent(r)
  BY DEF Consistent, OnRing, OnQueue, WaitsFor, CountsAgree

(* lock_grab, by the running thread.                                       *)
LEMMA LockGrabConsistent ==
  ASSUME NEW s, Consistent(s), LocksAgree(s), NEW t \in Threads,
         s.status[t] = "Running", NEW l \in Locks
  PROVE  /\ Consistent(LockGrab(s, t, l))
         /\ LocksAgree(LockGrab(s, t, l))
         /\ LockGrab(s, t, l).current = s.current
         /\ LockGrab(s, t, l).fault = s.fault
         /\ ~ s.locked[l] => LockGrab(s, t, l).status = s.status
  <1> DEFINE r == LockGrab(s, t, l)
  <1>1. s \in VMStates /\ l \in Queues
    BY DEF Consistent, Queues
  <1>2. CASE s.locked[l]
    <2> DEFINE q == Enqueue(s, t, l, "Blocked")
    <2>1. /\ Consistent(q)
          /\ q.waiting = [s.waiting EXCEPT ![l] = Append(@, t)]
          /\ q.locked = s.locked /\ q.owners = s.owners
          /\ q.current = s.current /\ q.fault = s.fault
      <3>1. "Blocked" = IF l \in Locks THEN "Blocked" ELSE "Waiting"
        OBVIOUS
      <3>2. "Blocked" \in {"Blocked", "Waiting"}
        OBVIOUS
      <3> HIDE DEF q
      <3> QED BY <1>1, <3>1, <3>2, EnqueueConsistent DEF q
    <2>2. r = q
      BY <1>2 DEF LockGrab
    <2> HIDE DEF q
    <2>3. \A k \in Locks : k # l => q.waiting[k] = s.waiting[k]
      BY <1>1, <2>1 DEF VMStates, Queues
    <2>4. LocksAgree(q)
      BY <1>2, <2>1, <2>3 DEF LocksAgree, WaitedAreLocked, OneOwner
    <2> QED BY <1>2, <2>1, <2>2, <2>4
  <1>3. CASE ~ s.locked[l]
    <2> DEFINE q == [s EXCEPT !.locked[l] = TRUE]
               mine == s.owners[l] \cup {t}
    <2>1. r = [q EXCEPT !.owners[l] = mine]
      BY <1>1, <1>3 DEF LockGrab, VMStates
    <2>2. mine \in SUBSET Threads
      BY <1>1 DEF VMStates
    <2>3. /\ q \in VMStates /\ q.locked = [s.locked EXCEPT ![l] = TRUE]
          /\ q.runnable = s.runnable /\ q.waiting = s.waiting
          /\ q.status = s.status /\ q.datum = s.datum
          /\ q.suspendCount = s.suspendCount /\ q.owners = s.owners
          /\ q.current = s.current /\ q.fault = s.fault
      BY <1>1 DEF VMStates
    <2> HIDE DEF q, mine, r
    <2>4. /\ r \in VMStates /\ r.locked = [s.locked EXCEPT ![l] = TRUE]
          /\ r.runnable = s.runnable /\ r.waiting = s.waiting
          /\ r.status = s.status /\ r.datum = s.datum
          /\ r.suspendCount = s.suspendCount
          /\ r.owners = [s.owners EXCEPT ![l] = mine]
          /\ r.current = s.current /\ r.fault = s.fault
      BY <2>1, <2>2, <2>3 DEF VMStates
    <2>5. Consistent(r)
      BY <2>4, ListsConsistent
    <2>6. WaitedAreLocked(r)
      BY <1>1, <2>4 DEF LocksAgree, WaitedAreLocked, VMStates
    <2>7. ASSUME OwnersOnly PROVE OneOwner(r)
      <3>1. OneOwner(s) /\ s.owners[l] = {}
        BY <1>3, <2>7 DEF LocksAgree, OneOwner
      <3>2. mine = {t}
        BY <3>1 DEF mine
      <3>3. \A k \in Locks :
            /\ r.locked[k] = IF k = l THEN TRUE ELSE s.locked[k]
            /\ r.owners[k] = IF k = l THEN {t} ELSE s.owners[k]
        BY <1>1, <2>4, <3>2 DEF VMStates
      <3> QED BY ZenonT(60), <3>1, <3>3 DEF OneOwner
    <2> QED BY <2>4, <2>5, <2>6, <2>7 DEF LocksAgree, r
  <1> QED BY <1>2, <1>3

(* lock_release: t gives the lock up, to the first waiter if there is one. *)
LEMMA LockReleaseConsistent ==
  ASSUME NEW s, Consistent(s), LocksAgree(s), NEW t \in Threads,
         NEW l \in Locks, s.locked[l], OwnersOnly => t \in s.owners[l]
  PROVE  /\ Consistent(LockRelease(s, t, l))
         /\ LocksAgree(LockRelease(s, t, l))
         /\ LockRelease(s, t, l).current = s.current
         /\ LockRelease(s, t, l).fault = s.fault
         /\ KeepsRunning(LockRelease(s, t, l), s)
  <1> DEFINE r == LockRelease(s, t, l)
  <1>1. s \in VMStates /\ l \in Queues
    BY DEF Consistent, Queues
  <1>2. CASE s.waiting[l] # <<>>
    <2> DEFINE u == Head(s.waiting[l])
               q == WakeFirst(s, l)
               mine == (s.owners[l] \ {t}) \cup {u}
    <2>1. /\ Consistent(q)
          /\ q.waiting = [s.waiting EXCEPT ![l] = Tail(@)]
          /\ q.locked = s.locked /\ q.owners = s.owners
          /\ q.current = s.current /\ q.fault = s.fault
          /\ OthersSame(q, s, u) /\ u \in Threads
          /\ s.status[u] \in {"Blocked", "Waiting"}
      <3> HIDE DEF u, q
      <3> QED BY <1>1, <1>2, WakeFirstConsistent DEF u, q
    <2>2. r = [q EXCEPT !.owners[l] = mine]
      BY <1>2, <2>1 DEF LockRelease
    <2>3. mine \in SUBSET Threads
      BY <1>1, <2>1 DEF VMStates
    <2> HIDE DEF q, mine, u, r
    <2>4. q \in VMStates
      BY <2>1 DEF Consistent
    <2>5. /\ r \in VMStates /\ r.locked = s.locked
          /\ r.runnable = q.runnable /\ r.waiting = q.waiting
          /\ r.status = q.status /\ r.datum = q.datum
          /\ r.suspendCount = q.suspendCount
          /\ r.owners = [s.owners EXCEPT ![l] = mine]
          /\ r.current = s.current /\ r.fault = s.fault
      BY <2>1, <2>2, <2>3, <2>4 DEF VMStates
    <2>6. Consistent(r)
      BY <2>1, <2>5, ListsConsistent
    <2>7. \A k \in Locks : k # l => r.waiting[k] = s.waiting[k]
      BY <1>1, <2>1, <2>5 DEF VMStates, Queues
    <2>8. WaitedAreLocked(r)
      BY <2>5, <2>7 DEF LocksAgree, WaitedAreLocked
    <2>9. ASSUME OwnersOnly PROVE OneOwner(r)
      <3>1. OneOwner(s) /\ s.owners[l] = {t}
        BY <2>9 DEF LocksAgree, OneOwner
      <3>2. mine = {u}
        BY <3>1 DEF mine
      <3>3. \A k \in Locks : r.owners[k] = IF k = l THEN {u} ELSE s.owners[k]
        BY <1>1, <2>5, <3>2 DEF VMStates
      <3> QED BY <2>5, <3>1, <3>3 DEF OneOwner
    <2>10. KeepsRunning(r, s)
      BY <2>1, <2>5 DEF KeepsRunning, OthersSame
    <2> QED BY <2>5, <2>6, <2>8, <2>9, <2>10 DEF LocksAgree, r
  <1>3. CASE s.waiting[l] = <<>>
    <2> DEFINE q == [s EXCEPT !.locked[l] = FALSE]
               mine == s.owners[l] \ {t}
    <2>1. r = [q EXCEPT !.owners[l] = mine]
      BY <1>1, <1>3 DEF LockRelease, VMStates
    <2>2. mine \in SUBSET Threads
      BY <1>1 DEF VMStates
    <2>3. /\ q \in VMStates /\ q.locked = [s.locked EXCEPT ![l] = FALSE]
          /\ q.runnable = s.runnable /\ q.waiting = s.waiting
          /\ q.status = s.status /\ q.datum = s.datum
          /\ q.suspendCount = s.suspendCount /\ q.owners = s.owners
          /\ q.current = s.current /\ q.fault = s.fault
      BY <1>1 DEF VMStates
    <2> HIDE DEF q, mine, r
    <2>4. /\ r \in VMStates /\ r.locked = [s.locked EXCEPT ![l] = FALSE]
          /\ r.runnable = s.runnable /\ r.waiting = s.waiting
          /\ r.status = s.status /\ r.datum = s.datum
          /\ r.suspendCount = s.suspendCount
          /\ r.owners = [s.owners EXCEPT ![l] = mine]
          /\ r.current = s.current /\ r.fault = s.fault
      BY <2>1, <2>2, <2>3 DEF VMStates
    <2>5. Consistent(r)
      BY <2>4, ListsConsistent
    <2>6. WaitedAreLocked(r)
      BY <1>1, <1>3, <2>4 DEF LocksAgree, WaitedAreLocked, VMStates
    <2>7. ASSUME OwnersOnly PROVE OneOwner(r)
      <3>1. OneOwner(s) /\ s.owners[l] = {t}
        BY <2>7 DEF LocksAgree, OneOwner
      <3>2. mine = {}
        BY <3>1 DEF mine
      <3>3. \A k \in Locks :
            /\ r.locked[k] = IF k = l THEN FALSE ELSE s.locked[k]
            /\ r.owners[k] = IF k = l THEN {} ELSE s.owners[k]
        <4>1. DOMAIN s.locked = Locks /\ DOMAIN s.owners = Locks
          BY <1>1 DEF VMStates
        <4>2. \A k \in Locks : r.owners[k] = IF k = l THEN {} ELSE s.owners[k]
          BY <2>4, <3>2, <4>1
        <4>3. \A k \in Locks : r.locked[k] = IF k = l THEN FALSE ELSE s.locked[k]
          BY <2>4, <4>1
        <4> QED BY <4>2, <4>3
      <3> QED BY ZenonT(60), <3>1, <3>3 DEF OneOwner
    <2>8. KeepsRunning(r, s)
      BY <2>4 DEF KeepsRunning
    <2> QED BY <2>4, <2>5, <2>6, <2>7, <2>8 DEF LocksAgree, r
  <1> QED BY <1>2, <1>3

(* event_wait: the running thread waits, and gives up a lock it holds.     *)
LEMMA EventWaitConsistent ==
  ASSUME NEW s, Consistent(s), LocksAgree(s), NEW t \in Threads,
         s.status[t] = "Running", NEW e \in Events,
         NEW l \in Locks \cup {NoObj},
         l # NoObj => s.locked[l] /\ (OwnersOnly => t \in s.owners[l])
  PROVE  /\ Consistent(EventWait(s, t, e, l))
         /\ LocksAgree(EventWait(s, t, e, l))
         /\ EventWait(s, t, e, l).current = s.current
         /\ EventWait(s, t, e, l).fault = s.fault
  <1> DEFINE q == Enqueue(s, t, e, "Waiting")
  <1>1. e \in Queues /\ e \notin Locks /\ s \in VMStates
    BY QueuesDisjoint DEF Queues, Consistent
  <1>2. /\ Consistent(q)
        /\ q.waiting = [s.waiting EXCEPT ![e] = Append(@, t)]
        /\ q.locked = s.locked /\ q.owners = s.owners
        /\ q.current = s.current /\ q.fault = s.fault
    <2>1. "Waiting" = IF e \in Locks THEN "Blocked" ELSE "Waiting"
      BY <1>1
    <2>2. "Waiting" \in {"Blocked", "Waiting"}
      OBVIOUS
    <2> HIDE DEF q
    <2> QED BY <1>1, <2>1, <2>2, EnqueueConsistent DEF q
  <1>3. EventWait(s, t, e, l) = IF l = NoObj THEN q ELSE LockRelease(q, t, l)
    BY DEF EventWait
  <1> HIDE DEF q
  <1>4. \A k \in Locks : q.waiting[k] = s.waiting[k]
    BY <1>1, <1>2 DEF VMStates, Queues
  <1>5. LocksAgree(q)
    BY <1>2, <1>4, SameLocksAgree DEF SameLocks
  <1>6. CASE l = NoObj
    BY <1>2, <1>3, <1>5, <1>6
  <1>7. CASE l # NoObj
    <2>1. l \in Locks /\ q.locked[l] /\ (OwnersOnly => t \in q.owners[l])
      BY <1>2, <1>7
    <2>2. /\ Consistent(LockRelease(q, t, l))
          /\ LocksAgree(LockRelease(q, t, l))
          /\ LockRelease(q, t, l).current = q.current
          /\ LockRelease(q, t, l).fault = q.fault
      BY <1>2, <1>5, <2>1, LockReleaseConsistent
    <2> QED BY <1>2, <1>3, <1>7, <2>2
  <1> QED BY <1>6, <1>7

(* event_signal.                                                           *)
LEMMA EventSignalConsistent ==
  ASSUME NEW s, Consistent(s), NEW e \in Events
  PROVE  /\ Consistent(EventSignal(s, e))
         /\ SameLocks(EventSignal(s, e), s)
         /\ EventSignal(s, e).current = s.current
         /\ EventSignal(s, e).fault = s.fault
         /\ KeepsRunning(EventSignal(s, e), s)
  <1>1. e \in Queues /\ e \notin Locks /\ s \in VMStates
    BY QueuesDisjoint DEF Queues, Consistent
  <1>2. CASE s.waiting[e] # <<>>
    <2> DEFINE r == WakeFirst(s, e)
               u == Head(s.waiting[e])
    <2>1. /\ Consistent(r)
          /\ r.waiting = [s.waiting EXCEPT ![e] = Tail(@)]
          /\ r.locked = s.locked /\ r.owners = s.owners
          /\ r.current = s.current /\ r.fault = s.fault
          /\ OthersSame(r, s, u) /\ u \in Threads
          /\ s.status[u] \in {"Blocked", "Waiting"}
      <3> HIDE DEF r, u
      <3> QED BY <1>1, <1>2, WakeFirstConsistent DEF r, u
    <2>2. EventSignal(s, e) = r
      BY <1>2 DEF EventSignal
    <2> HIDE DEF r, u
    <2>3. \A k \in Locks : r.waiting[k] = s.waiting[k]
      BY <1>1, <2>1 DEF VMStates, Queues
    <2>4. KeepsRunning(r, s)
      BY <2>1 DEF KeepsRunning, OthersSame
    <2> QED BY <2>1, <2>2, <2>3, <2>4 DEF SameLocks
  <1>3. CASE s.waiting[e] = <<>>
    BY <1>3 DEF EventSignal, SameLocks, KeepsRunning
  <1> QED BY <1>2, <1>3

(* event_broadcast.                                                        *)
LEMMA EventBroadcastConsistent ==
  ASSUME NEW s, Consistent(s), NEW e \in Events
  PROVE  /\ Consistent(EventBroadcast(s, e))
         /\ SameLocks(EventBroadcast(s, e), s)
         /\ EventBroadcast(s, e).current = s.current
         /\ EventBroadcast(s, e).fault = s.fault
         /\ KeepsRunning(EventBroadcast(s, e), s)
  <1> DEFINE woken == Range(s.waiting[e])
             K == {t \in Threads : s.suspendCount[t] = 0}
             free == SubQueue(s.waiting[e], K)
             ring == s.runnable \o free
             status == [t \in Threads |->
                          IF t \notin woken THEN s.status[t]
                          ELSE IF s.suspendCount[t] = 0 THEN "Running"
                          ELSE "Suspended"]
             datum == [t \in Threads |->
                         IF t \in woken THEN NoObj ELSE s.datum[t]]
             r == EventBroadcast(s, e)
  <1>1. e \in Queues /\ e \notin Locks /\ s \in VMStates
    BY QueuesDisjoint DEF Queues, Consistent
  <1>2. r = [s EXCEPT !.runnable = ring, !.status = status, !.datum = datum,
                      !.waiting[e] = <<>>]
    BY <1>1 DEF EventBroadcast, VMStates
  <1>3. /\ s.waiting[e] \in Seq(Threads) /\ IsQueue(s.waiting[e])
        /\ s.runnable \in Seq(Threads) /\ IsQueue(s.runnable)
        /\ woken \subseteq Threads
    BY <1>1, Lists, InQueue
  <1>4. /\ free \in Seq(Threads) /\ IsQueue(free) /\ Range(free) = woken \cap K
    <2> HIDE DEF K
    <2> QED BY <1>3, SubQueueIsQueue
  <1>5. \A t \in woken : /\ s.status[t] \in {"Blocked", "Waiting"}
                         /\ s.datum[t] = e
                         /\ t \notin Range(s.runnable)
                         /\ \A p \in Queues \ {e} : t \notin Range(s.waiting[p])
    BY <1>1, <1>3, Waiter
  <1> HIDE DEF free
  <1>6. /\ ring \in Seq(Threads) /\ IsQueue(ring)
        /\ Range(ring) = Range(s.runnable) \cup (woken \cap K)
    <2>1. Range(s.runnable) \cap Range(free) = {}
      BY <1>4, <1>5
    <2> QED BY <1>3, <1>4, <2>1, JoinQueues
  <1> HIDE DEF ring, r
  <1>7. status \in [Threads -> Statuses]
    BY <1>1 DEF VMStates, Statuses, LiveStatuses
  <1>8. datum \in [Threads -> Queues \cup {NoObj}]
    BY <1>1 DEF VMStates
  <1> HIDE DEF status, datum
  <1>9. /\ r \in VMStates
        /\ r.runnable = ring /\ r.status = status /\ r.datum = datum
        /\ r.waiting = [s.waiting EXCEPT ![e] = <<>>]
        /\ r.suspendCount = s.suspendCount
        /\ r.locked = s.locked /\ r.owners = s.owners
        /\ r.current = s.current /\ r.fault = s.fault
    <2>1. [s.waiting EXCEPT ![e] = <<>>] \in [Queues -> Seq(Threads)]
      BY <1>1 DEF VMStates
    <2> QED BY <1>1, <1>2, <1>6, <1>7, <1>8, <2>1 DEF VMStates
  <1>10. \A t \in Threads :
           /\ t \notin woken => r.status[t] = s.status[t] /\ r.datum[t] = s.datum[t]
           /\ t \in woken => /\ r.datum[t] = NoObj
                             /\ r.status[t] = IF t \in K THEN "Running"
                                              ELSE "Suspended"
    BY <1>9 DEF status, datum
  <1>11. OnRing(r)
    <2>1. \A t \in Threads : t \in Range(s.runnable) <=> s.status[t] = "Running"
      BY Lists
    <2>2. \A t \in Threads : t \in Range(r.runnable) <=> r.status[t] = "Running"
      BY <1>5, <1>6, <1>9, <1>10, <2>1
    <2> QED BY <1>6, <1>9, <2>2 DEF OnRing
  <1>12. OnQueue(r)
    <2>1. \A o \in Queues : r.waiting[o] = IF o = e THEN <<>> ELSE s.waiting[o]
      BY <1>1, <1>9 DEF VMStates
    <2>2. IsQueue(<<>>) /\ Range(<<>>) = {}
      BY DEF IsQueue, IsInjective, Range
    <2>3. \A t \in woken, o \in Queues : ~ WaitsFor(r, t, o)
      BY <1>3, <1>10, QueuesDisjoint DEF WaitsFor
    <2>4. \A t \in Threads \ woken, o \in Queues :
             WaitsFor(r, t, o) <=> WaitsFor(s, t, o)
      BY <1>10 DEF WaitsFor
    <2>5. \A o \in Queues, t \in Threads :
             t \in Range(s.waiting[o]) <=> WaitsFor(s, t, o)
      BY Lists
    <2>6. ASSUME NEW o \in Queues, NEW t \in Threads
          PROVE  t \in Range(r.waiting[o]) <=> WaitsFor(r, t, o)
      <3>1. CASE t \in woken
        BY <1>5, <2>1, <2>2, <2>3, <3>1
      <3>2. CASE t \notin woken
        BY <2>1, <2>2, <2>4, <2>5, <3>2
      <3> QED BY <3>1, <3>2
    <2>7. \A o \in Queues : IsQueue(r.waiting[o])
      BY <2>1, <2>2, Lists
    <2> QED BY <2>6, <2>7 DEF OnQueue
  <1>13. CountsAgree(r)
    <2>1. \A t \in Threads : /\ s.status[t] = "Running" => s.suspendCount[t] = 0
                             /\ s.status[t] = "Suspended" => s.suspendCount[t] > 0
                             /\ s.suspendCount[t] \in Nat
      BY <1>1, Lists DEF VMStates
    <2> QED BY <1>9, <1>10, <2>1 DEF CountsAgree
  <1>14. \A k \in Locks : r.waiting[k] = s.waiting[k]
    BY <1>1, <1>9 DEF VMStates, Queues
  <1>15. KeepsRunning(r, s)
    BY <1>5, <1>10 DEF KeepsRunning
  <1> QED BY <1>9, <1>11, <1>12, <1>13, <1>14, <1>15 DEF Consistent, SameLocks, r

-----------------------------------------------------------------------------
(* Killing a thread. *)

(* Only the fault changes: the debugger is about to stop for good.         *)
LEMMA FaultConsistent ==
  ASSUME NEW s, Consistent(s), NEW x \in {"none", "hang", "crash"}
  PROVE  /\ Consistent([s EXCEPT !.fault = x])
         /\ SameLocks([s EXCEPT !.fault = x], s)
  <1> DEFINE r == [s EXCEPT !.fault = x]
  <1>1. s \in VMStates
    BY DEF Consistent
  <1>2. /\ r \in VMStates /\ r.runnable = s.runnable
        /\ r.waiting = s.waiting /\ r.status = s.status
        /\ r.datum = s.datum /\ r.suspendCount = s.suspendCount
        /\ r.locked = s.locked /\ r.owners = s.owners
    BY <1>1 DEF VMStates
  <1> HIDE DEF r
  <1>3. Consistent(r)
    BY <1>2, ListsConsistent
  <1> QED BY <1>2, <1>3 DEF SameLocks, r

(* Off the ring or off the queue, with its status not changed yet.         *)
OffItsList(p, s, t) ==
  /\ p \in VMStates /\ p.fault = "none"
  /\ p.status = s.status /\ p.suspendCount = s.suspendCount
  /\ p.locked = s.locked /\ p.owners = s.owners /\ p.current = s.current
  /\ \A u \in Threads \ {t} : p.datum[u] = s.datum[u]
  /\ IsQueue(p.runnable)
  /\ Range(p.runnable) = Range(s.runnable) \ {t}
  /\ \A o \in Queues : /\ IsQueue(p.waiting[o])
                       /\ Range(p.waiting[o]) = Range(s.waiting[o]) \ {t}
                       /\ p.waiting[o] # <<>> => s.waiting[o] # <<>>

(* remove_from_lock and remove_from_event: they end with the thread off    *)
(* the queue, or they do not end.                                          *)
LEMMA RemoveFromQueueOff ==
  ASSUME NEW s, Consistent(s), s.fault = "none", NEW t \in Threads
  PROVE  \/ OffItsList(RemoveFromQueue(s, t), s, t)
         \/ \E x \in {"hang", "crash"} :
              RemoveFromQueue(s, t) = [s EXCEPT !.fault = x]
  <1> DEFINE o == s.datum[t]
             r == RemoveFromQueue(s, t)
             d == IF o \in Events THEN NoObj ELSE s.datum[t]
             q == [s EXCEPT !.waiting[o] = Tail(@)]
             shorter == Tail(s.waiting[o])
  <1>1. s \in VMStates /\ o \in Queues \cup {NoObj}
    BY DEF Consistent, VMStates
  <1>2. CASE o = NoObj \/ s.waiting[o] = <<>>
    BY <1>2 DEF RemoveFromQueue
  <1>3. CASE ~ (o = NoObj \/ s.waiting[o] = <<>>) /\ Head(s.waiting[o]) # t
    BY <1>3 DEF RemoveFromQueue
  <1>4. CASE ~ (o = NoObj \/ s.waiting[o] = <<>>) /\ Head(s.waiting[o]) = t
    <2>1. o \in Queues
      BY <1>1, <1>4
    <2>2. /\ t \in Range(s.waiting[o])
          /\ shorter \in Seq(Threads) /\ IsQueue(shorter)
          /\ Range(shorter) = Range(s.waiting[o]) \ {t}
      BY <1>4, <2>1, Lists, TailQueue
    <2>3. r = [q EXCEPT !.datum[t] = d]
      BY <1>1, <1>4 DEF RemoveFromQueue, VMStates
    <2>4. t \notin Range(s.runnable)
          /\ \A p \in Queues \ {o} : t \notin Range(s.waiting[p])
      <3> HIDE DEF o
      <3> QED BY <2>1, <2>2, Waiter
    <2>5. d \in Queues \cup {NoObj}
      BY <2>1
    <2> HIDE DEF o, d
    <2>6. /\ q \in VMStates
          /\ q.waiting = [s.waiting EXCEPT ![o] = shorter]
          /\ q.fault = s.fault /\ q.status = s.status
          /\ q.suspendCount = s.suspendCount /\ q.locked = s.locked
          /\ q.owners = s.owners /\ q.current = s.current
          /\ q.datum = s.datum /\ q.runnable = s.runnable
      <3>1. [s.waiting EXCEPT ![o] = shorter] \in [Queues -> Seq(Threads)]
        BY <1>1, <2>2 DEF VMStates
      <3> QED BY <1>1, <3>1 DEF VMStates
    <2> HIDE DEF q, r
    <2>7. /\ r \in VMStates
          /\ r.waiting = [s.waiting EXCEPT ![o] = shorter]
          /\ r.fault = s.fault /\ r.status = s.status
          /\ r.suspendCount = s.suspendCount /\ r.locked = s.locked
          /\ r.owners = s.owners /\ r.current = s.current
          /\ r.datum = [s.datum EXCEPT ![t] = d] /\ r.runnable = s.runnable
      <3>1. [s.datum EXCEPT ![t] = d] \in [Threads -> Queues \cup {NoObj}]
        BY <1>1, <2>5 DEF VMStates
      <3> QED BY <2>3, <2>6, <3>1 DEF VMStates
    <2>8. \A u \in Threads \ {t} : r.datum[u] = s.datum[u]
      BY <1>1, <2>7 DEF VMStates
    <2>9. \A p \in Queues : r.waiting[p] = IF p = o THEN shorter ELSE s.waiting[p]
      BY <1>1, <2>7 DEF VMStates
    <2> HIDE DEF shorter
    <2>10. \A p \in Queues :
              /\ IsQueue(r.waiting[p])
              /\ Range(r.waiting[p]) = Range(s.waiting[p]) \ {t}
              /\ r.waiting[p] # <<>> => s.waiting[p] # <<>>
      BY <1>4, <2>2, <2>4, <2>9, Lists DEF o
    <2>11. /\ r.fault = "none" /\ IsQueue(r.runnable)
           /\ Range(r.runnable) = Range(s.runnable) \ {t}
      BY <2>4, <2>7, Lists
    <2>12. OffItsList(r, s, t)
      BY <2>7, <2>8, <2>10, <2>11 DEF OffItsList
    <2> QED BY <2>12 DEF r
  <1> QED BY <1>2, <1>3, <1>4

(* Whatever the status of the thread.                                      *)
LEMMA UnlinkOff ==
  ASSUME NEW s, Consistent(s), s.fault = "none", NEW t \in Threads
  PROVE  \/ OffItsList(Unlink(s, t), s, t)
         \/ /\ s.status[t] # "Running"
            /\ \E x \in {"hang", "crash"} : Unlink(s, t) = [s EXCEPT !.fault = x]
  <1>0. s \in VMStates
    BY DEF Consistent
  <1>1. CASE s.status[t] = "Running"
    <2> DEFINE p == SuspendThread(s, t)
    <2>1. /\ p \in VMStates
          /\ p.runnable = Without(s.runnable, t) /\ p.waiting = s.waiting
          /\ p.locked = s.locked /\ p.owners = s.owners
          /\ p.current = s.current
          /\ p.fault = s.fault /\ p.status = s.status
          /\ p.suspendCount = s.suspendCount /\ p.datum = s.datum
          /\ IsQueue(Without(s.runnable, t))
          /\ Range(Without(s.runnable, t)) = Range(s.runnable) \ {t}
      BY <1>1, LeaveRing
    <2>2. Unlink(s, t) = p
      BY <1>1 DEF Unlink
    <2> HIDE DEF p
    <2>3. \A o \in Queues : t \notin Range(s.waiting[o])
      <3>1. \A o \in Queues : ~ WaitsFor(s, t, o)
        BY <1>1 DEF WaitsFor
      <3> QED BY <3>1, Lists
    <2>4. \A o \in Queues : IsQueue(p.waiting[o])
                            /\ Range(p.waiting[o]) = Range(s.waiting[o]) \ {t}
      BY <2>1, <2>3, Lists
    <2> QED BY <2>1, <2>2, <2>4 DEF OffItsList
  <1>2. CASE s.status[t] \in {"Blocked", "Waiting"}
    <2>1. Unlink(s, t) = RemoveFromQueue(s, t)
      BY <1>2 DEF Unlink
    <2> QED BY <1>2, <2>1, RemoveFromQueueOff
  <1>3. CASE s.status[t] \notin {"Running", "Blocked", "Waiting"}
    <2>1. Unlink(s, t) = s
      BY <1>3 DEF Unlink
    <2>2. t \notin Range(s.runnable) /\ \A o \in Queues : t \notin Range(s.waiting[o])
      <3>1. \A o \in Queues : ~ WaitsFor(s, t, o)
        BY <1>3 DEF WaitsFor
      <3> QED BY <1>3, <3>1, Lists
    <2> QED BY <1>0, <2>1, <2>2, Lists DEF OffItsList
  <1> QED BY <1>1, <1>2, <1>3

(* thread_kill.                                                            *)
LEMMA ThreadKillConsistent ==
  ASSUME NEW s, Consistent(s), s.fault = "none", NEW t \in Threads,
         NEW x \in {"Killed", "Exited"}
  PROVE  /\ Consistent(ThreadKill(s, t))
         /\ SameLocks(ThreadKill(s, t), s)
         /\ OthersSame(ThreadKill(s, t), s, t)
         /\ ThreadKill(s, t).fault = "none" =>
              ThreadKill(s, t).current = IF s.current = t THEN NoThread
                                         ELSE s.current
         /\ ThreadKill(s, t).current \in {s.current, NoThread}
         /\ s.status[t] = "Running" =>
              /\ Consistent([ThreadKill(s, t) EXCEPT !.status[t] = "Exited"])
              /\ SameLocks([ThreadKill(s, t) EXCEPT !.status[t] = "Exited"], s)
              /\ ThreadKill(s, t).current = IF s.current = t THEN NoThread
                                            ELSE s.current
  <1> DEFINE p == Unlink(s, t)
             r == ThreadKill(s, t)
             current == IF s.current = t THEN NoThread ELSE s.current
  <1>1. s \in VMStates
    BY DEF Consistent
  <1>2. CASE OffItsList(p, s, t)
    <2>1. p.fault = "none" /\ p.current = s.current
      BY <1>2 DEF OffItsList
    <2> HIDE DEF p
    <2> DEFINE q == [p EXCEPT !.status[t] = "Killed"]
    <2>2. r = [q EXCEPT !.current = current]
      BY <2>1, <1>2 DEF ThreadKill, p, OffItsList, VMStates
    <2>3. current \in Threads \cup {NoThread}
      BY <1>1 DEF VMStates
    <2>4. /\ q \in VMStates /\ q.status = [s.status EXCEPT ![t] = "Killed"]
          /\ q.suspendCount = s.suspendCount /\ q.fault = "none"
          /\ q.locked = s.locked /\ q.owners = s.owners
          /\ q.datum = p.datum /\ q.runnable = p.runnable
          /\ q.waiting = p.waiting
      BY <1>2 DEF OffItsList, VMStates, Statuses, LiveStatuses
    <2> HIDE DEF q, r, current
    <2>5. /\ r \in VMStates /\ r.status = [s.status EXCEPT ![t] = "Killed"]
          /\ r.suspendCount = s.suspendCount /\ r.fault = "none"
          /\ r.locked = s.locked /\ r.owners = s.owners
          /\ r.datum = p.datum /\ r.runnable = p.runnable
          /\ r.waiting = p.waiting /\ r.current = current
      BY <2>2, <2>3, <2>4 DEF VMStates
    <2>6. ASSUME NEW y \in {"Killed", "Exited"}, NEW z \in VMStates,
                 z.status = [s.status EXCEPT ![t] = y],
                 z.suspendCount = s.suspendCount, z.datum = p.datum,
                 z.locked = s.locked, z.owners = s.owners,
                 z.runnable = p.runnable, z.waiting = p.waiting
          PROVE  Consistent(z) /\ SameLocks(z, s) /\ OthersSame(z, s, t)
      <3>1. z.status[t] = y
        BY <1>1, <2>6 DEF VMStates
      <3>2. OthersSame(z, s, t)
        BY <1>1, <1>2, <2>6 DEF OthersSame, OffItsList, VMStates
      <3>3. /\ IsQueue(z.runnable)
            /\ t \in Range(z.runnable) <=> z.status[t] = "Running"
            /\ \A u \in Threads \ {t} :
                 u \in Range(z.runnable) <=> u \in Range(s.runnable)
            /\ z.status[t] = "Running" => z.suspendCount[t] = 0
            /\ z.status[t] = "Suspended" => z.suspendCount[t] > 0
        BY <1>2, <2>6, <3>1 DEF OffItsList
      <3>4. \A o \in Queues :
              /\ IsQueue(z.waiting[o])
              /\ t \in Range(z.waiting[o]) <=> WaitsFor(z, t, o)
              /\ \A u \in Threads \ {t} :
                   u \in Range(z.waiting[o]) <=> u \in Range(s.waiting[o])
        BY <1>2, <2>6, <3>1 DEF OffItsList, WaitsFor
      <3>5. Consistent(z)
        BY <3>1, <3>2, <3>3, <3>4, MoveConsistent
      <3>6. SameLocks(z, s)
        BY <1>2, <2>6 DEF SameLocks, OffItsList, Queues
      <3> QED BY <3>2, <3>5, <3>6
    <2>7. Consistent(r) /\ SameLocks(r, s) /\ OthersSame(r, s, t)
      BY <2>5, <2>6
    <2>8. Consistent([r EXCEPT !.status[t] = "Exited"])
          /\ SameLocks([r EXCEPT !.status[t] = "Exited"], s)
      <3> DEFINE z == [r EXCEPT !.status[t] = "Exited"]
      <3>1. [r.status EXCEPT ![t] = "Exited"] = [s.status EXCEPT ![t] = "Exited"]
        BY <1>1, <2>5 DEF VMStates
      <3>2. /\ z \in VMStates /\ z.status = [s.status EXCEPT ![t] = "Exited"]
            /\ z.suspendCount = s.suspendCount /\ z.datum = p.datum
            /\ z.locked = s.locked /\ z.owners = s.owners
            /\ z.runnable = p.runnable /\ z.waiting = p.waiting
        BY <2>5, <3>1 DEF VMStates, Statuses
      <3> HIDE DEF z
      <3>3. Consistent(z) /\ SameLocks(z, s)
        BY <3>2, <2>6
      <3> QED BY <3>3 DEF z
    <2> QED BY <2>5, <2>7, <2>8 DEF r, current
  <1>3. ASSUME s.status[t] # "Running", NEW y \in {"hang", "crash"},
               p = [s EXCEPT !.fault = y]
        PROVE  /\ Consistent(r) /\ SameLocks(r, s) /\ OthersSame(r, s, t)
               /\ r.fault # "none" /\ r.current = s.current
    <2> DEFINE f == [s EXCEPT !.fault = y]
    <2>1. /\ f.fault = y /\ f.current = s.current
          /\ f.status = s.status /\ f.datum = s.datum
          /\ f.suspendCount = s.suspendCount
      BY <1>1 DEF VMStates
    <2>2. Consistent(f) /\ SameLocks(f, s)
      BY FaultConsistent
    <2>3. r = f
      BY <1>3, <2>1 DEF ThreadKill
    <2> HIDE DEF f, r
    <2> QED BY <2>1, <2>2, <2>3 DEF OthersSame
  <1>4. CASE s.status[t] # "Running"
             /\ \E y \in {"hang", "crash"} : p = [s EXCEPT !.fault = y]
    BY <1>3, <1>4
  <1> QED BY <1>2, <1>4, UnlinkOff

-----------------------------------------------------------------------------
(* Picking the next thread. *)

(* thread_pick_next turns the ring by one.                                 *)
LEMMA PickThreadConsistent ==
  ASSUME NEW s, Consistent(s)
  PROVE  /\ Consistent(PickThread(s))
         /\ SameLocks(PickThread(s), s)
         /\ PickThread(s).fault = s.fault
         /\ PickThread(s).current # NoThread =>
              PickThread(s).status[PickThread(s).current] = "Running"
         /\ s.runnable = <<>> => PickThread(s).current = NoThread
  <1> DEFINE r == PickThread(s)
             h == Head(s.runnable)
             ring == Append(Tail(s.runnable), h)
  <1>1. s \in VMStates /\ s.runnable \in Seq(Threads) /\ IsQueue(s.runnable)
    BY Lists DEF Consistent
  <1>2. CASE s.runnable = <<>>
    <2>1. /\ r \in VMStates /\ r.current = NoThread
          /\ r.runnable = s.runnable /\ r.waiting = s.waiting
          /\ r.status = s.status /\ r.datum = s.datum
          /\ r.suspendCount = s.suspendCount
          /\ r.locked = s.locked /\ r.owners = s.owners /\ r.fault = s.fault
      BY <1>1, <1>2 DEF PickThread, VMStates
    <2> HIDE DEF r
    <2>2. Consistent(r)
      BY <2>1, ListsConsistent
    <2> QED BY <2>1, <2>2 DEF SameLocks, r
  <1>3. CASE s.runnable # <<>>
    <2> DEFINE q == [s EXCEPT !.current = h]
    <2>1. /\ h \in Range(s.runnable) /\ h \in Threads
          /\ Tail(s.runnable) \in Seq(Threads) /\ IsQueue(Tail(s.runnable))
          /\ Range(Tail(s.runnable)) = Range(s.runnable) \ {h}
      BY <1>1, <1>3, TailQueue
    <2>2. r = [q EXCEPT !.runnable = ring]
      BY <1>1, <1>3 DEF PickThread, VMStates
    <2> HIDE DEF h
    <2>3. /\ ring \in Seq(Threads) /\ IsQueue(ring)
          /\ Range(ring) = Range(s.runnable)
      <3>1. /\ ring \in Seq(Threads) /\ IsQueue(ring)
            /\ Range(ring) = Range(Tail(s.runnable)) \cup {h}
        <4> DEFINE rest == Tail(s.runnable)
        <4>1. /\ h \in Threads /\ h \notin Range(rest)
              /\ rest \in Seq(Threads) /\ IsQueue(rest)
          BY <2>1
        <4> HIDE DEF rest
        <4>2. /\ Append(rest, h) \in Seq(Threads) /\ IsQueue(Append(rest, h))
              /\ Range(Append(rest, h)) = Range(rest) \cup {h}
          BY <4>1, AppendQueue
        <4> QED BY <4>2 DEF rest
      <3> QED BY <2>1, <3>1
    <2>4. /\ q \in VMStates /\ q.current = h
          /\ q.runnable = s.runnable /\ q.waiting = s.waiting
          /\ q.status = s.status /\ q.datum = s.datum
          /\ q.suspendCount = s.suspendCount
          /\ q.locked = s.locked /\ q.owners = s.owners /\ q.fault = s.fault
      BY <1>1, <2>1 DEF VMStates
    <2> HIDE DEF q, ring, r
    <2>5. /\ r \in VMStates /\ r.current = h
          /\ r.runnable = ring /\ r.waiting = s.waiting
          /\ r.status = s.status /\ r.datum = s.datum
          /\ r.suspendCount = s.suspendCount
          /\ r.locked = s.locked /\ r.owners = s.owners /\ r.fault = s.fault
      BY <2>2, <2>3, <2>4 DEF VMStates
    <2>6. OnRing(r)
      BY <2>3, <2>5 DEF Consistent, OnRing
    <2>7. OnQueue(r)
      BY <2>5 DEF Consistent, OnQueue, WaitsFor
    <2>8. CountsAgree(r)
      BY <2>5 DEF Consistent, CountsAgree
    <2>9. Consistent(r)
      BY <2>5, <2>6, <2>7, <2>8 DEF Consistent
    <2>10. r.status[r.current] = "Running"
      BY <2>1, <2>5, Lists
    <2> QED BY <1>3, <2>5, <2>9, <2>10 DEF SameLocks, r
  <1> QED BY <1>2, <1>3

-----------------------------------------------------------------------------
(***************************************************************************)
(* The inductive invariant.  The parts need each other: MutualExclusion is *)
(* kept by a release only because a waiter's lock is locked, the lists     *)
(* only because the counts agree, and every operation by the current       *)
(* thread only because the current thread is on the ring.                  *)
(***************************************************************************)
IInv ==
  /\ Consistent(vm)
  /\ LocksAgree(vm)
  /\ CurrentIsRunning
  /\ pause \in PauseReasons

LEMMA EmptyConsistent ==
  Consistent(EmptyVM) /\ LocksAgree(EmptyVM) /\ EmptyVM.current = NoThread
  <1> DEFINE s == EmptyVM
  <1>1. /\ s.status = [t \in Threads |-> "Unmade"]
        /\ s.suspendCount = [t \in Threads |-> 0]
        /\ s.datum = [t \in Threads |-> NoObj]
        /\ s.runnable = <<>> /\ s.current = NoThread
        /\ s.locked = [l \in Locks |-> FALSE]
        /\ s.waiting = [o \in Queues |-> <<>>]
        /\ s.owners = [l \in Locks |-> {}]
    BY DEF EmptyVM
  <1>2. s \in VMStates
    BY DEF EmptyVM, VMStates, Statuses
  <1> HIDE DEF s
  <1>3. IsQueue(<<>>) /\ Range(<<>>) = {}
    BY DEF IsQueue, IsInjective, Range
  <1>4. OnRing(s)
    BY <1>1, <1>3 DEF OnRing
  <1>5. OnQueue(s)
    BY <1>1, <1>3 DEF OnQueue, WaitsFor
  <1>6. CountsAgree(s)
    BY <1>1 DEF CountsAgree
  <1>7. LocksAgree(s)
    BY <1>1 DEF LocksAgree, WaitedAreLocked, OneOwner, Queues
  <1> QED BY <1>1, <1>2, <1>4, <1>5, <1>6, <1>7 DEF Consistent, s

(* A thread made and restarted disturbs nobody.                            *)
LEMMA MakeAndRestart ==
  ASSUME NEW s, Consistent(s), LocksAgree(s), NEW t \in Threads, IsNextId(s, t)
  PROVE  /\ Consistent(ThreadRestart(ThreadMake(s, t), t))
         /\ LocksAgree(ThreadRestart(ThreadMake(s, t), t))
         /\ ThreadRestart(ThreadMake(s, t), t).current = s.current
         /\ KeepsRunning(ThreadRestart(ThreadMake(s, t), t), s)
  <1> DEFINE q == ThreadMake(s, t)
             r == ThreadRestart(q, t)
  <1>1. s.status[t] = "Unmade"
    BY DEF IsNextId
  <1>2. /\ Consistent(q) /\ SameLocks(q, s) /\ OthersSame(q, s, t)
        /\ q.current = s.current
    BY <1>1, ThreadMakeConsistent
  <1> HIDE DEF q
  <1>3. /\ Consistent(r) /\ SameLocks(r, q) /\ OthersSame(r, q, t)
        /\ r.current = q.current
    BY <1>2, ThreadRestartConsistent
  <1> HIDE DEF r
  <1>4. LocksAgree(q)
    BY <1>2, SameLocksAgree
  <1>5. LocksAgree(r)
    BY <1>3, <1>4, SameLocksAgree
  <1>6. KeepsRunning(r, s)
    BY <1>1, <1>2, <1>3 DEF KeepsRunning, OthersSame
  <1> QED BY <1>2, <1>3, <1>5, <1>6 DEF r, q

LEMMA InitIInv == Init => IInv
  <1> SUFFICES ASSUME Init PROVE IInv
    OBVIOUS
  <1>1. PICK t \in Threads :
          IsNextId(EmptyVM, t) /\ vm = ThreadRestart(ThreadMake(EmptyVM, t), t)
    BY DEF Init
  <1>2. Consistent(vm) /\ LocksAgree(vm) /\ vm.current = EmptyVM.current
    <2> HIDE DEF EmptyVM
    <2> QED BY <1>1, EmptyConsistent, MakeAndRestart
  <1> QED BY <1>2, EmptyConsistent
          DEF Init, IInv, CurrentIsRunning, AtPrompt, PauseReasons

-----------------------------------------------------------------------------
(* The steps of the program. *)

LEMMA ExecutesRunning ==
  ASSUME IInv, NEW t \in Threads, Executes(t)
  PROVE  /\ vm.status[t] = "Running" /\ vm.current = t /\ t # NoThread
         /\ vm.fault = "none" /\ pause = "NoReason"
         /\ Consistent(vm) /\ LocksAgree(vm)
  BY ThreadsAssumption DEF IInv, CurrentIsRunning, Executes

(* What is left to show of a step during which the slice goes on.          *)
LEMMA SliceGoesOn ==
  ASSUME IInv, NEW t \in Threads, Executes(t),
         Consistent(vm'), LocksAgree(vm'),
         vm'.current \in {NoThread, vm.current},
         vm'.fault = "none" => vm'.status[t] = "Running",
         pause' = pause
  PROVE  IInv'
  <1>1. vm.current = t /\ pause = "NoReason"
    BY DEF Executes
  <1>2. CurrentIsRunning'
    BY <1>1 DEF CurrentIsRunning, AtPrompt
  <1> QED BY <1>2 DEF IInv

(* And of one that ends the slice.                                         *)
LEMMA SliceEnds ==
  ASSUME IInv, Consistent(vm'), LocksAgree(vm'), pause' = "PickNewThread"
  PROVE  IInv'
  BY DEF IInv, CurrentIsRunning, AtPrompt, PauseReasons

LEMMA SpawnIInv ==
  ASSUME IInv, NEW t \in Threads, Spawn(t)
  PROVE  IInv'
  <1>1. Executes(t) /\ pause' = pause
    BY DEF Spawn
  <1>2. PICK u \in Threads :
          IsNextId(vm, u) /\ vm' = ThreadRestart(ThreadMake(vm, u), u)
    BY DEF Spawn
  <1>3. /\ Consistent(vm') /\ LocksAgree(vm') /\ vm'.current = vm.current
        /\ KeepsRunning(vm', vm)
    BY <1>1, <1>2, ExecutesRunning, MakeAndRestart
  <1> QED BY <1>1, <1>3, ExecutesRunning, SliceGoesOn DEF KeepsRunning

LEMMA GrabLockIInv ==
  ASSUME IInv, NEW t \in Threads, NEW l \in Locks, GrabLock(t, l)
  PROVE  IInv'
  <1>1. /\ Executes(t) /\ vm' = LockGrab(vm, t, l)
        /\ pause' = IF vm.locked[l] THEN "PickNewThread" ELSE pause
    BY DEF GrabLock
  <1>2. /\ Consistent(vm') /\ LocksAgree(vm') /\ vm'.current = vm.current
        /\ ~ vm.locked[l] => vm'.status = vm.status
    BY <1>1, ExecutesRunning, LockGrabConsistent
  <1>3. CASE vm.locked[l]
    BY <1>1, <1>2, <1>3, SliceEnds
  <1>4. CASE ~ vm.locked[l]
    BY <1>1, <1>2, <1>4, ExecutesRunning, SliceGoesOn
  <1> QED BY <1>3, <1>4

LEMMA ReleaseLockIInv ==
  ASSUME IInv, NEW t \in Threads, NEW l \in Locks, ReleaseLock(t, l)
  PROVE  IInv'
  <1>1. /\ Executes(t) /\ vm' = LockRelease(vm, t, l) /\ pause' = pause
        /\ vm.locked[l] /\ (OwnersOnly => t \in vm.owners[l])
    BY DEF ReleaseLock, MayRelease
  <1>2. /\ Consistent(vm') /\ LocksAgree(vm') /\ vm'.current = vm.current
        /\ KeepsRunning(vm', vm)
    BY <1>1, ExecutesRunning, LockReleaseConsistent
  <1> QED BY <1>1, <1>2, ExecutesRunning, SliceGoesOn DEF KeepsRunning

LEMMA WaitForEventIInv ==
  ASSUME IInv, NEW t \in Threads, NEW e \in Events,
         NEW l \in Locks \cup {NoObj}, WaitForEvent(t, e, l)
  PROVE  IInv'
  <1>1. /\ Executes(t) /\ vm' = EventWait(vm, t, e, l)
        /\ pause' = "PickNewThread"
        /\ l # NoObj => vm.locked[l] /\ (OwnersOnly => t \in vm.owners[l])
    BY DEF WaitForEvent, MayRelease
  <1>2. Consistent(vm') /\ LocksAgree(vm')
    BY <1>1, ExecutesRunning, EventWaitConsistent
  <1> QED BY <1>1, <1>2, SliceEnds

LEMMA SignalEventIInv ==
  ASSUME IInv, NEW t \in Threads, NEW e \in Events, SignalEvent(t, e)
  PROVE  IInv'
  <1>1. Executes(t) /\ vm' = EventSignal(vm, e) /\ pause' = pause
    BY DEF SignalEvent
  <1>2. /\ Consistent(vm') /\ SameLocks(vm', vm) /\ vm'.current = vm.current
        /\ KeepsRunning(vm', vm)
    BY <1>1, ExecutesRunning, EventSignalConsistent
  <1>3. LocksAgree(vm')
    BY <1>1, <1>2, ExecutesRunning, SameLocksAgree
  <1> QED BY <1>1, <1>2, <1>3, ExecutesRunning, SliceGoesOn DEF KeepsRunning

LEMMA BroadcastEventIInv ==
  ASSUME IInv, NEW t \in Threads, NEW e \in Events, BroadcastEvent(t, e)
  PROVE  IInv'
  <1>1. Executes(t) /\ vm' = EventBroadcast(vm, e) /\ pause' = pause
    BY DEF BroadcastEvent
  <1>2. /\ Consistent(vm') /\ SameLocks(vm', vm) /\ vm'.current = vm.current
        /\ KeepsRunning(vm', vm)
    BY <1>1, ExecutesRunning, EventBroadcastConsistent
  <1>3. LocksAgree(vm')
    BY <1>1, <1>2, ExecutesRunning, SameLocksAgree
  <1> QED BY <1>1, <1>2, <1>3, ExecutesRunning, SliceGoesOn DEF KeepsRunning

LEMMA KillThreadIInv ==
  ASSUME IInv, NEW t \in Threads, NEW u \in Threads, KillThread(t, u)
  PROVE  IInv'
  <1>1. /\ Executes(t)
        /\ vm' = IF u \in Live(vm) THEN ThreadKill(vm, u)
                 ELSE [vm EXCEPT !.fault = "crash"]
        /\ pause' = IF u = t THEN "PickNewThread" ELSE pause
    BY DEF KillThread
  <1>2. /\ vm.status[t] = "Running" /\ vm.fault = "none" /\ Consistent(vm)
        /\ LocksAgree(vm) /\ vm.current = t /\ vm \in VMStates
    BY <1>1, ExecutesRunning DEF Consistent
  <1>3. CASE u \in Live(vm)
    <2>0. "Killed" \in {"Killed", "Exited"}
      OBVIOUS
    <2>1. /\ Consistent(vm') /\ SameLocks(vm', vm) /\ OthersSame(vm', vm, u)
          /\ vm'.current \in {vm.current, NoThread}
      BY <1>1, <1>2, <1>3, <2>0, ThreadKillConsistent
    <2>2. LocksAgree(vm')
      BY <1>2, <2>1, SameLocksAgree
    <2>3. u # t => vm'.status[t] = "Running"
      BY <1>2, <2>1 DEF OthersSame
    <2> QED BY <1>1, <2>1, <2>2, <2>3, SliceGoesOn, SliceEnds
  <1>4. CASE u \notin Live(vm)
    <2> DEFINE f == [vm EXCEPT !.fault = "crash"]
    <2>1. Consistent(f) /\ SameLocks(f, vm)
      BY <1>2, FaultConsistent
    <2>2. f.fault = "crash" /\ f.current = vm.current
      BY <1>2 DEF VMStates
    <2>3. vm' = f
      BY <1>1, <1>4
    <2> HIDE DEF f
    <2>4. LocksAgree(vm')
      BY <1>2, <2>1, <2>3, SameLocksAgree
    <2>5. u # t
      BY <1>2, <1>4 DEF Live, LiveStatuses
    <2> QED BY <1>1, <2>1, <2>2, <2>3, <2>4, <2>5, SliceGoesOn
  <1> QED BY <1>3, <1>4

LEMMA ExitThreadIInv ==
  ASSUME IInv, NEW t \in Threads, ExitThread(t)
  PROVE  IInv'
  <1>1. /\ Executes(t) /\ pause' = "PickNewThread"
        /\ vm' = [ThreadKill(vm, t) EXCEPT !.status[t] = "Exited"]
    BY DEF ExitThread
  <1>2. /\ vm.status[t] = "Running" /\ vm.fault = "none" /\ Consistent(vm)
        /\ LocksAgree(vm)
    BY <1>1, ExecutesRunning
  <1>3. "Exited" \in {"Killed", "Exited"}
    OBVIOUS
  <1>4. Consistent(vm') /\ SameLocks(vm', vm)
    BY <1>1, <1>2, <1>3, ThreadKillConsistent
  <1>5. LocksAgree(vm')
    BY <1>2, <1>4, SameLocksAgree
  <1> QED BY <1>1, <1>4, <1>5, SliceEnds

(* The tables of a state in which only current is NULL instead.            *)
LEMMA NoCurrentConsistent ==
  ASSUME NEW s, Consistent(s), LocksAgree(s)
  PROVE  /\ Consistent([s EXCEPT !.current = NoThread])
         /\ LocksAgree([s EXCEPT !.current = NoThread])
         /\ [s EXCEPT !.current = NoThread].current = NoThread
  <1> DEFINE r == [s EXCEPT !.current = NoThread]
  <1>1. /\ r \in VMStates /\ r.current = NoThread
        /\ r.runnable = s.runnable /\ r.waiting = s.waiting
        /\ r.status = s.status /\ r.datum = s.datum
        /\ r.suspendCount = s.suspendCount
        /\ r.locked = s.locked /\ r.owners = s.owners
    BY DEF Consistent, VMStates
  <1> HIDE DEF r
  <1>2. Consistent(r)
    BY <1>1, ListsConsistent
  <1>3. LocksAgree(r)
    BY <1>1, SameLocksAgree DEF SameLocks
  <1> QED BY <1>1, <1>2, <1>3 DEF r

LEMMA AtPromptIInv ==
  ASSUME IInv, Consistent(vm'), LocksAgree(vm'), vm'.current = NoThread,
         pause' \in PauseReasons
  PROVE  IInv'
  BY DEF IInv, CurrentIsRunning

LEMMA InvokeDebuggerIInv ==
  ASSUME IInv, NEW t \in Threads, InvokeDebugger(t)
  PROVE  IInv'
  <1> DEFINE q == ThreadDebuggered(vm, t)
  <1>1. /\ Executes(t) /\ vm' = [q EXCEPT !.current = NoThread]
        /\ pause' = "DebuggerInvoked"
    BY DEF InvokeDebugger
  <1>2. Consistent(q) /\ SameLocks(q, vm)
    BY <1>1, ExecutesRunning, ThreadDebuggeredConsistent
  <1> HIDE DEF q
  <1>3. LocksAgree(q)
    BY <1>1, <1>2, ExecutesRunning, SameLocksAgree
  <1>4. Consistent(vm') /\ LocksAgree(vm') /\ vm'.current = NoThread
    BY <1>1, <1>2, <1>3, NoCurrentConsistent
  <1> QED BY <1>1, <1>4, AtPromptIInv DEF PauseReasons

-----------------------------------------------------------------------------
(* The steps of the driver and of the user. *)

LEMMA PickNextIInv ==
  ASSUME IInv, PickNext
  PROVE  IInv'
  <1>1. /\ vm' = PickThread(vm)
        /\ pause' = IF vm.runnable = <<>> /\ Live(vm) = {} THEN "NothingToRun"
                    ELSE "NoReason"
    BY DEF PickNext
  <1>2. Consistent(vm) /\ LocksAgree(vm)
    BY DEF IInv
  <1>3. /\ Consistent(vm') /\ SameLocks(vm', vm)
        /\ vm'.current # NoThread => vm'.status[vm'.current] = "Running"
        /\ vm.runnable = <<>> => vm'.current = NoThread
    BY <1>1, <1>2, PickThreadConsistent
  <1>4. LocksAgree(vm')
    BY <1>2, <1>3, SameLocksAgree
  <1>5. pause' = "NothingToRun" \/ pause' = "NoReason"
    BY <1>1
  <1>6. pause' = "NothingToRun" => vm'.current = NoThread
    BY <1>1, <1>3
  <1> QED BY <1>3, <1>4, <1>5, <1>6
          DEF IInv, CurrentIsRunning, AtPrompt, PauseReasons

LEMMA InterruptIInv ==
  ASSUME IInv, Interrupt
  PROVE  IInv'
  <1>1. vm' = [vm EXCEPT !.current = NoThread] /\ pause' = "Interrupted"
    BY DEF Interrupt
  <1>2. Consistent(vm) /\ LocksAgree(vm)
    BY DEF IInv
  <1>3. Consistent(vm') /\ LocksAgree(vm') /\ vm'.current = NoThread
    BY <1>1, <1>2, NoCurrentConsistent
  <1> QED BY <1>1, <1>3, AtPromptIInv DEF PauseReasons

LEMMA UserCommandIInv ==
  ASSUME IInv, NEW t \in Threads, UserCommand(t)
  PROVE  IInv'
  <1>1. /\ AtPrompt /\ vm.fault = "none" /\ Consistent(vm) /\ LocksAgree(vm)
        /\ vm.current = NoThread /\ pause' = pause /\ pause \in PauseReasons
        /\ vm.status[t] \in LiveStatuses
    BY DEF IInv, CurrentIsRunning, UserCommand, KillCommand, DisableCommand,
           EnableCommand, AtCommand, Live
  <1>2. CASE KillCommand(t)
    <2>1. vm' = ThreadKill(vm, t)
      BY <1>2 DEF KillCommand
    <2>2. "Killed" \in {"Killed", "Exited"}
      OBVIOUS
    <2>3. /\ Consistent(vm') /\ SameLocks(vm', vm)
          /\ vm'.current \in {vm.current, NoThread}
      BY <1>1, <2>1, <2>2, ThreadKillConsistent
    <2>4. LocksAgree(vm')
      BY <1>1, <2>3, SameLocksAgree
    <2> QED BY <1>1, <2>3, <2>4, AtPromptIInv
  <1>3. CASE DisableCommand(t)
    <2>1. vm' = ThreadStop(vm, t)
      BY <1>3 DEF DisableCommand
    <2>2. /\ Consistent(vm') /\ SameLocks(vm', vm)
          /\ vm'.current = vm.current
      BY <1>1, <2>1, ThreadStopConsistent
    <2>3. LocksAgree(vm')
      BY <1>1, <2>2, SameLocksAgree
    <2> QED BY <1>1, <2>2, <2>3, AtPromptIInv
  <1>4. CASE EnableCommand(t)
    <2> DEFINE q == [vm EXCEPT !.suspendCount[t] = 1]
    <2>1. vm' = ThreadRestart(q, t) /\ vm.suspendCount[t] > 0
      BY <1>4 DEF EnableCommand
    <2>2. vm.status[t] # "Running"
      <3>1. vm.status[t] = "Running" => vm.suspendCount[t] = 0
        BY <1>1, Lists
      <3> QED BY <2>1, <3>1
    <2>3. Consistent(q)
      BY <1>1, <2>2, CountConsistent
    <2>4. vm \in VMStates
      BY <1>1 DEF Consistent
    <2>5. /\ q.locked = vm.locked /\ q.owners = vm.owners
          /\ q.waiting = vm.waiting /\ q.current = vm.current
      BY <2>4 DEF VMStates
    <2> HIDE DEF q
    <2>6. LocksAgree(q)
      BY <1>1, <2>5, SameLocksAgree DEF SameLocks
    <2>7. /\ Consistent(vm') /\ SameLocks(vm', q)
          /\ vm'.current = q.current
      BY <2>1, <2>3, ThreadRestartConsistent
    <2>8. LocksAgree(vm')
      BY <2>6, <2>7, SameLocksAgree
    <2> QED BY <1>1, <2>5, <2>7, <2>8, AtPromptIInv
  <1> QED BY <1>2, <1>3, <1>4 DEF UserCommand

LEMMA NextIInv == IInv /\ [Next]_vars => IInv'
  <1> SUFFICES ASSUME IInv, [Next]_vars PROVE IInv'
    OBVIOUS
  <1>1. ASSUME NEW t \in Threads, ProgramStep(t) PROVE IInv'
    BY <1>1, SpawnIInv, GrabLockIInv, ReleaseLockIInv, WaitForEventIInv,
       SignalEventIInv, BroadcastEventIInv, KillThreadIInv, ExitThreadIInv,
       InvokeDebuggerIInv DEF ProgramStep
  <1>2. ASSUME NEW t \in Threads, UserCommand(t) PROVE IInv'
    BY <1>2, UserCommandIInv
  <1>3. ASSUME ContinueCommand PROVE IInv'
    BY <1>3 DEF ContinueCommand, IInv, CurrentIsRunning, AtPrompt, PauseReasons
  <1>4. ASSUME UNCHANGED vars PROVE IInv'
    BY <1>4 DEF vars, IInv, CurrentIsRunning, AtPrompt
  <1> QED BY <1>1, <1>2, <1>3, <1>4, PickNextIInv, InterruptIInv DEF Next

-----------------------------------------------------------------------------
(* The inductive invariant holds in every reachable state.                 *)
THEOREM Invariance == Spec => []IInv
  <1> QED BY InitIInv, NextIInv, PTL DEF Spec

(* The thread tables always have their type (struct thread and the         *)
(* statics of thread.c).                                                   *)
THEOREM TypeCorrect == Spec => []TypeOK
  <1>1. IInv => TypeOK
    BY DEF IInv, Consistent, TypeOK
  <1> QED BY <1>1, Invariance, PTL

(* Every thread is on exactly the list its status and datum name, for any  *)
(* number of threads, locks and events and any program.                    *)
THEOREM Placement == Spec => []EveryThreadInItsPlace
  <1>1. IInv => EveryThreadInItsPlace
    BY DEF IInv, Consistent, EveryThreadInItsPlace
  <1> QED BY <1>1, Invariance, PTL

(* A lock with waiters is locked, so a release will come for them.         *)
THEOREM NoAbandonedWaiter == Spec => []WaitedLocksAreLocked
  <1>1. IInv => WaitedLocksAreLocked
    BY DEF IInv, LocksAgree, WaitedLocksAreLocked
  <1> QED BY <1>1, Invariance, PTL

(* A lock has at most one owner, if programs release only what they own.   *)
THEOREM Exclusion == Spec => []MutualExclusion
  <1>1. IInv => MutualExclusion
    BY DEF IInv, LocksAgree, MutualExclusion
  <1> QED BY <1>1, Invariance, PTL

(* A stopped thread does not run, and a Suspended one can be restarted.    *)
THEOREM CountsMatch == Spec => []SuspendedIffCounted
  <1>1. IInv => SuspendedIffCounted
    BY DEF IInv, Consistent, SuspendedIffCounted
  <1> QED BY <1>1, Invariance, PTL

(* The driver resumes only a thread that is on the ring.                   *)
THEOREM CurrentRuns == Spec => []CurrentIsRunning
  <1>1. IInv => CurrentIsRunning
    BY DEF IInv
  <1> QED BY <1>1, Invariance, PTL

-----------------------------------------------------------------------------
(***************************************************************************)
(* Nobody is overtaken.  An operation leaves the queue of a lock as it is, *)
(* appends to it a thread that was not there, or takes its head off; and a *)
(* lock gets a new owner only when nobody waits for it, or as its queue    *)
(* loses its head to that owner.                                           *)
(***************************************************************************)
InTurn(r, s) ==
  \A l \in Locks :
    \/ /\ r.waiting[l] = s.waiting[l]
       /\ s.waiting[l] # <<>> => r.owners[l] \subseteq s.owners[l]
    \/ /\ \E t \in Threads \ Range(s.waiting[l]) :
            r.waiting[l] = Append(s.waiting[l], t)
       /\ r.owners[l] \subseteq s.owners[l]
    \/ /\ s.waiting[l] # <<>>
       /\ r.waiting[l] = Tail(s.waiting[l])
       /\ r.owners[l] \subseteq s.owners[l] \cup {Head(s.waiting[l])}

(* How the queue of a lock or an event may change, from q to p. *)
KeepsTurns(p, q) ==
  \/ p = q
  \/ \E t \in Threads \ Range(q) : p = Append(q, t)
  \/ q # <<>> /\ p = Tail(q)
  \/ p = <<>>

EventsInTurn(r, s) == \A e \in Events : KeepsTurns(r.waiting[e], s.waiting[e])
SameEvents(r, s) == \A e \in Events : r.waiting[e] = s.waiting[e]

SameTurns(r, s) ==
  \A l \in Locks : r.waiting[l] = s.waiting[l] /\ r.owners[l] = s.owners[l]

(* Steps that touch no queue and no owner may come before one in turn.      *)
LEMMA SameInTurn ==
  ASSUME NEW r, NEW q, NEW s, SameTurns(q, s)
  PROVE  InTurn(q, s) /\ (InTurn(r, q) => InTurn(r, s))
         /\ (SameTurns(r, q) => SameTurns(r, s))
  BY DEF SameTurns, InTurn

(* The order of two threads of a queue survives an append and a tail.      *)
LEMMA AheadAfter ==
  ASSUME NEW q \in Seq(Threads), IsQueue(q), NEW t \in Threads, NEW u
  PROVE  /\ \A x \in Threads : x # t /\ Ahead(Append(q, x), u, t) => Ahead(q, u, t)
         /\ q # <<>> /\ Ahead(Tail(q), u, t) => Ahead(q, u, t)
         /\ q # <<>> /\ t \in Range(q) /\ t # Head(q) => Ahead(q, Head(q), t)
  <1>1. ASSUME NEW x \in Threads, x # t, Ahead(Append(q, x), u, t)
        PROVE  Ahead(q, u, t)
    <2>1. PICK i, j \in DOMAIN Append(q, x) :
            i < j /\ Append(q, x)[i] = u /\ Append(q, x)[j] = t
      BY <1>1 DEF Ahead
    <2>2. j \in DOMAIN q /\ i \in DOMAIN q /\ q[i] = u /\ q[j] = t
      BY <1>1, <2>1
    <2> QED BY <2>1, <2>2 DEF Ahead
  <1>2. ASSUME q # <<>>, Ahead(Tail(q), u, t)
        PROVE  Ahead(q, u, t)
    <2>1. PICK i, j \in DOMAIN Tail(q) :
            i < j /\ Tail(q)[i] = u /\ Tail(q)[j] = t
      BY <1>2 DEF Ahead
    <2>2. i + 1 \in DOMAIN q /\ j + 1 \in DOMAIN q /\ i + 1 < j + 1
          /\ q[i + 1] = u /\ q[j + 1] = t
      BY <1>2, <2>1
    <2> QED BY <2>2 DEF Ahead
  <1>3. ASSUME q # <<>>, t \in Range(q), t # Head(q)
        PROVE  Ahead(q, Head(q), t)
    <2>1. PICK j \in 1..Len(q) : q[j] = t
      BY <1>3, InQueue
    <2>2. 1 \in DOMAIN q /\ j \in DOMAIN q /\ 1 < j /\ q[1] = Head(q)
      BY <1>3, <2>1
    <2> QED BY <2>1, <2>2 DEF Ahead
  <1> QED BY <1>1, <1>2, <1>3

(* Of two members of a queue that moves, the one behind neither gets ahead *)
(* nor leaves alone.                                                       *)
LEMMA MovesOvertakeNobody ==
  ASSUME NEW q \in Seq(Threads), IsQueue(q), NEW p, KeepsTurns(p, q),
         NEW t \in Threads, NEW u \in Threads,
         t \in Range(q), t \in Range(p), u # t, ~ Ahead(q, u, t)
  PROVE  ~ Ahead(p, u, t) /\ (u \in Range(q) => u \in Range(p))
  <1>1. q # <<>> /\ p # <<>>
    BY DEF Range
  <1>2. ASSUME NEW x \in Threads \ Range(q), p = Append(q, x)
        PROVE  ~ Ahead(p, u, t) /\ (u \in Range(q) => u \in Range(p))
    <2>1. x # t
      BY <1>2
    <2>2. Range(Append(q, x)) = Range(q) \cup {x}
      BY <1>2, AppendQueue
    <2> QED BY <1>2, <2>1, <2>2, AheadAfter
  <1>3. CASE p = Tail(q)
    <2>1. Range(Tail(q)) = Range(q) \ {Head(q)}
      BY <1>1, TailQueue
    <2>2. t # Head(q)
      BY <1>3, <2>1
    <2>3. Ahead(q, Head(q), t)
      BY <1>1, <2>2, AheadAfter
    <2>4. u # Head(q)
      BY <2>3
    <2> QED BY <1>1, <1>3, <2>1, <2>4, AheadAfter
  <1> QED BY <1>1, <1>2, <1>3 DEF KeepsTurns

(* Operations that go in turn overtake nobody. *)
LEMMA InTurnOvertakesNobody ==
  ASSUME NEW s, Consistent(s), NEW r, InTurn(r, s), NEW l \in Locks,
         NEW t \in Threads, NEW u \in Threads,
         t \in Range(s.waiting[l]), t \in Range(r.waiting[l]), u # t,
         ~ Ahead(s.waiting[l], u, t)
  PROVE  /\ ~ Ahead(r.waiting[l], u, t)
         /\ u \in Range(s.waiting[l]) => u \in Range(r.waiting[l])
         /\ u \notin r.owners[l] \ s.owners[l]
  <1> DEFINE q == s.waiting[l]
  <1>1. q \in Seq(Threads) /\ IsQueue(q)
    BY Lists DEF Queues
  <1>2. q # <<>>
    BY DEF Range
  <1>3. KeepsTurns(r.waiting[l], q)
    BY DEF InTurn, KeepsTurns
  <1>4. /\ ~ Ahead(r.waiting[l], u, t)
        /\ u \in Range(q) => u \in Range(r.waiting[l])
    <2> HIDE DEF q
    <2> QED BY <1>1, <1>3, MovesOvertakeNobody DEF q
  <1>5. CASE r.owners[l] \subseteq s.owners[l]
    BY <1>4, <1>5
  <1>6. CASE /\ r.waiting[l] = Tail(q)
             /\ r.owners[l] \subseteq s.owners[l] \cup {Head(q)}
    <2> HIDE DEF q
    <2>1. /\ Range(Tail(q)) = Range(q) \ {Head(q)}
      BY <1>1, <1>2, TailQueue
    <2>2. t \in Range(q) /\ t # Head(q)
      BY <1>6, <2>1
    <2>3. Ahead(q, Head(q), t) /\ ~ Ahead(q, u, t)
      BY <1>1, <1>2, <2>2, AheadAfter DEF q
    <2> QED BY <1>4, <1>6, <2>3 DEF q
  <1> QED BY <1>2, <1>5, <1>6 DEF InTurn

(* The operations on the ring alone touch no queue and no owner. *)
LEMMA RingSameTurns ==
  ASSUME NEW s \in VMStates, NEW t \in Threads
  PROVE  /\ SameTurns(SuspendThread(s, t), s)
         /\ SameTurns(WakeupThread(s, t), s)
         /\ SameTurns(ThreadMake(s, t), s)
         /\ SameTurns(ThreadStop(s, t), s)
         /\ SameTurns(ThreadRestart(s, t), s)
         /\ SameTurns(ThreadDebuggered(s, t), s)
         /\ SameTurns([s EXCEPT !.fault = "crash"], s)
         /\ SameTurns([s EXCEPT !.suspendCount[t] = 1], s)
  <1>1. SameTurns(SuspendThread(s, t), s) /\ SameTurns(WakeupThread(s, t), s)
    BY DEF SameTurns, SuspendThread, WakeupThread, VMStates
  <1>2. SameTurns(ThreadMake(s, t), s)
    BY DEF SameTurns, ThreadMake, VMStates
  <1>3. SameTurns(ThreadStop(s, t), s)
    BY DEF SameTurns, ThreadStop, SuspendThread, VMStates
  <1>4. SameTurns(ThreadRestart(s, t), s)
    BY DEF SameTurns, ThreadRestart, WakeupThread, VMStates
  <1>5. SameTurns(ThreadDebuggered(s, t), s)
    BY DEF SameTurns, ThreadDebuggered, SuspendThread, VMStates
  <1>6. /\ SameTurns([s EXCEPT !.fault = "crash"], s)
        /\ SameTurns([s EXCEPT !.suspendCount[t] = 1], s)
    BY DEF SameTurns, VMStates
  <1> QED BY <1>1, <1>2, <1>3, <1>4, <1>5, <1>6

(* The driver's steps touch no queue and no owner.                         *)
LEMMA DriverSameTurns ==
  ASSUME NEW s \in VMStates
  PROVE  /\ SameTurns(PickThread(s), s)
         /\ SameTurns([s EXCEPT !.current = NoThread], s)
  BY DEF SameTurns, PickThread, VMStates

(* lock_grab appends, or takes a lock for which nobody waits.              *)
LEMMA LockGrabInTurn ==
  ASSUME NEW s, Consistent(s), LocksAgree(s), NEW t \in Threads,
         s.status[t] = "Running", NEW l \in Locks
  PROVE  InTurn(LockGrab(s, t, l), s)
  <1>1. s \in VMStates /\ l \in Queues
    BY DEF Consistent, Queues
  <1>2. CASE s.locked[l]
    <2> DEFINE q == Enqueue(s, t, l, "Blocked")
    <2>1. /\ q.waiting = [s.waiting EXCEPT ![l] = Append(@, t)]
          /\ q.owners = s.owners
      <3>1. "Blocked" = IF l \in Locks THEN "Blocked" ELSE "Waiting"
        OBVIOUS
      <3> HIDE DEF q
      <3> QED BY <1>1, <3>1, EnqueueConsistent DEF q
    <2>2. LockGrab(s, t, l) = q
      BY <1>2 DEF LockGrab
    <2> HIDE DEF q
    <2>3. t \notin Range(s.waiting[l])
      BY <1>1, Waiter
    <2>4. \A k \in Locks : q.waiting[k] = IF k = l THEN Append(s.waiting[l], t)
                                          ELSE s.waiting[k]
      BY <1>1, <2>1 DEF VMStates, Queues
    <2> QED BY <2>1, <2>2, <2>3, <2>4 DEF InTurn
  <1>3. CASE ~ s.locked[l]
    <2>1. s.waiting[l] = <<>>
      BY <1>3 DEF LocksAgree, WaitedAreLocked
    <2>2. /\ LockGrab(s, t, l).waiting = s.waiting
          /\ \A k \in Locks \ {l} : LockGrab(s, t, l).owners[k] = s.owners[k]
      BY <1>1, <1>3 DEF LockGrab, VMStates
    <2> QED BY <2>1, <2>2 DEF InTurn
  <1> QED BY <1>2, <1>3

(* lock_release hands the lock to the head of its queue.                   *)
LEMMA LockReleaseInTurn ==
  ASSUME NEW s, Consistent(s), NEW t \in Threads, NEW l \in Locks
  PROVE  InTurn(LockRelease(s, t, l), s)
  <1>1. s \in VMStates /\ l \in Queues
    BY DEF Consistent, Queues
  <1>2. CASE s.waiting[l] # <<>>
    <2> DEFINE u == Head(s.waiting[l])
               q == WakeFirst(s, l)
               mine == (s.owners[l] \ {t}) \cup {u}
    <2>1. /\ q.waiting = [s.waiting EXCEPT ![l] = Tail(@)]
          /\ q.owners = s.owners /\ Consistent(q)
      <3> HIDE DEF u, q
      <3> QED BY <1>1, <1>2, WakeFirstConsistent DEF u, q
    <2>2. LockRelease(s, t, l) = [q EXCEPT !.owners[l] = (@ \ {t}) \cup {u}]
      BY <1>2 DEF LockRelease
    <2> HIDE DEF q, u
    <2>3. q \in VMStates
      BY <2>1 DEF Consistent
    <2>4. /\ LockRelease(s, t, l).waiting = q.waiting
          /\ LockRelease(s, t, l).owners = [s.owners EXCEPT ![l] = mine]
      BY <2>1, <2>2, <2>3 DEF VMStates
    <2>5. \A k \in Locks :
            /\ LockRelease(s, t, l).waiting[k] =
                 IF k = l THEN Tail(s.waiting[l]) ELSE s.waiting[k]
            /\ LockRelease(s, t, l).owners[k] =
                 IF k = l THEN mine ELSE s.owners[k]
      BY <1>1, <2>1, <2>4 DEF VMStates, Queues
    <2> QED BY <1>2, <2>5 DEF InTurn, u
  <1>3. CASE s.waiting[l] = <<>>
    <2>1. /\ LockRelease(s, t, l).waiting = s.waiting
          /\ \A k \in Locks : LockRelease(s, t, l).owners[k] \subseteq s.owners[k]
      BY <1>1, <1>3 DEF LockRelease, VMStates
    <2> QED BY <2>1 DEF InTurn
  <1> QED BY <1>2, <1>3

(* What changes only the queue of an event leaves the locks alone. *)
LEMMA EventSameTurns ==
  ASSUME NEW s \in VMStates, NEW e \in Events, NEW r, NEW q,
         r.waiting = [s.waiting EXCEPT ![e] = q], r.owners = s.owners
  PROVE  SameTurns(r, s)
  BY ObjectsAssumption DEF SameTurns, VMStates, Queues

(* event_wait queues the thread at the event, then releases the lock.      *)
LEMMA EventWaitInTurn ==
  ASSUME NEW s, Consistent(s), NEW t \in Threads, s.status[t] = "Running",
         NEW e \in Events, NEW l \in Locks \cup {NoObj}
  PROVE  InTurn(EventWait(s, t, e, l), s)
  <1> DEFINE q == Enqueue(s, t, e, "Waiting")
  <1>1. /\ Consistent(q)
        /\ q.waiting = [s.waiting EXCEPT ![e] = Append(@, t)]
        /\ q.owners = s.owners
    <2>1. /\ "Waiting" = IF e \in Locks THEN "Blocked" ELSE "Waiting"
          /\ e \in Queues
      BY ObjectsAssumption DEF Queues
    <2> HIDE DEF q
    <2> QED BY <2>1, EnqueueConsistent DEF q
  <1>2. EventWait(s, t, e, l) = IF l = NoObj THEN q ELSE LockRelease(q, t, l)
    BY DEF EventWait
  <1> HIDE DEF q
  <1>3. s \in VMStates
    BY DEF Consistent
  <1>4. SameTurns(q, s)
    BY <1>1, <1>3, EventSameTurns
  <1>5. l # NoObj => InTurn(LockRelease(q, t, l), q)
    BY <1>1, LockReleaseInTurn
  <1> QED BY <1>2, <1>4, <1>5, SameInTurn

(* event_signal and event_broadcast touch no lock.                         *)
LEMMA EventWakesInTurn ==
  ASSUME NEW s, Consistent(s), NEW e \in Events
  PROVE  InTurn(EventSignal(s, e), s) /\ InTurn(EventBroadcast(s, e), s)
  <1>1. s \in VMStates /\ e \in Queues
    BY DEF Consistent, Queues
  <1>2. SameTurns(EventSignal(s, e), s)
    <2>1. CASE s.waiting[e] # <<>>
      <3>1. /\ WakeFirst(s, e).waiting = [s.waiting EXCEPT ![e] = Tail(@)]
            /\ WakeFirst(s, e).owners = s.owners
        BY <1>1, <2>1, WakeFirstConsistent
      <3>2. EventSignal(s, e) = WakeFirst(s, e)
        BY <2>1 DEF EventSignal
      <3> QED BY <1>1, <3>1, <3>2, EventSameTurns
    <2>2. CASE s.waiting[e] = <<>>
      BY <2>2 DEF EventSignal, SameTurns
    <2> QED BY <2>1, <2>2
  <1>3. SameTurns(EventBroadcast(s, e), s)
    <2>1. /\ EventBroadcast(s, e).waiting = [s.waiting EXCEPT ![e] = <<>>]
          /\ EventBroadcast(s, e).owners = s.owners
      BY <1>1 DEF EventBroadcast, VMStates
    <2> QED BY <1>1, <2>1, EventSameTurns
  <1> QED BY <1>2, <1>3, SameInTurn

(* A killed thread leaves the head of its queue; from behind it, the VM    *)
(* hangs instead.                                                          *)
LEMMA ThreadKillInTurn ==
  ASSUME NEW s, Consistent(s), NEW t \in Threads
  PROVE  /\ InTurn(ThreadKill(s, t), s)
         /\ InTurn([ThreadKill(s, t) EXCEPT !.status[t] = "Exited"], s)
  <1> DEFINE p == Unlink(s, t)
  <1>1. s \in VMStates
    BY DEF Consistent
  <1>3. InTurn(p, s)
    <2>1. CASE s.status[t] = "Running"
      BY <1>1, <2>1, RingSameTurns, SameInTurn DEF Unlink
    <2>2. CASE s.status[t] \in {"Blocked", "Waiting"}
      <3> DEFINE o == s.datum[t]
      <3>1. p = RemoveFromQueue(s, t)
        BY <2>2 DEF Unlink
      <3>2. CASE p \in {[s EXCEPT !.fault = "crash"], [s EXCEPT !.fault = "hang"]}
        <4>1. SameTurns(p, s)
          BY <1>1, <3>2 DEF SameTurns, VMStates
        <4> QED BY <4>1, SameInTurn
      <3>4. CASE ~ (o = NoObj \/ s.waiting[o] = <<>>) /\ Head(s.waiting[o]) = t
        <4>1. p = [s EXCEPT !.waiting[o] = Tail(@),
                            !.datum[t] = IF o \in Events THEN NoObj ELSE @]
          BY <3>1, <3>4 DEF RemoveFromQueue
        <4>2. o \in Queues
          BY <1>1, <3>4 DEF VMStates
        <4>3. /\ p.waiting = [s.waiting EXCEPT ![o] = Tail(@)]
              /\ p.owners = s.owners
          BY <1>1, <4>1 DEF VMStates
        <4>4. \A k \in Locks : p.waiting[k] = IF k = o THEN Tail(s.waiting[k])
                                              ELSE s.waiting[k]
          BY <1>1, <4>2, <4>3 DEF VMStates, Queues
        <4> QED BY <3>4, <4>3, <4>4 DEF InTurn
      <3> QED BY <3>1, <3>2, <3>4 DEF RemoveFromQueue
    <2>3. CASE s.status[t] \notin {"Running", "Blocked", "Waiting"}
      <3>1. p = s
        BY <2>3 DEF Unlink
      <3> QED BY <3>1 DEF InTurn
    <2> QED BY <2>1, <2>2, <2>3
  <1>4. /\ ThreadKill(s, t).waiting = p.waiting
        /\ ThreadKill(s, t).owners = p.owners
        /\ [ThreadKill(s, t) EXCEPT !.status[t] = "Exited"].waiting = p.waiting
        /\ [ThreadKill(s, t) EXCEPT !.status[t] = "Exited"].owners = p.owners
    <2>1. DOMAIN p = DOMAIN s
      BY DEF Unlink, RemoveFromQueue, SuspendThread
    <2>2. {"waiting", "owners"} \subseteq DOMAIN s
      BY <1>1 DEF VMStates
    <2> HIDE DEF p
    <2> QED BY <2>1, <2>2 DEF ThreadKill, p
  <1> QED BY <1>3, <1>4 DEF InTurn

(* Every step of the system goes in turn. *)
LEMMA NextInTurn ==
  ASSUME IInv, [Next]_vars
  PROVE  InTurn(vm', vm)
  <1>1. Consistent(vm) /\ LocksAgree(vm) /\ vm \in VMStates
    BY DEF IInv, Consistent
  <1>2. ASSUME NEW t \in Threads, Spawn(t) PROVE InTurn(vm', vm)
    <2>1. PICK u \in Threads : /\ IsNextId(vm, u)
                               /\ vm' = ThreadRestart(ThreadMake(vm, u), u)
      BY <1>2 DEF Spawn
    <2>2. ThreadMake(vm, u) \in VMStates
      BY <1>1, <2>1, ThreadMakeConsistent DEF IsNextId, Consistent
    <2>3. SameTurns(ThreadMake(vm, u), vm)
      BY <1>1, RingSameTurns
    <2>4. SameTurns(vm', ThreadMake(vm, u))
      BY <2>1, <2>2, RingSameTurns
    <2> QED BY <2>3, <2>4, SameInTurn
  <1>3. ASSUME NEW t \in Threads, NEW l \in Locks, GrabLock(t, l)
        PROVE  InTurn(vm', vm)
    BY <1>1, <1>3, ExecutesRunning, LockGrabInTurn DEF GrabLock
  <1>4. ASSUME NEW t \in Threads, NEW l \in Locks, ReleaseLock(t, l)
        PROVE  InTurn(vm', vm)
    BY <1>1, <1>4, LockReleaseInTurn DEF ReleaseLock
  <1>5. ASSUME NEW t \in Threads, NEW e \in Events,
               NEW l \in Locks \cup {NoObj}, WaitForEvent(t, e, l)
        PROVE  InTurn(vm', vm)
    BY <1>1, <1>5, ExecutesRunning, EventWaitInTurn DEF WaitForEvent
  <1>6. ASSUME NEW t \in Threads, NEW e \in Events,
               SignalEvent(t, e) \/ BroadcastEvent(t, e)
        PROVE  InTurn(vm', vm)
    BY <1>1, <1>6, EventWakesInTurn DEF SignalEvent, BroadcastEvent
  <1>7. ASSUME NEW t \in Threads, NEW u \in Threads, KillThread(t, u)
        PROVE  InTurn(vm', vm)
    BY <1>1, <1>7, ThreadKillInTurn, RingSameTurns, SameInTurn DEF KillThread
  <1>8. ASSUME NEW t \in Threads, ExitThread(t) PROVE InTurn(vm', vm)
    BY <1>1, <1>8, ThreadKillInTurn DEF ExitThread
  <1>9. ASSUME NEW t \in Threads, InvokeDebugger(t) PROVE InTurn(vm', vm)
    <2>1. vm' = [ThreadDebuggered(vm, t) EXCEPT !.current = NoThread]
      BY <1>9 DEF InvokeDebugger
    <2>2. ThreadDebuggered(vm, t) \in VMStates
      BY <1>9, ExecutesRunning, ThreadDebuggeredConsistent
         DEF InvokeDebugger, Consistent
    <2>3. SameTurns(ThreadDebuggered(vm, t), vm)
      BY <1>1, RingSameTurns
    <2>4. SameTurns(vm', ThreadDebuggered(vm, t))
      BY <2>1, <2>2, DriverSameTurns
    <2> QED BY <2>3, <2>4, SameInTurn
  <1>10. ASSUME NEW t \in Threads, UserCommand(t) PROVE InTurn(vm', vm)
    <2>1. CASE KillCommand(t)
      BY <1>1, <2>1, ThreadKillInTurn DEF KillCommand
    <2>2. CASE DisableCommand(t)
      BY <1>1, <2>2, RingSameTurns, SameInTurn DEF DisableCommand
    <2>3. CASE EnableCommand(t)
      <3> DEFINE q == [vm EXCEPT !.suspendCount[t] = 1]
      <3>1. vm' = ThreadRestart(q, t)
        BY <2>3 DEF EnableCommand
      <3>2. q \in VMStates
        BY <1>1 DEF VMStates
      <3>3. SameTurns(q, vm)
        BY <1>1, RingSameTurns
      <3> HIDE DEF q
      <3> QED BY <3>1, <3>2, <3>3, RingSameTurns, SameInTurn
    <2> QED BY <1>10, <2>1, <2>2, <2>3 DEF UserCommand
  <1>11. CASE PickNext \/ Interrupt
    BY <1>1, <1>11, DriverSameTurns, SameInTurn DEF PickNext, Interrupt
  <1>12. CASE ContinueCommand \/ UNCHANGED vars
    BY <1>12 DEF ContinueCommand, vars, InTurn
  <1> QED BY <1>2, <1>3, <1>4, <1>5, <1>6, <1>7, <1>8, <1>9, <1>10, <1>11, <1>12
          DEF Next, ProgramStep

-----------------------------------------------------------------------------
(***************************************************************************)
(* The same of the queues of events, for which there are no owners; a      *)
(* broadcast wakes all waiters at once.                                    *)
(***************************************************************************)

(* The operations on the ring alone, and the driver's, touch no queue.     *)
LEMMA TablesKeepQueues ==
  ASSUME NEW s \in VMStates, NEW t \in Threads
  PROVE  /\ SuspendThread(s, t).waiting = s.waiting
         /\ ThreadMake(s, t).waiting = s.waiting
         /\ ThreadStop(s, t).waiting = s.waiting
         /\ ThreadRestart(s, t).waiting = s.waiting
         /\ ThreadDebuggered(s, t).waiting = s.waiting
         /\ PickThread(s).waiting = s.waiting
         /\ [s EXCEPT !.fault = "crash"].waiting = s.waiting
         /\ [s EXCEPT !.current = NoThread].waiting = s.waiting
  <1>1. SuspendThread(s, t).waiting = s.waiting
    BY DEF SuspendThread, VMStates
  <1>2. ThreadMake(s, t).waiting = s.waiting
    BY DEF ThreadMake, VMStates
  <1>3. ThreadStop(s, t).waiting = s.waiting
    BY DEF ThreadStop, SuspendThread, VMStates
  <1>4. ThreadRestart(s, t).waiting = s.waiting
    BY DEF ThreadRestart, WakeupThread, VMStates
  <1>5. ThreadDebuggered(s, t).waiting = s.waiting
    BY DEF ThreadDebuggered, SuspendThread, VMStates
  <1>6. PickThread(s).waiting = s.waiting
    BY DEF PickThread, VMStates
  <1>7. /\ [s EXCEPT !.fault = "crash"].waiting = s.waiting
        /\ [s EXCEPT !.current = NoThread].waiting = s.waiting
    BY DEF VMStates
  <1> QED BY <1>1, <1>2, <1>3, <1>4, <1>5, <1>6, <1>7

LEMMA SameEventsInTurn ==
  ASSUME NEW r, NEW q, NEW s, SameEvents(r, q)
  PROVE  /\ EventsInTurn(q, s) => EventsInTurn(r, s)
         /\ q = s => EventsInTurn(r, s)
  BY DEF SameEvents, EventsInTurn, KeepsTurns

(* The queue of one lock or event moves, the others stay. *)
LEMMA OneMoves ==
  ASSUME NEW s \in VMStates, NEW o \in Queues, NEW q, NEW r,
         r.waiting = [s.waiting EXCEPT ![o] = q],
         o \in Locks \/ KeepsTurns(q, s.waiting[o])
  PROVE  EventsInTurn(r, s)
  <1> SUFFICES ASSUME NEW e \in Events PROVE KeepsTurns(r.waiting[e], s.waiting[e])
    BY DEF EventsInTurn
  <1>1. e \in Queues /\ e \notin Locks /\ s.waiting \in [Queues -> Seq(Threads)]
    BY ObjectsAssumption DEF Queues, VMStates
  <1>2. CASE e = o
    <2>1. r.waiting[e] = q
      BY <1>1, <1>2
    <2> QED BY <1>1, <1>2, <2>1
  <1>3. CASE e # o
    <2>1. r.waiting[e] = s.waiting[e]
      BY <1>1, <1>3
    <2> QED BY <2>1 DEF KeepsTurns
  <1> QED BY <1>2, <1>3

(* What happens at a lock leaves the events alone. *)
LEMMA LocksKeepEvents ==
  ASSUME NEW s, Consistent(s), NEW t \in Threads, NEW l \in Locks
  PROVE  /\ SameEvents(LockRelease(s, t, l), s)
         /\ s.status[t] = "Running" => EventsInTurn(LockGrab(s, t, l), s)
  <1>1. s \in VMStates /\ l \in Queues
    BY DEF Consistent, Queues
  <1>2. \A r, q : r.waiting = [s.waiting EXCEPT ![l] = q] => SameEvents(r, s)
    BY <1>1, ObjectsAssumption DEF SameEvents, VMStates, Queues
  <1>3. SameEvents(LockRelease(s, t, l), s)
    <2>1. CASE s.waiting[l] # <<>>
      <3> DEFINE w == WakeFirst(s, l)
      <3>1. w \in VMStates /\ w.waiting = [s.waiting EXCEPT ![l] = Tail(@)]
        BY <1>1, <2>1, WakeFirstConsistent DEF Consistent
      <3>2. LockRelease(s, t, l) =
              [w EXCEPT !.owners[l] = (@ \ {t}) \cup {Head(s.waiting[l])}]
        BY <2>1 DEF LockRelease
      <3> HIDE DEF w
      <3>3. LockRelease(s, t, l).waiting = w.waiting
        BY <3>1, <3>2 DEF VMStates
      <3> QED BY <1>2, <3>1, <3>3
    <2>2. CASE s.waiting[l] = <<>>
      <3>1. LockRelease(s, t, l).waiting = s.waiting
        BY <1>1, <2>2 DEF LockRelease, VMStates
      <3> QED BY <3>1 DEF SameEvents
    <2> QED BY <2>1, <2>2
  <1>4. ASSUME s.status[t] = "Running" PROVE EventsInTurn(LockGrab(s, t, l), s)
    <2>1. CASE s.locked[l]
      <3>1. Enqueue(s, t, l, "Blocked").waiting = [s.waiting EXCEPT ![l] = Append(@, t)]
        BY <1>1, <1>4, EnqueueConsistent
      <3>2. LockGrab(s, t, l) = Enqueue(s, t, l, "Blocked")
        BY <2>1 DEF LockGrab
      <3> QED BY <1>1, <3>1, <3>2, OneMoves
    <2>2. CASE ~ s.locked[l]
      <3>1. LockGrab(s, t, l).waiting = s.waiting
        BY <1>1, <2>2 DEF LockGrab, VMStates
      <3> QED BY <3>1, SameEventsInTurn DEF SameEvents
    <2> QED BY <2>1, <2>2
  <1> QED BY <1>3, <1>4

(* event_wait appends the thread, which waits nowhere else. *)
LEMMA EventWaitMoves ==
  ASSUME NEW s, Consistent(s), NEW t \in Threads, s.status[t] = "Running",
         NEW e \in Events, NEW l \in Locks \cup {NoObj}
  PROVE  EventsInTurn(EventWait(s, t, e, l), s)
  <1> DEFINE q == Enqueue(s, t, e, "Waiting")
  <1>1. s \in VMStates /\ e \in Queues /\ e \notin Locks
    BY ObjectsAssumption DEF Consistent, Queues
  <1>2. Consistent(q) /\ q.waiting = [s.waiting EXCEPT ![e] = Append(@, t)]
    <2> HIDE DEF q
    <2> QED BY <1>1, EnqueueConsistent DEF q
  <1>3. EventWait(s, t, e, l) = IF l = NoObj THEN q ELSE LockRelease(q, t, l)
    BY DEF EventWait
  <1> HIDE DEF q
  <1>4. t \notin Range(s.waiting[e])
    BY <1>1, Waiter
  <1>5. EventsInTurn(q, s)
    <2>1. KeepsTurns(Append(s.waiting[e], t), s.waiting[e])
      BY <1>4 DEF KeepsTurns
    <2> QED BY <1>1, <1>2, <2>1, OneMoves
  <1>6. l # NoObj => SameEvents(LockRelease(q, t, l), q)
    BY <1>2, LocksKeepEvents
  <1> QED BY <1>3, <1>5, <1>6, SameEventsInTurn

(* event_signal takes the head off the queue, event_broadcast all of it.   *)
LEMMA EventWakesMove ==
  ASSUME NEW s, Consistent(s), NEW e \in Events
  PROVE  EventsInTurn(EventSignal(s, e), s) /\ EventsInTurn(EventBroadcast(s, e), s)
  <1>1. s \in VMStates /\ e \in Queues
    BY DEF Consistent, Queues
  <1>2. EventsInTurn(EventSignal(s, e), s)
    <2>1. CASE s.waiting[e] # <<>>
      <3>1. WakeFirst(s, e).waiting = [s.waiting EXCEPT ![e] = Tail(@)]
        BY <1>1, <2>1, WakeFirstConsistent
      <3>2. EventSignal(s, e) = WakeFirst(s, e)
        BY <2>1 DEF EventSignal
      <3>3. KeepsTurns(Tail(s.waiting[e]), s.waiting[e])
        BY <2>1 DEF KeepsTurns
      <3> QED BY <1>1, <3>1, <3>2, <3>3, OneMoves
    <2>2. CASE s.waiting[e] = <<>>
      BY <2>2, SameEventsInTurn DEF EventSignal, SameEvents
    <2> QED BY <2>1, <2>2
  <1>3. EventsInTurn(EventBroadcast(s, e), s)
    <2>1. EventBroadcast(s, e).waiting = [s.waiting EXCEPT ![e] = <<>>]
      BY <1>1 DEF EventBroadcast, VMStates
    <2>2. KeepsTurns(<<>>, s.waiting[e])
      BY DEF KeepsTurns
    <2> QED BY <1>1, <2>1, <2>2, OneMoves
  <1> QED BY <1>2, <1>3

(* A killed thread leaves the head of its queue, or none. *)
LEMMA ThreadKillMoves ==
  ASSUME NEW s, Consistent(s), NEW t \in Threads
  PROVE  /\ EventsInTurn(ThreadKill(s, t), s)
         /\ EventsInTurn([ThreadKill(s, t) EXCEPT !.status[t] = "Exited"], s)
  <1> DEFINE p == Unlink(s, t)
             o == s.datum[t]
  <1>1. s \in VMStates
    BY DEF Consistent
  <1>2. EventsInTurn(p, s)
    <2>1. CASE p.waiting = s.waiting
      BY <2>1, SameEventsInTurn DEF SameEvents
    <2>2. CASE /\ s.status[t] \in {"Blocked", "Waiting"}
               /\ ~ (o = NoObj \/ s.waiting[o] = <<>>) /\ Head(s.waiting[o]) = t
      <3>1. p = [s EXCEPT !.waiting[o] = Tail(@),
                          !.datum[t] = IF o \in Events THEN NoObj ELSE @]
        BY <2>2 DEF Unlink, RemoveFromQueue
      <3>2. o \in Queues
        BY <1>1, <2>2 DEF VMStates
      <3>3. p.waiting = [s.waiting EXCEPT ![o] = Tail(@)]
        BY <1>1, <3>1 DEF VMStates
      <3>4. KeepsTurns(Tail(s.waiting[o]), s.waiting[o])
        BY <2>2 DEF KeepsTurns
      <3> HIDE DEF p, o
      <3> QED BY <1>1, <3>2, <3>3, <3>4, OneMoves
    <2>3. CASE /\ s.status[t] \in {"Blocked", "Waiting"}
               /\ o = NoObj \/ s.waiting[o] = <<>> \/ Head(s.waiting[o]) # t
      <3>1. p \in {[s EXCEPT !.fault = "crash"], [s EXCEPT !.fault = "hang"]}
        BY <2>3 DEF Unlink, RemoveFromQueue
      <3>2. p.waiting = s.waiting
        BY <1>1, <3>1 DEF VMStates
      <3> QED BY <2>1, <3>2
    <2>4. CASE s.status[t] \notin {"Blocked", "Waiting"}
      <3>1. p.waiting = s.waiting
        BY <1>1, <2>4, TablesKeepQueues DEF Unlink
      <3> QED BY <2>1, <3>1
    <2> QED BY <2>2, <2>3, <2>4
  <1>3. /\ ThreadKill(s, t).waiting = p.waiting
        /\ [ThreadKill(s, t) EXCEPT !.status[t] = "Exited"].waiting = p.waiting
    <2>1. DOMAIN p = DOMAIN s
      BY DEF Unlink, RemoveFromQueue, SuspendThread
    <2>2. "waiting" \in DOMAIN s
      BY <1>1 DEF VMStates
    <2> HIDE DEF p
    <2> QED BY <2>1, <2>2 DEF ThreadKill, p
  <1> QED BY <1>2, <1>3, SameEventsInTurn DEF SameEvents

(* Every step moves the queues of events in turn. *)
LEMMA NextMovesEvents ==
  ASSUME IInv, [Next]_vars
  PROVE  EventsInTurn(vm', vm)
  <1>1. Consistent(vm) /\ vm \in VMStates
    BY DEF IInv, Consistent
  <1>2. vm'.waiting = vm.waiting => EventsInTurn(vm', vm)
    BY SameEventsInTurn DEF SameEvents
  <1>3. ASSUME NEW t \in Threads, Spawn(t) PROVE EventsInTurn(vm', vm)
    <2>1. PICK u \in Threads : /\ IsNextId(vm, u)
                               /\ vm' = ThreadRestart(ThreadMake(vm, u), u)
      BY <1>3 DEF Spawn
    <2>2. ThreadMake(vm, u) \in VMStates
      BY <1>1, <2>1, ThreadMakeConsistent DEF IsNextId, Consistent
    <2>3. vm'.waiting = ThreadMake(vm, u).waiting
      BY <2>1, <2>2, TablesKeepQueues
    <2> QED BY <1>1, <1>2, <2>3, TablesKeepQueues
  <1>4. ASSUME NEW t \in Threads, NEW l \in Locks, GrabLock(t, l) \/ ReleaseLock(t, l)
        PROVE  EventsInTurn(vm', vm)
    <2>1. vm.status[t] = "Running"
      BY <1>4, ExecutesRunning DEF GrabLock, ReleaseLock
    <2> QED BY <1>1, <1>4, <2>1, LocksKeepEvents, SameEventsInTurn DEF GrabLock, ReleaseLock
  <1>5. ASSUME NEW t \in Threads, NEW e \in Events,
               NEW l \in Locks \cup {NoObj}, WaitForEvent(t, e, l)
        PROVE  EventsInTurn(vm', vm)
    BY <1>1, <1>5, ExecutesRunning, EventWaitMoves DEF WaitForEvent
  <1>6. ASSUME NEW t \in Threads, NEW e \in Events,
               SignalEvent(t, e) \/ BroadcastEvent(t, e)
        PROVE  EventsInTurn(vm', vm)
    BY <1>1, <1>6, EventWakesMove DEF SignalEvent, BroadcastEvent
  <1>7. ASSUME NEW t \in Threads, NEW u \in Threads, KillThread(t, u)
        PROVE  EventsInTurn(vm', vm)
    BY <1>1, <1>2, <1>7, ThreadKillMoves, TablesKeepQueues DEF KillThread
  <1>8. ASSUME NEW t \in Threads, ExitThread(t) PROVE EventsInTurn(vm', vm)
    BY <1>1, <1>8, ThreadKillMoves DEF ExitThread
  <1>9. ASSUME NEW t \in Threads, InvokeDebugger(t) PROVE EventsInTurn(vm', vm)
    <2>1. vm' = [ThreadDebuggered(vm, t) EXCEPT !.current = NoThread]
      BY <1>9 DEF InvokeDebugger
    <2>2. ThreadDebuggered(vm, t) \in VMStates
      BY <1>9, ExecutesRunning, ThreadDebuggeredConsistent
         DEF InvokeDebugger, Consistent
    <2> QED BY <1>1, <1>2, <2>1, <2>2, TablesKeepQueues
  <1>10. ASSUME NEW t \in Threads, UserCommand(t) PROVE EventsInTurn(vm', vm)
    <2>1. CASE KillCommand(t)
      BY <1>1, <2>1, ThreadKillMoves DEF KillCommand
    <2>2. CASE DisableCommand(t)
      BY <1>1, <1>2, <2>2, TablesKeepQueues DEF DisableCommand
    <2>3. CASE EnableCommand(t)
      <3> DEFINE q == [vm EXCEPT !.suspendCount[t] = 1]
      <3>1. vm' = ThreadRestart(q, t)
        BY <2>3 DEF EnableCommand
      <3>2. q \in VMStates /\ q.waiting = vm.waiting
        BY <1>1 DEF VMStates
      <3> HIDE DEF q
      <3> QED BY <1>2, <3>1, <3>2, TablesKeepQueues
    <2> QED BY <1>10, <2>1, <2>2, <2>3 DEF UserCommand
  <1>11. CASE PickNext \/ Interrupt
    <2>1. PickThread(vm).waiting = vm.waiting
      BY <1>1 DEF PickThread, VMStates
    <2>2. [vm EXCEPT !.current = NoThread].waiting = vm.waiting
      BY <1>1 DEF VMStates
    <2> QED BY <1>2, <1>11, <2>1, <2>2 DEF PickNext, Interrupt
  <1>12. CASE ContinueCommand \/ UNCHANGED vars
    BY <1>2, <1>12 DEF ContinueCommand, vars
  <1> QED BY <1>3, <1>4, <1>5, <1>6, <1>7, <1>8, <1>9, <1>10, <1>11, <1>12
          DEF Next, ProgramStep

(* While a thread waits for a lock or an event nobody gets ahead of it,    *)
(* neither in the queue, nor by being woken or killed off the queue first, *)
(* nor by being granted the lock: lock_grab and event_wait append,         *)
(* lock_release and event_signal take the head, and a free lock has no     *)
(* queue.                                                                  *)
THEOREM NoBarging == Spec => NoOvertaking
  <1>1. IInv /\ [Next]_vars =>
          [\A o \in Queues : \A t, u \in Threads :
             LET before == vm.waiting[o]  after == vm'.waiting[o]
             IN /\ t \in Range(before) /\ t \in Range(after)
                /\ u # t /\ ~ Ahead(before, u, t)
                => /\ ~ Ahead(after, u, t)
                   /\ u \in Range(before) => u \in Range(after)
                   /\ o \in Locks => u \notin vm'.owners[o] \ vm.owners[o]]_vars
    <2> SUFFICES ASSUME IInv, [Next]_vars, NEW o \in Queues,
                        NEW t \in Threads, NEW u \in Threads,
                        t \in Range(vm.waiting[o]), t \in Range(vm'.waiting[o]),
                        u # t, ~ Ahead(vm.waiting[o], u, t)
                 PROVE  /\ ~ Ahead(vm'.waiting[o], u, t)
                        /\ u \in Range(vm.waiting[o]) => u \in Range(vm'.waiting[o])
                        /\ o \in Locks => u \notin vm'.owners[o] \ vm.owners[o]
      OBVIOUS
    <2>1. Consistent(vm)
      BY DEF IInv
    <2>2. CASE o \in Locks
      BY <2>1, <2>2, NextInTurn, InTurnOvertakesNobody
    <2>3. CASE o \in Events
      <3>1. vm.waiting[o] \in Seq(Threads) /\ IsQueue(vm.waiting[o])
        BY <2>1, Lists
      <3>2. KeepsTurns(vm'.waiting[o], vm.waiting[o])
        BY <2>3, NextMovesEvents DEF EventsInTurn
      <3>3. o \notin Locks
        BY <2>3, ObjectsAssumption
      <3> QED BY <3>1, <3>2, <3>3, MovesOvertakeNobody
    <2> QED BY <2>2, <2>3 DEF Queues
  <1> QED BY <1>1, Invariance, PTL DEF Spec, NoOvertaking
=============================================================================
