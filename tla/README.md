# A verification of the Mindy virtual machine

This directory holds TLA+ models of the run-time core of *Mindy*, the byte-code
interpreter of Gwydion Dylan 2.4, the configurations that model-check them
with TLC, and proofs about them checked by TLAPS.  All line numbers are those of
`src/mindy/interp` unless a path is given.

## 1. Inventory of the system

The repository is a compiler suite with its libraries.  The part with state
that lives long, several actors and an order of events is the Mindy virtual
machine; everything else is batch programs and sequential library code.

| Part | Where | What it does | State | In this project |
|---|---|---|---|---|
| Threads | `thread.c` | green threads, spinlocks, events | run ring, queues, suspend counts | `MindyThreads`, proofs |
| Driver | `driver.c`, `mindy.c` | time slices, signals, descriptors, pauses | pause reason, interrupt flag, descriptor events | `MindyDriver`, proofs |
| Debugger | `debug.c`, escape frames of `thread.c` | prompt, calls on a stopped thread | selected thread, escape frames, suspended others | `MindyDebugger` |
| Byte breakpoints | `brkpt.c`, parts of `interp.c` | patches byte code, steps over the patch | table of installed breakpoints | `MindyBreakpoints` over `PlainRun`, proofs |
| Non-local exits | `nlx.c`, `handler.c` | `block`/`exception`/`cleanup` | catch blocks, unwind-protects, handlers | `MindyNlx`, proofs |
| Dylan locks | `src/mindy/libraries/dylan/{semaphore,multilock}.dylan` | semaphores, recursive locks | slots over a spinlock and an event | `MindySync` over `LockPromise`, proofs |
| Collector, weak pointers | `gc.c`, `weak.c` | copying collection | two spaces of blocks, forwarding, hash state | `MindyCollector` over `HeapPromise`, proofs |
| Tables | `table.c`, `src/mindy/libraries/dylan/table.dylan` | hashing by address, rehash, iteration | buckets, merged hash states | `MindyTables` over `TablePromise`, proofs |
| Generic functions, types | `func.c`, `type.c` | dispatch with a cache | methods and cache of each function | `MindyDispatch`, proofs |
| Classes, slots | `class.c`, `instance.c`, `def.c` | precedence lists, layout of instances | superclasses, slots, positions | `MindyClasses`, proofs |
| Loader | `load.c` | reads files, runs their forms | one set of queues of forms | `MindyLoader`, proofs |
| Byte-code instructions, modules | `interp.c`, `value.c`, `module.c` | execution of one thread, name tables | a stack; tables filled at load time | no |
| Numbers, strings, lists, printing, debugger input | the other files of `interp` | sequential operations on one object | none shared | no |
| Mindy compilers | `src/mindy/comp`, `src/mindy/dbmc` | source to byte code | none at run time | no |
| d2c | `src/d2c` | the native compiler and its single-threaded runtime | none shared | no |
| Libraries, DUIM, platform bindings, tools, demos, tests, packaging | the other directories | Dylan code above the VM, batch tools | none shared | no |

### How the parts interact

`main` (mindy.c 105-163) makes the main thread and calls `do_stuff` (driver.c
268-327).  `do_stuff` picks the head of the run ring, calls its `advance`
function up to 100 times, then rotates the ring; a VM operation that wants
control back calls `mindy_pause`, which records a reason and longjmps out.
A reason other than *pick a new thread* leaves `do_stuff` and enters
`invoke_debugger` (debug.c 2518-2569), which reads commands until one of them
sets `Continue`, and then calls `do_stuff` again.  Commands that run Dylan code
(print, call, abort, return, restart, flush, ...) push an *escape frame* on the
current thread, suspend every other thread, and restart the thread; the C
continuation they install undoes all this when the code returns.
The Dylan classes `<semaphore>` and `<multilock>` are written in Dylan above
`<spinlock>` and `<event>`.  Between two slices the driver may call
`collect_garbage`, which moves every object: the breakpoint table, the tables
that hash by address, and the static caches of types hold what it changes.
Loading runs Dylan code, the forms of a file, and these define classes and
methods, load other files, and may fail; classes decide what a generic function
answers, and a new method must empty its cache.

### Which behaviours are hard

* Everything is cooperative, so inside one C function there is no interleaving,
  but every operation boundary is a switch point, and the prompt lets the user
  change any thread at any boundary.
* The list links are inside the thread: a thread on the wrong list corrupts two.
* Suspend counts are shared by `disable`/`enable` and by every command that
  suspends the others: nobody owns a count.
* Signals arrive at any instruction of the C code.
* Non-local exits skip C continuations.
* Byte code is shared by all threads, and a breakpoint is a change of it.
* A collection comes between any two steps of Dylan code, and changes every
  address that the code has just hashed.
* Loads nest, fail half way, and share one set of queues among all threads.
* One entry of a dispatch cache answers for arguments it was not made for.

### What makes each component correct

* Threads: every thread is on exactly the list its status names; a lock passes
  from owner to first waiter without a gap; nobody overtakes a waiter; a runnable
  thread runs.
* Debugger: a finished command leaves every other thread as it was.
* Driver: a signal is acted upon; who waits for a descriptor is woken.
* Breakpoints: the program runs as it would without them, and stops once at
  each arrival at one.
* Non-local exits: a throw runs exactly the cleanups it leaves, innermost first.
* Dylan locks: they exclude, and do not lose a wake-up.
* Collector: to the program a collection is one step that changes nothing but
  weak pointers to what is gone, and hash states.
* Tables: a mapping, whatever the collector does; iterations visit every key.
* Dispatch: a cached answer is the one that would be computed now, and a more
  specific method comes before those it is more specific than.
* Classes: a precedence list is right or refused; each slot has its own place.
* Loader: a load returns when its forms have run, in an order in which every
  class is defined before it is used.

The places where each of these can go wrong, with the line, are listed under
`hazards` in `PROJECT.json`.

## 2. The modules and how they correspond to the code

`PROJECT.json` maps every definition to its lines.  Operators whose comment
begins with *Mutant* are variants of the definition after them with a plausible
bug; the properties are shown to notice each.

**`Queues`, `MindyThreads`.**  `vm` is a record of the thread tables: the
intrusive lists become sequences (`runnable` is the ring read from `Runnable`,
`waiting[o]` the queue of the lock or event `o`), `datum` is `thread->datum`,
`current` is `Current`, and `pause` is `PauseReason`.  A C function of
`thread.c` is an operator from the tables before to the tables after
(`LockGrab`, `EventWait`, `ThreadKill`, ...), because nothing interrupts it;
the actions apply the operators where the VM calls them, and the other modules
reuse them.  `fault` becomes `"hang"` or `"crash"` where the C code loops for
ever or follows a NULL pointer; nothing happens after it.  `owners` is an
auxiliary variable: `thread.c` does not record who was granted a lock.
Slices and the loop of `do_stuff` are one action, `PickNext`.

**`MindyDebugger`** extends `MindyThreads` by the stacks, reduced to what the
debugger's continuations look for there: started functions with the saved
continuation, escape frames, and the flag of `return` and `step`.  Every command
that runs Dylan code is `RunOn` (on the selected thread) or `RunOnHelper`.
`disabled` is auxiliary: how often the user disabled a thread himself.
The variable `uses` never changes: it says in which of the ways that the code
does not cope with (section 4) this user uses the commands.  It is empty or one
of the sets in the constant `Uses`.

**`MindyDriver`** extends `MindyThreads` too, and splits `do_stuff`,
`mindy_pause` and `check_fds` where a signal can tell the difference (`at` is
the place).  An event stands for one descriptor and one direction.
`early` is auxiliary: a SIGINT came while the handler of the prompt was still
installed in `do_stuff`.

**`MindySync`** extends `MindyThreads` by the two Dylan classes, one step per
statement that reads or writes a slot, since the thread may lose the processor
between any two.  `taker` (who set `locked?`) and `deserted` (who left the
multilock's monitor by an error and took its spinlock along) are auxiliary.
Any thread may release either lock, whether it holds it or not.
**`LockPromise`** is the abstract lock that both are shown to implement, by
`INSTANCE LockPromise WITH holder <- ...`.

**`MindyNlx`** is one thread's stack with the chains of catch blocks and
unwind-protects beside it; positions in the stack are the C pointers.

**`MindyBreakpoints`** is the byte code of some components, the table of
`brkpt.c`, threads that execute the code, the commands that install, list and
delete, functions called on stopped threads, and the collector as far as it
changes the table.  An instruction is a call, a return, or a `"branch"`, which
stands for all the others.  `reported` is auxiliary: the thread has stopped where it is.
**`PlainRun`** is the abstract run of the same code by threads that know no
breakpoints; `MindyBreakpoints` is shown to implement it.

**`MindyCollector`** is the heap as blocks of objects, with the roots, the hash
state and the list of weak pointers.  The program allocates, reads and writes;
a collection scavenges one root, or one field of one object, at a time, so that
the properties see every state of a half-done scan.  Each object carries a
number that the C objects lack; it tells which object a copy is of.  `scan` is
`scan_block` and `scan_ptr`, the latter as a slot and the number of its fields
that are already scavenged.
**`HeapPromise`** is the heap as the program sees it, an object graph in which
a collection is a single step; the refinement, which is proved, shows the program the
old graph until the spaces have changed places.

**`MindyTables`** is one table with the addresses of the keys, one action per
step of `table.dylan` between which the thread may lose the processor, so that
a collection (`Collect`: any injective assignment of new addresses) may come in
between.  Hash states are numbers, one per collection.  Steps that read neither
an address nor a hash state are joined with the one before.  `split` is auxiliary:
whether a collection has struck a rehash that had hashed an entry (section 4).
It decides nothing but that no iteration begins after that, since a key may then
have two entries and the model knows a cell by its key.
**`TablePromise`** is the mapping from keys to elements that the calls implement;
once a rehash has been split (`spoilt`) it promises nothing of the mapping.

**`MindyClasses`** has the two calls that a `define class` is compiled into,
`DefClass1` and `DefClass2`, as actions with their errors half way;
precedence lists and layouts are operators.  The depth-first walks of the C
code are recursive functions, its marks and counters are sets.  `fault` says
that C code followed `#f` as if it were a list.

**`MindyDispatch`** extends it by one generic function.  A type is a record; the
narrowing of the types of a cache entry is a fold over the arguments and the
methods, as in the C loops.  `methodCache` has the caches of single methods.

**`MindyLoader`** extends `MindyClasses` by the three queues and by a stack of
loads for each thread; running a form is the action of the class definition that
the form is.  `overlap` and `left` are auxiliary: two threads loaded at a time,
and the forms that an error or an exit cut short.

**Proofs.**  `QueueLemmas` has the lemmas about sequences that the other proof
modules cite: `MindyThreadsProofs`; on top of its lemmas about `thread.c`,
`MindyControlProofs` (about `MindyDriver` and `MindyDebugger`, which decide what
runs) and `MindyDylanProofs` (about `MindySync` and `MindyNlx`, what Dylan code
does with threads and with its stack); `MindyBreakpointsProofs`,
`MindyTablesProofs`, `MindyCollectorProofs`, and `MindyClassesProofs` (about
`MindyClasses` and what extends it).  Each extends the modules it is about and
leads up to its theorems (section 5).

## 3. What the runs check

| Run | Module and configuration | What it shows |
|---|---|---|
| `threads` | `MCMindyThreads`, `MindyThreads.cfg` | three threads, a lock, an event: lists, counts, owners and current thread agree, no overtaking at the lock or the event, no starvation |
| `debugger` | `MCMindyDebugger`, `MindyDebugger.cfg` | commands nest and undo exactly what they did; each continuation finds its frame; however they are used, the selected thread exists |
| `driver` | `MCMindyDriver`, `MindyDriver.cfg` | waiters of descriptors are watched and woken, signals reach the prompt, and only an early signal leaves `InInterpreter` set |
| `sync` | `MCMindySync`, `MindySync.cfg` | semaphore and multilock, whoever releases them, implement `LockPromise`; a spinlock is left locked by the error of multilock.dylan 82 only, which costs the multilock's progress and not its exclusion |
| `nlx` | `MindyNlx`, `MindyNlx.cfg` | chains, validity and handlers follow the stack; cleanups run, innermost first |
| `breakpoints` | `MCMindyBreakpoints`, `MindyBreakpoints.cfg` | code and table agree, threads stop once at each arrival, the run is the plain one |
| `collector` | `MCMindyCollector`, `MindyCollector.cfg` | no dangling or doubled object between collections; the collector implements `HeapPromise` |
| `tables` | `MCMindyTables`, `MindyTables.cfg` | collections strike anywhere: until one splits a rehash, a table that takes itself for up to date is, and the calls implement `TablePromise`; iterations begun before that are complete; what the split left stale is noticed from the next collection on that strikes no rehash |
| `tables_split` | `MindyTablesSplit.cfg` | *violated*: a collection in the middle of a rehash goes unnoticed |
| `dispatch` | `MCMindyDispatch`, `MindyDispatch.cfg` | cached answers are fresh answers; the methods found are in order, and none is left out too early |
| `dispatch_many` | `MCMindyDispatchMany`, `MindyDispatchMany.cfg` | *violated*: a method is called although a more specific one takes the arguments |
| `loader` | `MCMindyLoader`, `MindyLoader.cfg` | loads return with their forms run, classes are used complete, precedence lists and layouts are right |

### Bounds, and why they are enough

* Threads: two or three.  Three are needed for a queue with a waiter behind
  another one, an owner and overtaking; the debugger and the descriptors need a
  thread and *another* one.  Thread ids are never reused, so a run makes at
  most as many threads as there are ids.
* One lock and one event (the two of `MindySync` come with their objects): a
  thread waits in one place at a time, so a second queue would behave as the
  first.  That no thread is on two queues is proved for any number.
* `MaxSuspend` (disables per thread), `MaxCount` (suspensions per thread),
  `MaxFrames` (frames of a stack) cut off nesting; the instances have room for
  a command on a thread that is already in a command.
* `OpsPerSlice = 2` in place of 100: a slice then has a first and a last operation.
* `MaxDepth = 2`: the multilock is grabbed again once.
* Three catch blocks, two cleanups, five frames: enough for a throw past two
  cleanups whose second one throws past the first target.
* Two breakpoints in a component with a call, a backward branch and a return;
  two components, of which one can be collected and loaded again.  The two
  threads are symmetric there (`SYMMETRY`; no liveness is checked).
* Collector: blocks of two slots, so that a space has two blocks and an object
  begins a new one; three objects, for a chain, a cycle and sharing under a weak
  pointer; two collections, for an object that moves to a block given back.
* Tables: addresses 0, 1 and 13 and a symbol with hash 13, against the sizes 1
  and 13, so that keys collide in one size and part in the other.  A table starts
  with size 1; the third key expands it to 13, `remove-all-keys!` brings the
  same size with fewer keys, and a removal there shrinks it (to 13 again, a
  resize all the same).  Two collections, so that one can strike while the table
  recovers from the other; and a third after a split rehash, for the recovery
  from that.
* Dispatch: two arguments, three objects, six methods of which three are in the function
  at a time: enough for two ambiguous methods and a third below, between or
  beside them, for a replaced method, and for a class defined after the cache
  was filled.  `dispatch_many` has the smallest case in which the order goes
  wrong: seven methods of two arguments, no class with two superclasses.  Its
  graph is large, but the violation is found within a minute.
* Loader: three files and two threads, a load inside a form, four classes with
  up to two superclasses each, one slot or two, one of them with a value per
  class and one that clashes.

`CHECK_DEADLOCK FALSE` is set in the runs where the system may really stop: the VM ends when
no thread is left, threads block for ever on a lock whose owner was killed,
nothing happens after a `fault`, and a program may have loaded all its files.

### Fairness

* `FairSpec` of `MindyThreads`: weak fairness of `PickNext`.  A slice ends after
  100 calls of `advance` (driver.c 287-290), whatever the thread does.
* `DriverSpec`: weak fairness of the loop's own steps.  C code proceeds; a
  signal, a command of the user and the descriptors are not fair.
* `SyncSpec`: weak fairness of `PickNext`, and strong fairness of the steps of
  each thread inside an operation.  A thread is picked again and again while
  others run, so its step is enabled infinitely often, not always; a slice is
  long enough for many operations.  Nothing is assumed about threads that
  *start* an operation, or release what they hold.

## 4. Where code and documentation disagree

Two runs are expected to be violated, and stand for the findings of
`PROJECT.json`, each with the line that promises otherwise.

* `tables_split`: `merge-hash-states` keeps the second of two equally volatile
  states (table.c 146).  If a collection strikes a rehash that has already
  hashed a bucket, the valid state of a later bucket hides the invalid state of
  the earlier one, `table-hash-state` is valid, and the keys of the earlier
  bucket are not found until the next collection.  A rehash counts on being
  called again (table.dylan 721-724), and here nothing tells it to.  `StaleOnlyIfSplit`
  says how far this goes: no other collection does it, and the next collection
  outside of a rehash ends it.  Until then a key may be missed, and be entered
  twice.  The hash of a
  collection of objects merges states in the same way.
* `dispatch_many`: the sort of the applicable methods stops at an ambiguity, and
  is to keep the methods of which it is unclear which comes next.  A method that
  is ambiguous with some of these is compared with all, and then only those
  remain, without the method itself (func.c 1306).  What is forgotten in this way
  no longer holds back the methods that are tried later; and one that is less
  specific than a forgotten method, and more specific than those remembered, is
  appended to the ordered list and called.  Whether it happens depends on the
  order in which the methods were added.  The runtime of d2c, which has the same
  sort, keeps the method with those it is ambiguous with (`ambiguous :=
  pair(meth, ambiguous-with)`), so that "these methods will all be mutually
  ambiguous" (src/d2c/runtime/dylan/func.dylan 918-919, 1004-1015).
  `NextMethodsSorted` says what does hold: with the premise that no method is
  ambiguous with two others nothing is forgotten too early.

The models have more behaviours that are wrong or doubtful.  The properties are
stated so that they say how far the behaviour reaches, and the hazards
name the line.

* `remove_from_lock` and `remove_from_event` (thread.c 518-536, 644-663) never
  advance `prev`: taking any waiter but the first off a queue loops for ever.
  `Unlink` then sets `fault` to `"hang"`.
* `release-lock` of a multilock that nobody holds reports an error and, unlike
  the next error path, leaves the spinlock locked (multilock.dylan 82): every
  later operation on the multilock, `locked?` included, blocks for ever.
  `SpinlockHeldInside` names this as the only way (`deserted`), and
  `MultilockKeepsPromise` asks for progress only until it has happened, but for
  exclusion even then.
* A SIGINT after `InInterpreter` is set and before the slice has its own
  handler (driver.c 285) jumps to the prompt with the flag on, and the next
  `continue` fails the assertion of driver.c 274.  `NotInsideYet` says that this
  (`early`) is the only way.
* A SIGINT between the installation of the handler and `select` does not end
  the `select`; and `mindy_pause` overwrites an `Interrupted` that has not been
  looked at (`InterruptReachesPrompt` allows it by its alternative `"pausing"`).
* Uses of debugger commands that the code does not cope with, each a member of
  `UseKinds`; the properties but `SelectedExists` are about `uses = {}`:
  `"disabled"` (a command on a thread that is disabled while it is at an error
  or waits loses the suspension: thread.c 285), `"unwound"` (an `abort` whose
  handler belongs to the interrupted call throws away the frame that would
  restart the others: debug.c 1445), `"refused"` (a refused `return` does not
  restart them: debug.c 1505), `"fresh"` (a thread interrupted before its first
  function has started loses its continuation), `"flush"` (the helper of a
  `flush` stays behind: debug.c 947), `"killed"` (killing a thread that a
  command uses), `"overlap"` and `"meanwhile"` (commands on one thread while
  another is in a command, or user suspensions during one, which share a count
  that nobody owns), and `"blocked"` (a blocked thread whose lock became free
  goes on with the status Blocked on the run ring, since `add_to_lock` sets no
  status).  The run has the first six of them.  Of the
  last three, `"blocked"` breaks the lists that every other operation relies on,
  and the other two leave no way to say which suspensions a command should undo.
* An iteration over a table that is rehashed meanwhile, which a mere `element`
  can do, follows relinked cells: `IterationVisitsAll` excludes it.
* A *none-of* type, made when a cache entry is narrowed, accepts instances of
  subclasses, also of classes defined later, for which other methods apply or
  rank otherwise.  The entry then answers wrongly; `CacheAnswersAfresh` leaves
  out exactly arguments of a class other than the entry's that has, or whose
  ancestors have, several superclasses.
* `set_gf_signature` (func.c 1485-1507) loses the remaining methods when one does
  not conform, and otherwise adds them again in the opposite order.
* After an error in `defclass1` the class has superclasses and no precedence
  list, and a class below it follows `#f` (class.c 285); after one in `defclass2`
  it has new slots and no positions.
* When two threads load at a time, a load returns while the other thread still
  runs its forms; forms left by an error are run by whoever loads next.
* `class_instancep` (type.c 104-118) keeps its answers under the addresses of two
  classes, and no collection clears them; `inherit_initargs` (instance.c) stops
  at the first initialization argument that is redefined instead of going on to
  the next.  Neither is in a model.

## 5. What is proved

Every theorem holds for all values of the constants that satisfy the named
assumption of the module that declares them, so for any number of threads,
locks, frames, components, files or blocks, and whatever the bounds that only
keep TLC's state spaces finite.  The assumptions say that ids, sizes and bounds
are numbers; that NULL, nobody and nothing are not among the things they are told
from (the heap's `Nil`, in particular, is no place and no object's number); that
locks and events are different objects, and a descriptor has one event for each
direction; that the threads of `MindySync` are finitely many; that the byte code
of a component ends with a return; that superclass lists and the lists of a
class's slots are lists; and that all methods, and all argument lists, are of one
length.  No theorem uses a fairness condition.  The theorems about
tables assume nothing of when collections strike; but what `TableInvariant`,
`NoHashIsStale` and `TableKeepsPromise` say ends when one splits a rehash, and
must, as `tables_split` shows (section 4).

| Module | Theorem | States |
|---|---|---|
| `MindyThreadsProofs` | `TypeCorrect`, `Placement`, `NoAbandonedWaiter`, `Exclusion`, `CountsMatch`, `CurrentRuns` | `TypeOK`, `EveryThreadInItsPlace`, `WaitedLocksAreLocked`, `MutualExclusion`, `SuspendedIffCounted`, `CurrentIsRunning` |
| | `NoBarging` | `NoOvertaking` (an action property) |
| `MindyControlProofs` | `NoWaiterForgotten`, `InterpreterLeft` | `WaitersAreWatched`, `NotInsideYet` |
| | `SliceHasAThread` | a slice has a current thread, and it may run |
| | `SelectionIsAlive` | `SelectedExists`, with no command on a blocked thread |
| | `PopsFindEscapes`, `HelpersEnd` | `ContinuationsFindFrames`, `NobodyLeftBehind` |
| | `CommandsUndoTheirStops` | `OnlyDisableSuspends` |
| `MindyDylanProofs` | `NobodyKeepsSpinlock` | `SpinlockHeldInside` |
| | `SemaphoreIsLock`, `MultilockIsLock` | the safety part of `SemaphoreKeepsPromise` and `MultilockKeepsPromise` |
| | `ChainsRight`, `ValidOnStack`, `HandlersRight` | `ChainsFollowStack`, `ValidWhileOnStack`, `HandlersFollowStack` |
| | `EveryCleanupRuns` | `CleanupsRun` (an action property) |
| `MindyBreakpointsProofs` | `CodeIsPatched`, `ReportedSkips`, `NobodyRunsPast` | `CodeFollowsTable`, `StopsOnce`, `StopsFirst` |
| | `BreakpointsRunAsWritten` | `RunsAsWritten`: `MindyBreakpoints` implements `PlainRun` |
| `MindyCollectorProofs` | `HeapStaysWhole` | `HeapIsWhole` |
| | `CollectsInOneStep` | `CollectsAtOnce`: `MindyCollector` implements `HeapPromise` |
| `MindyClassesProofs` | `PrecedenceIsRight`, `PrecedenceWhileLoading` | `CplIsRight`, of `ClassSpec` and of `LoadSpec` |
| | `SlotsStayApart`, `SlotsApartWhileLoading` | `SlotsKeptApart`, of `ClassSpec` and of `LoadSpec` |
| | `FilesAreLoaded`, `QueueIsRunOff` | `LoadedWhenReturned`, `NoFormWaits` |
| | `ClassesComeInOrder` | `DefinitionsInOrder` |
| | `CachedAnswersAreFresh`, `NextMethodsInOrder` | `CacheAnswersAfresh`, `NextMethodsSorted` |
| `MindyTablesProofs` | `NoHashIsStale` | `StaleOnlyIfSplit` before any split |
| | `IterationVisitsAllKeys` | `IterationVisitsAll` |
| | `TableKeepsPromise` | `KeepsPromise`: `MindyTables` implements `TablePromise` |

None of these is inductive by itself.  Each module defines one inductive
invariant, has a lemma per operator and per action that keeps it, and proves it
by splitting on the disjuncts of the next-state relation
(`Invariance`, `DriverInvariance`, `SyncInvariance` and so on).

**Threads** (`IInv`).  `Consistent(vm)`: the types, each thread on the list its
status and datum name, counts and statuses that agree.  `LocksAgree(vm)`:
waited-for locks are locked, and have one owner when programs release only what
they own.  `CurrentIsRunning`, and the type of `pause`.
A release keeps exclusion only because a waiter's lock is locked; the lists stay
right when a waiter is woken only because a count of zero means that it was not
stopped; and an operation of the current thread unlinks it safely only because
the current thread is on the ring.  `NoBarging` follows one operator at a time:
each takes from a queue its head, or somebody without changing the order of the
rest, or appends; of locks and of events alike.

**Driver** (`DriverInv`).  The tables are `Consistent` and the locks agree at
every place of the loop, by the lemmas about `thread.c`.  `Watching`: whatever
event has waiters is watched, and `NumFds` is past every watched descriptor; the
second half is needed since `check_fds` looks at no descriptor beyond it.
`SliceRuns` is needed because an operation of a slice is only right for a
current thread that may run.  `Outside`: at the places before the assignment of
`InInterpreter` and after the slice it is clear, unless `early` is set.

**Debugger** (`DebugInv`, `CodesRight`, `CountsRight`).  `DebugInv`: the
invariant of the threads, `SelectedExists`, and what an escape frame may hold
for `thread_pop_escape` to restore it.  It holds in every use of the commands
but on a blocked thread (`NoneBlocked`; section 4 says what happens there).  The
other two are about a careful user (`uses = {}`), and of the careless ones the
properties say nothing.  `CodesRight`: a stack starts with a function that its
own continuation ends, and every other function on it lies on an escape frame
which goes back into the function below.  `CountsRight` says whom each
suspension belongs to.  A command that will restart the others is a *pair* of
its thread and the place of its continuation on the stack, since one thread may
run several.  The count of a thread that the user disabled is its disables,
unless an escape frame keeps them, and one for each command on another thread.
Of a thread that is not disabled the count is only *at most* the number of
those commands, as a thread made after a command began was not suspended by it,
and is not restarted below zero.  The exact count of a disabled thread is needed
since a command pushes it into its frame, which is why disabling during a
command (`"meanwhile"`) and overlapping commands (`"overlap"`) break it.  When
no command is under way both bounds meet at what the user disabled.

**Dylan locks** (`SyncInv`, whoever releases them).
`IInv`; `SpinInv`: those who own or await a spinlock are exactly the threads
inside its monitor, and once somebody has deserted the multilock's (section 4) he
owns the spinlock, the others wait behind him, nobody executes in there any more
and nobody holds the multilock; `ObjectInv`: `locked?` and `locker` say who has the lock,
and what a thread found in the object in an earlier step still holds.
`SpinInv` makes the monitor exclusive, and exclusion is why what was found still
holds.  Who releases a spinlock is not assumed: that only its owner does is part
of the invariant.  For the refinements each step is one of the abstract lock's
or leaves its variables alone; the liveness part of `LockPromise` is TLC's.

**Non-local exits** (`NlxInv`).  The chains and handlers are those of the stack,
seen from its top and *from each frame*: `do_uwp_cleanup` and `throw` restore
what a frame saved, so what it saved must be right for the part below it.  Valid
blocks are on the stack, and the target of a throw is below the cleanup that it
has started, which is why the throw finds it again after the cleanup.

**Breakpoints** (`BrkInv`).  `TableOK` and `CodeOK`: the entries are distinct and
remember the original byte, and the byte at a place is the original one unless
an entry is there.  The program counter of a frame is in a component in the
heap, or just behind a call; what an escape frame saved is right for the frame
below it.  A thread without frames has not been reported as stopped, and an
escape frame at the bottom of a stack saved just that: without this clause,
popping such a frame would not keep `StopsOnce`.  The refinement needs
`CodeOK`, since a thread executes the byte it finds, or the one in the table.

**Loader** (`LoaderInv`).  Forms wait only while somebody loads, or some were
left by an error or exit.  While threads load one at a time (`~ overlap`), every
form of a file that is being loaded is done, left, queued, or being run by that
load *or one inside it*: the last case is needed since an inner load runs the
queued forms of the outer file.
For `ClassesComeInOrder` there is `OrderInv`, while threads load one at a time
and nothing is left.  `InOrder`: where the form that runs and those that wait
give a class its slots, they or those before them have given theirs to all the
classes that were created before it; and no class goes without.  These are all
that `init_defined_class` looks at, since a precedence list has only the class
itself and classes created before.  `Matched` says the same of the
creations and forms that a load which failed has left to the next one.  And
every form that asked for a load is a load itself, so nothing but loads goes on
after a return.

**Classes** (`CplInv`, until `fault`).  `Hierarchy`: every non-empty set of
classes has one that has no superclass in it.  With it the depth-first walk
reaches exactly the classes that are in every closed set around a class
(`AncestorsAre`).  What `slow_compute_cpl` has placed is a `Beginning`: each
class is there once, the new one first, and each comes when whatever a
superclass list names just before it has been placed.  While classes that could
follow remain, `tie_breaker` finds one, because each of them is a superclass of
one that is placed; that is the `lose("Can't happen.")` of the code.  A list with
all the classes then obeys every superclass list.  If it gets stuck before,
nothing that obeys them exists: of such a list, the first class that is not yet
placed would be a candidate.  And a class with one superclass extends the
superclass's list, which is right again.

**Slots** (`SlotInv`, even after `fault`).  `WellListed`: behind its own class a
precedence list has the classes above it, once each, and a class has `new_slots`
only when all above it have them.  `WellLaid`: the slots of a finished class,
inherited and own, *fill* its instances, that is, each has one of the first
places, as many as there are slots, and each of these places has a slot; and the
accessors know of every slot that the class displaces.  So the places are all
different, there being as many as slots.  The argument counts.  The sum of
`compute_lengths` over a precedence list is the number of slots above the class
(`LengthIs`), so a slot's desired offset is behind all that its class inherits
(`OwnOffsets`), and in every class below it is among the places of what that one
inherits (`InheritedOffsets`).  The walk of `inherit_slots` reaches all classes
above, once each (`InheritOrderIs`).  Of the slots it brings some get the places they
desire, no two the same, and the others wait (`DisplacedIs`); the places left free
are then as many as those that wait, and each finds one (`PositionsFill`).  A
definition moves no slot of the other classes, because places depend on nothing
but what is above (`OffsetStays`); and an accessor that begins to search finds
the desired offset where no slot was displaced.  That no class has two new slots
with one getter (`NamesApart`) is needed since a slot is found by its class and
its getter; `add_slot` sees to it before a class is finished.

**Dispatch** (`DispInv`, until `fault`).  `CplInv`; no two methods of the function
have the same types, and all can be tested; every cached entry was made, by a call
that can be made, from the methods that are there.  What that means is
`MadeFrom`: the types of the entry have the call's arguments as instances, they
*decide* about each method, and the result is what sorting the methods that take
these arguments gives.  To decide about a method, the types must either *settle*
each type of a method that takes the arguments, or one type of a method that does
not.  A type settles another when all that it fits are instances of both, or none
is: it is a singleton, it is below the other, excludes it, or was made for a class
that is not above the other.  `Narrow` keeps what was settled and settles one
type more, and so does each turn of the loops (`ApplicableIs`, `SlowEntryIs`).
So arguments that an entry accepts are taken by the methods that took those it
was made for.  The methods also rank in the same way for both (`ComparesTheSame`):
each type has its place in the precedence list of an argument's class; the places
in the list of a class agree with those in the lists of its superclasses, unless
there are several superclasses, which is what `MadeFor` leaves out; and one
method is more specific than another when no place of its types is behind.
With such an order the sort sees nothing of the arguments but a table of
comparisons, and two runs of it over the same table are the same
(`SelectionIsOne`).  Methods and classes that come later disturb
neither: adding, replacing or removing a method clears the cache, and a new class
changes no precedence list that was there.
For `NextMethodsInOrder`, comparisons are a strict partial order
(`ComparisonsOrder`), which holds since two methods never have the same types.  One more
method inserted keeps the list sorted and in front of the ambiguous ones
(`SortingKeeps`); without a method that is ambiguous with two others it also
keeps that what is forgotten is less specific than an ambiguous one.

**Collector** (`CollectorInv`).  The old and the new blocks are apart and without
repetition.  An object of the old space is itself or a forwarding pointer to a
copy of the new space.  What is not moved names places of the old space, and so
do the copies that the scan pointer has not reached; the copies it has passed, the
fields it has passed of the object it is in, and the roots that are not in `todo`
name places of the new one.  The weak pointers in `weak` are passed and still name
old places; so a weak pointer that has an object is never half scanned, which
only the proof brought out.  No two objects that are not forwarding pointers have
the same id, in whichever spaces they are.  Between collections there is one
space, without forwarding pointers, and that gives `HeapIsWhole`; during a
collection the invariant is what makes each dereference of the scavenger meaningful.
For the refinement the heap of the beginning is compared with what has become of
it.  A field `Tells` the number of the object that it names, in whichever space, and
a forwarding pointer stands for its copy.  `FaithfulInv`: during a collection every
object and every root still tells what the program saw when it began, but for a
hash state that was ended and for weak pointers broken since what they named was
not copied (`Breaks`); and what has been copied lies in every closed set around the
roots (`Reaches`).  When the scan is over the copies are themselves closed, since
what is passed names copies only: so they are the least such set, which is what
`HeapPromise` keeps (`KeptIs`; its recursion has come to an end because a chain of
sets that always grows would not fit into the objects there are, `GrowingChain`).
Between collections (`SeenInv`) the program sees what lies in the one space, and
each step of the program is the promised one.

**Tables** (`TablesInv`, in six parts).  `TypeInv`: numbers, and buckets
of distinct entries that belong there.  `RehashInv`: what a rehash has taken out
of the buckets, the entries that remain and those it defers, is apart from what
they still hold and from each other.  `EntriesInv`: a key has at most one entry,
in the buckets and in the hands of a rehash together; `tableSize` counts them;
the hash in an entry is the one that its key has now, as long as its state is
valid.  `StatesInv`: the state of a bucket covers those of its entries, that is,
when it is permanent so are they, and all that are volatile in a bucket are the
same.  Which one that is, `Limit` says: the table's, and in the buckets that a
rehash has passed the current one.  Merging keeps the *second* of two volatile
states, so it covers both only because no two that are merged differ; and that
fails when a collection strikes a rehash that has hashed some entries and not yet
others.  This is why the invariant of the theorem is `SplitInv`: `TablesInv` until
a rehash is split.  `KeyInv`: what a call
remembers between its steps, the key's hash and the bucket and place it found, is
right as long as the key's state and the table's are.  `IterInv`: what an
iteration has visited are the keys in front of its cell, unless the table was
rehashed under it.  An iteration that is under way when a rehash is split is one
whose table is being rehashed (`SplitIterInv`), so `IterationVisitsAll` needs no
premise about splits.
For the refinement, a call that has found its cell, or none, changes the mapping
as `TablePromise` does since the one entry of a key is found by its hash;
rehashing and collections change no association.  The loops over buckets that the
model writes as folds are reasoned about with `Folds` and the lemma `FoldExists` of
`QueueLemmas`.

Inductions over data, on positions of a stack, the depth of a hierarchy or the
steps of a fold, argue by the least counterexample (`AgreeingRecursions`,
`GrowingChain`, `FoldExists`): the library's induction theorems take an operator,
which the provers cannot instantiate.

Only model-checked are:

* What the tables do once a collection has split a rehash: `NoStaleHash` in
  `tables_split`, and the recovery that `StaleOnlyIfSplit` promises.
* All liveness: `NobodyStarves`, `ReadyWakes`, `PendingIsDelivered`,
  `InterruptReachesPrompt`, and the liveness part of `LockPromise`.  Fairness and
  ENABLED are beyond the prover.

## 6. What is not modelled, and why

* Scavenging of threads and locks, read-only accessors, printing and the parsing
  of commands: they change nothing that the properties mention.
* A C pointer to a freed `struct thread` that `malloc` hands out again
  (nlx.c 183): ids are never reused here.
* `single_step` of `step`/`next` on a running thread: its end depends on the
  line table of the component.
* Longjmp out of a half-done command (debug.c 2513): in `MindyDriver` it is a
  jump to the prompt; the half-done state is not, because any property of the
  debugger would fail there.
* Tail calls (`call_tail`, interp.c 381-403) in `MindyBreakpoints` and `PlainRun`:
  a call there always returns to the frame that made it.
* A top-level form of `MindyLoader` that catches its own error and goes on: a
  form ends with `did_form` and the next one is taken in the same step (load.c
  1116-1141), or it is cut short.
* The read-only space of a collector built with `PURIFY`, and the heap that
  cannot grow: the VM exits.
* Two threads that use one table: `table.dylan` has no defence, and leaves it to
  the client's locks.
* Keyword and rest arguments, limited integers, unions and subclass types in
  dispatch; initialization arguments and init functions of slots.
* `canonicalize_values` and the instructions of `interp.c`: one thread moves its
  own values.
* The sequential parts of the table in section 1.  The greater part of the
  implementation's lines is there: parsers and lexers (several copies of the
  generated ones come with the ports), the batch compilers in C and Dylan,
  arithmetic, strings, printing, and the bindings to operating systems.  They
  have input and output, but no state that lives between two calls and no
  second actor; a model of them would restate the code line by line.

## 7. Plan

Done in this order: `MindyThreads` with its proofs, `MindyDebugger`,
`MindyDriver`, `MindySync`, `MindyNlx`, `MindyBreakpoints`, `MindyTables`,
`MindyCollector`, `MindyClasses`, `MindyDispatch`, `MindyLoader`, then the proofs
about all of these.  Every invariant that a passing run checks is proved, under
the premises that section 5 names, but of `StaleOnlyIfSplit` only what it says
before a split; nothing that the plan had is left.
