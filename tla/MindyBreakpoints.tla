-------------------------- MODULE MindyBreakpoints --------------------------
(***************************************************************************)
(* Breakpoints in byte code: brkpt.c, what interp.c does where a byte was  *)
(* patched, and the commands that install, list and delete them.           *)
(*                                                                         *)
(* A breakpoint replaces a byte of a component by op_BREAKPOINT and keeps  *)
(* the byte in a table.  A component is held there by a weak pointer, and  *)
(* any thread may be at, or in a call from, the place that is patched.     *)
(* Which thread runs next is left open.                                    *)
(***************************************************************************)
EXTENDS Queues

CONSTANTS
  Threads,
  Components,   \* the components of byte code that can be loaded
  Original,     \* the instructions of each, as loaded
  NoComponent,  \* what a broken weak pointer holds
  MaxFrames,    \* bound on the frames of a thread
  MaxId         \* bound on the breakpoints ever installed

(* A "branch" is any instruction but these two: it goes on to the next one *)
(* or jumps back.                                                          *)
Instructions == {"branch", "call", "return"}

ASSUME BreakpointsAssumption ==
  /\ Original \in [Components -> Seq(Instructions)]
  /\ \A c \in Components : Original[c] # <<>> /\ Last(Original[c]) = "return"
  /\ NoComponent \notin Components
  /\ MaxFrames \in Nat /\ MaxId \in Nat

VARIABLES
  stack,     \* the frames of each thread, the innermost last
  saved,     \* what the escape frames of each thread hold, the innermost first
  advance,   \* what each thread does next: interpret_next_byte, or skip_byte_breakpoint
  code,      \* the bytes of each component; none when it is not in the heap
  bound,     \* the components that some method in the program has
  table,     \* ByteBreakpoints, from its head
  nextId,    \* NextBreakpoint
  prompt,    \* whether the debugger reads commands
  reported,  \* whether each thread stopped where it is: not in the code
  fault      \* whether the VM lost, or wrote where it must not

brkptVars == <<stack, saved, advance, code, bound, table, nextId, prompt, reported, fault>>
programVars == <<code, bound>>
threadVars == <<stack, saved, advance, reported>>

P == INSTANCE PlainRun

Broken(e) == e.comp = NoComponent
Live == {c \in Components : code[c] # <<>>}
Top(t) == Last(stack[t])
Current(t) == Top(t).comp
Pc(t) == Top(t).pc

-----------------------------------------------------------------------------
(* find_byte_breakpoint: where the entry is, 0 if there is none, and the   *)
(* table that is left, without the broken entries that it passed.          *)
Find(entries, c, pc) ==
  LET places == {i \in DOMAIN entries : entries[i].comp = c /\ entries[i].pc = pc}
  IN IF places = {} THEN 0 ELSE CHOOSE i \in places : \A j \in places : i <= j

Unbroken(entries) == SubQueue(entries, {e \in Range(entries) : ~ Broken(e)})

Searched(entries, c, pc) ==
  LET n == IF Find(entries, c, pc) = 0 THEN Len(entries) ELSE Find(entries, c, pc)
  IN Unbroken(SubSeq(entries, 1, n)) \o SubSeq(entries, n + 1, Len(entries))

IsBreakpoint(c, pc) == Find(table, c, pc) # 0
OrigByte(c, pc) == table[Find(table, c, pc)].orig

(* The opcode of the call that do_byte_return returns to. *)
CallOpcode(c, pc) ==
  IF code[c][pc] # "BREAKPOINT" THEN code[c][pc]
  ELSE IF IsBreakpoint(c, pc) THEN OrigByte(c, pc) ELSE "TRAP"

-----------------------------------------------------------------------------
(***************************************************************************)
(* Threads.                                                                *)
(***************************************************************************)

Ready(t) == ~ prompt /\ ~ fault /\ stack[t] # <<>>
Byte(t) == code[Current(t)][Pc(t)]

(* Mutant: the next breakpoint is skipped as well. *)
ExecuteStays(t, op, searched) ==
  \E s \in P!Moves(stack[t], op) :
    LET ends == op = "return" /\ Len(stack[t]) - Len(s) = 2
        back == s # <<>> /\ ~ ends /\ (op = "return" \/ (op = "call" /\ Len(s) = Len(stack[t])))
    IN /\ Len(s) > Len(stack[t]) => Last(s).comp \in bound
       /\ stack' = [stack EXCEPT ![t] = s]
       /\ advance' = [advance EXCEPT ![t] = IF ends THEN Head(saved[t]).advance ELSE @]
       /\ reported' = [reported EXCEPT ![t] = ends /\ Head(saved[t]).reported]
       /\ saved' = [saved EXCEPT ![t] = IF ends THEN Tail(@) ELSE @]
       /\ prompt' = ends
       /\ IF back
            THEN LET c == Last(s).comp  pc == Last(s).pc - 1
                 IN /\ fault' = (CallOpcode(c, pc) # "call")
                    /\ table' = IF code[c][pc] = "BREAKPOINT"
                                  THEN Searched(searched, c, pc) ELSE searched
            ELSE fault' = FALSE /\ table' = searched
       /\ UNCHANGED <<programVars, nextId>>

(* Executing the instruction op.  The return to a frame of byte code looks *)
(* at the call there; the return to an escape frame ends the command.      *)
Execute(t, op, searched) ==
  \E s \in P!Moves(stack[t], op) :
    LET ends == op = "return" /\ Len(stack[t]) - Len(s) = 2
        back == s # <<>> /\ ~ ends /\ (op = "return" \/ (op = "call" /\ Len(s) = Len(stack[t])))
    IN /\ Len(s) > Len(stack[t]) => Last(s).comp \in bound
       /\ stack' = [stack EXCEPT ![t] = s]
       /\ advance' = [advance EXCEPT ![t] = IF ends THEN Head(saved[t]).advance ELSE "interpret"]
       /\ reported' = [reported EXCEPT ![t] = ends /\ Head(saved[t]).reported]
       /\ saved' = [saved EXCEPT ![t] = IF ends THEN Tail(@) ELSE @]
       /\ prompt' = ends
       /\ IF back
            THEN LET c == Last(s).comp  pc == Last(s).pc - 1
                 IN /\ fault' = (CallOpcode(c, pc) # "call")
                    /\ table' = IF code[c][pc] = "BREAKPOINT"
                                  THEN Searched(searched, c, pc) ELSE searched
            ELSE fault' = FALSE /\ table' = searched
       /\ UNCHANGED <<programVars, nextId>>

(* Mutant: the thread is left behind the breakpoint. *)
HandlePassed(t) ==
  /\ stack' = [stack EXCEPT ![t] = P!Goes(@, Pc(t) + 1)]
  /\ advance' = [advance EXCEPT ![t] = "skip"]
  /\ reported' = [reported EXCEPT ![t] = TRUE]
  /\ prompt' = TRUE
  /\ table' = Searched(table, Current(t), Pc(t))
  /\ UNCHANGED <<programVars, saved, nextId, fault>>

(* handle_byte_breakpoint. *)
Handle(t) ==
  /\ advance' = [advance EXCEPT ![t] =
                   IF IsBreakpoint(Current(t), Pc(t)) THEN "skip" ELSE @]
  /\ reported' = [reported EXCEPT ![t] = TRUE]
  /\ prompt' = TRUE
  /\ table' = Searched(table, Current(t), Pc(t))
  /\ UNCHANGED <<programVars, stack, saved, nextId, fault>>

(* interpret_next_byte, of which this is one round. *)
InterpretNextByte(t) ==
  /\ Ready(t) /\ advance[t] = "interpret"
  /\ IF Byte(t) = "BREAKPOINT" THEN Handle(t) ELSE Execute(t, Byte(t), table)

(* skip_byte_breakpoint.  The breakpoint may have been deleted meanwhile.  *)
SkipByteBreakpoint(t) ==
  /\ Ready(t) /\ advance[t] = "skip"
  /\ Execute(t, IF IsBreakpoint(Current(t), Pc(t)) THEN OrigByte(Current(t), Pc(t))
                ELSE Byte(t), Searched(table, Current(t), Pc(t)))

Run(t) == InterpretNextByte(t) \/ SkipByteBreakpoint(t)

(* A thread is made, or has nothing left to do and is given a function.    *)
Start(t) ==
  /\ ~ prompt /\ ~ fault /\ stack[t] = <<>>
  /\ \E c \in bound : stack' = [stack EXCEPT ![t] = <<P!Frame(c, 1)>>]
  /\ advance' = [advance EXCEPT ![t] = "interpret"]
  /\ UNCHANGED <<programVars, saved, table, nextId, prompt, reported, fault>>

-----------------------------------------------------------------------------
(***************************************************************************)
(* The program's components, and the collector.                            *)
(***************************************************************************)

Load(c) ==
  /\ ~ prompt /\ ~ fault /\ c \notin Live
  /\ code' = [code EXCEPT ![c] = Original[c]]
  /\ bound' = bound \cup {c}
  /\ UNCHANGED <<threadVars, table, nextId, prompt, fault>>

(* The methods that had c are replaced by others. *)
Unbind(c) ==
  /\ ~ prompt /\ ~ fault /\ c \in bound
  /\ bound' = bound \ {c}
  /\ UNCHANGED <<threadVars, code, table, nextId, prompt, fault>>

Reachable == bound \cup {f.comp : f \in UNION {
  {g \in Range(stack[t]) : g.kind = "code"} : t \in Threads}}

(* collect_garbage: scavenge_brkpt_roots drops what was broken before, and *)
(* break_weak_pointers then breaks what is garbage now.                    *)
Collect ==
  /\ ~ fault
  /\ code' = [c \in Components |-> IF c \in Reachable THEN code[c] ELSE <<>>]
  /\ table' = LET kept == Unbroken(table)
              IN [i \in DOMAIN kept |->
                    IF kept[i].comp \in Reachable THEN kept[i]
                    ELSE [kept[i] EXCEPT !.comp = NoComponent]]
  /\ UNCHANGED <<threadVars, bound, nextId, prompt, fault>>

-----------------------------------------------------------------------------
(***************************************************************************)
(* The user.                                                               *)
(***************************************************************************)

(* SIGINT. *)
Interrupt ==
  /\ ~ prompt /\ ~ fault /\ prompt' = TRUE
  /\ UNCHANGED <<programVars, threadVars, table, nextId, fault>>

(* Mutant: what is there already is not looked for. *)
InstallTwice(c, pc) ==
  /\ prompt /\ ~ fault /\ c \in Reachable /\ pc \in DOMAIN Original[c] /\ nextId <= MaxId
  /\ table' = <<[id |-> nextId, comp |-> c, pc |-> pc,
                 orig |-> code[c][pc]]>> \o table
  /\ code' = [code EXCEPT ![c][pc] = "BREAKPOINT"]
  /\ nextId' = nextId + 1
  /\ UNCHANGED <<threadVars, bound, prompt, fault>>

(* install_byte_breakpoint. *)
Install(c, pc) ==
  /\ prompt /\ ~ fault /\ c \in Reachable /\ pc \in DOMAIN Original[c]
  /\ IF IsBreakpoint(c, pc)
       THEN table' = Searched(table, c, pc) /\ UNCHANGED <<code, nextId>>
       ELSE /\ nextId <= MaxId
            /\ table' = <<[id |-> nextId, comp |-> c, pc |-> pc, orig |-> code[c][pc]]>>
                          \o Searched(table, c, pc)
            /\ code' = [code EXCEPT ![c][pc] = "BREAKPOINT"]
            /\ nextId' = nextId + 1
  /\ UNCHANGED <<threadVars, bound, prompt, fault>>

(* remove_breakpoint. *)
Delete(id) ==
  /\ prompt /\ ~ fault
  /\ table' = SubQueue(table, {e \in Range(table) : ~ Broken(e) /\ e.id # id})
  /\ code' = [c \in Components |-> [pc \in DOMAIN code[c] |->
       IF \E e \in Range(table) : e.id = id /\ e.comp = c /\ e.pc = pc
         THEN (CHOOSE e \in Range(table) : e.id = id).orig
         ELSE code[c][pc]]]
  /\ UNCHANGED <<threadVars, bound, nextId, prompt, fault>>

(* list_breakpoints. *)
List ==
  /\ prompt /\ ~ fault /\ table' = Unbroken(table)
  /\ UNCHANGED <<programVars, threadVars, nextId, prompt, fault>>

Continue ==
  /\ prompt /\ ~ fault /\ prompt' = FALSE
  /\ UNCHANGED <<programVars, threadVars, table, nextId, fault>>

(* Mutant: where the thread was going on is not saved. *)
CallKeepsAdvance(t, c) ==
  /\ prompt /\ ~ fault /\ c \in bound /\ Len(stack[t]) + 2 <= MaxFrames
  /\ stack' = [stack EXCEPT ![t] = @ \o <<P!Escape, P!Frame(c, 1)>>]
  /\ saved' = [saved EXCEPT ![t] =
                 <<[advance |-> "interpret", reported |-> reported[t]]>> \o @]
  /\ advance' = [advance EXCEPT ![t] = "interpret"]
  /\ reported' = [reported EXCEPT ![t] = FALSE]
  /\ prompt' = FALSE
  /\ UNCHANGED <<programVars, table, nextId, fault>>

(* print, call and the like on the thread: thread_push_escape. *)
Call(t, c) ==
  /\ prompt /\ ~ fault /\ c \in bound /\ Len(stack[t]) + 2 <= MaxFrames
  /\ stack' = [stack EXCEPT ![t] = @ \o <<P!Escape, P!Frame(c, 1)>>]
  /\ saved' = [saved EXCEPT ![t] =
                 <<[advance |-> advance[t], reported |-> reported[t]]>> \o @]
  /\ advance' = [advance EXCEPT ![t] = "interpret"]
  /\ reported' = [reported EXCEPT ![t] = FALSE]
  /\ prompt' = FALSE
  /\ UNCHANGED <<programVars, table, nextId, fault>>

-----------------------------------------------------------------------------
BreakpointsInit ==
  /\ stack = [t \in Threads |-> <<>>]
  /\ saved = [t \in Threads |-> <<>>]
  /\ advance = [t \in Threads |-> "interpret"]
  /\ code = Original /\ bound = Components
  /\ table = <<>> /\ nextId = 1
  /\ prompt = FALSE
  /\ reported = [t \in Threads |-> FALSE]
  /\ fault = FALSE

BreakpointsNext ==
  \/ \E t \in Threads : Run(t) \/ Start(t) \/ \E c \in Components : Call(t, c)
  \/ \E c \in Components : Load(c) \/ Unbind(c) \/ \E pc \in DOMAIN Original[c] : Install(c, pc)
  \/ \E id \in 1..MaxId : Delete(id)
  \/ Collect \/ Interrupt \/ List \/ Continue

BreakpointsSpec == BreakpointsInit /\ [][BreakpointsNext]_brkptVars

-----------------------------------------------------------------------------
(***************************************************************************)
(* Properties.                                                             *)
(***************************************************************************)

(* The code is the original one with op_BREAKPOINT at exactly the places   *)
(* in the table, each there once with the byte that it replaced; after a   *)
(* delete nothing of a breakpoint is left, and a component that is loaded  *)
(* where another was inherits nothing.  So the VM never takes a byte for   *)
(* another: a return finds the call that it returns to.                    *)
CodeFollowsTable ==
  /\ ~ fault
  /\ \A c \in Live : \A pc \in DOMAIN code[c] :
       code[c][pc] = IF IsBreakpoint(c, pc) THEN "BREAKPOINT" ELSE Original[c][pc]
  /\ \A i, j \in DOMAIN table :
       ~ Broken(table[i]) =>
         /\ table[i].comp \in Live
         /\ table[i].orig = Original[table[i].comp][table[i].pc]
         /\ i # j => table[j].id # table[i].id
              /\ <<table[j].comp, table[j].pc>> # <<table[i].comp, table[i].pc>>

(* Nobody runs past a breakpoint: the instruction at a breakpoint is       *)
(* executed only by a thread that stopped there and was reported, since it *)
(* came there; being given functions to run meanwhile changes nothing.     *)
StopsFirst ==
  [][\A t \in Threads :
       /\ Ready(t) /\ stack'[t] # stack[t]
       /\ IsBreakpoint(Current(t), Pc(t))
       => reported[t]]_brkptVars

(* Apart from stopping, breakpoints change nothing: the threads execute    *)
(* the instructions as they were loaded, each once.                        *)
RunsAsWritten == P!PlainSpec

(* A thread stops once at each arrival: what was reported as stopped will  *)
(* pass the breakpoint when it runs next, and nobody else will, whatever   *)
(* functions the user has it run and whatever he deletes or installs.      *)
StopsOnce == \A t \in Threads : reported[t] <=> advance[t] = "skip"
=============================================================================
