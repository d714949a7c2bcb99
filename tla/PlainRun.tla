------------------------------ MODULE PlainRun ------------------------------
(***************************************************************************)
(* What running byte code promises, whatever breakpoints there are: each   *)
(* thread executes the instructions of its components as they were loaded, *)
(* one after the other, and a function that the user calls on a thread     *)
(* returns to exactly the place where the thread was.                      *)
(***************************************************************************)
EXTENDS Naturals, Sequences, SequencesExt

CONSTANTS
  Threads,
  Components,   \* the components of byte code that can be loaded
  Original,     \* the instructions of each, as loaded
  MaxFrames     \* bound on the frames of a thread

VARIABLE stack  \* the frames of each thread, the innermost last

Frame(c, pc) == [kind |-> "code", comp |-> c, pc |-> pc]
Escape == [kind |-> "escape"]

InCode(s) == s # <<>> /\ Last(s).kind = "code"
Goes(s, pc) == [s EXCEPT ![Len(s)].pc = pc]

(* A frame returns, and so does the debugger command it was for. *)
Returned(s) ==
  LET rest == Front(s)
  IN IF rest # <<>> /\ Last(rest).kind = "escape" THEN Front(rest) ELSE rest

(* The stacks that the instruction op can make of s.  A call may be of a C *)
(* function too, which returns at once.                                    *)
Moves(s, op) ==
  LET next == Goes(s, Last(s).pc + 1)
  IN CASE op = "branch" -> {next, Goes(s, 1)}
       [] op = "call"   -> {next} \cup
            {Append(next, Frame(c, 1)) : c \in {d \in Components : Len(s) < MaxFrames}}
       [] op = "return" -> {Returned(s)}
       [] OTHER         -> {}

Runs(t) ==
  /\ InCode(stack[t])
  /\ \E s \in Moves(stack[t], Original[Last(stack[t]).comp][Last(stack[t]).pc]) :
       stack' = [stack EXCEPT ![t] = s]

Starts(t) ==
  /\ stack[t] = <<>>
  /\ \E c \in Components : stack' = [stack EXCEPT ![t] = <<Frame(c, 1)>>]

UserCalls(t) ==
  \E c \in Components :
    stack' = [stack EXCEPT ![t] = @ \o <<Escape, Frame(c, 1)>>]

PlainInit == stack = [t \in Threads |-> <<>>]
PlainNext == \E t \in Threads : Runs(t) \/ Starts(t) \/ UserCalls(t)
PlainSpec == PlainInit /\ [][PlainNext]_stack
=============================================================================
