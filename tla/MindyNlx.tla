------------------------------ MODULE MindyNlx ------------------------------
(***************************************************************************)
(* Non-local exits of one Mindy thread: unwind-protect, catch and throw    *)
(* (nlx.c) and the list of condition handlers that they restore            *)
(* (handler.c).                                                            *)
(*                                                                         *)
(* The code keeps two chains beside the stack, of catch blocks on the heap *)
(* and of unwind-protects in the stack itself, and a throw works from the  *)
(* chains alone.  A cleanup that a throw runs is ordinary code: it may     *)
(* enter and leave blocks, and throw elsewhere.                            *)
(***************************************************************************)
EXTENDS Integers, Sequences, SequencesExt

CONSTANTS
  Blocks,     \* the catch blocks that fit in the heap
  Cleanups,   \* cleanup functions
  Handlers,   \* condition handlers
  NoBlock,    \* obj_False, the end of the chain of catch blocks
  MaxFrames   \* bound on the stack

ASSUME NlxAssumption == NoBlock \notin Blocks /\ MaxFrames \in Nat

VARIABLES
  frames,     \* the stack, from its base; a position in it is an address
  blocks,     \* the catch blocks
  curCatch,   \* thread->cur_catch
  curUwp,     \* thread->cur_uwp: a position, 0 for NULL
  handlers,   \* thread->handlers, from the innermost
  fault       \* whether the end of a chain was followed as a pointer

nlxVars == <<frames, blocks, curCatch, curUwp, handlers, fault>>

-----------------------------------------------------------------------------
NewBlock == [valid |-> FALSE, uwp |-> 0, prev |-> NoBlock, fp |-> 0, handlers |-> <<>>]

(* What the frames of the stack are for: the call of a catch's body (kind  *)
(* catch, with its block), of a protected form (uwp, with the enclosing    *)
(* one, the handlers and the cleanup), of a cleanup after it returned      *)
(* normally (cleanup) or on the way to a catch block (unwinding), or the   *)
(* extent of a "let handler" (binding).                                    *)
Top == Last(frames)
Room == Len(frames) < MaxFrames /\ ~ fault
Below(p) == SubSeq(frames, 1, p - 1)

-----------------------------------------------------------------------------
(* Entering. *)

(* uwp. *)
EnterProtected(k) ==
  /\ Room
  /\ frames' = Append(frames, [kind |-> "uwp", prev |-> curUwp,
                               handlers |-> handlers, cleanup |-> k])
  /\ curUwp' = Len(frames) + 1
  /\ UNCHANGED <<blocks, curCatch, handlers, fault>>

(* catch.  A block that is not valid any more stands for a new one.        *)
EnterCatch(c) ==
  /\ Room /\ ~ blocks[c].valid
  /\ \A d \in Blocks : blocks[d].valid => blocks[d].prev # c
  /\ \A i \in DOMAIN frames : frames[i].kind = "unwinding" => frames[i].to # c
  /\ frames' = Append(frames, [kind |-> "catch", block |-> c])
  /\ blocks' = [blocks EXCEPT ![c] =
                  [valid |-> TRUE, uwp |-> curUwp, prev |-> curCatch,
                   fp |-> Len(frames) + 1, handlers |-> handlers]]
  /\ curCatch' = c
  /\ UNCHANGED <<curUwp, handlers, fault>>

(* push_handler. *)
BindHandler(h) ==
  /\ Room
  /\ frames' = Append(frames, [kind |-> "binding", handler |-> h])
  /\ handlers' = <<h>> \o handlers
  /\ UNCHANGED <<blocks, curCatch, curUwp, fault>>

-----------------------------------------------------------------------------
(* Leaving normally. *)

Returns(kind) == ~ fault /\ frames # <<>> /\ Top.kind = kind

(* pop_handler. *)
UnbindHandler ==
  /\ Returns("binding")
  /\ frames' = Front(frames)
  /\ handlers' = Tail(handlers)
  /\ UNCHANGED <<blocks, curCatch, curUwp, fault>>

(* Mutant: the block stays valid after its extent. *)
LeaveCatchValid ==
  /\ Returns("catch")
  /\ frames' = Front(frames)
  /\ curCatch' = blocks[curCatch].prev
  /\ UNCHANGED <<blocks, curUwp, handlers, fault>>

(* unlink_catch, which takes the innermost block for its own. *)
LeaveCatch ==
  /\ Returns("catch")
  /\ frames' = Front(frames)
  /\ curCatch' = blocks[curCatch].prev
  /\ blocks' = [blocks EXCEPT ![curCatch] = NewBlock]
  /\ UNCHANGED <<curUwp, handlers, fault>>

(* do_uwp_cleanup. *)
LeaveProtected ==
  /\ Returns("uwp")
  /\ curUwp' = frames[curUwp].prev
  /\ frames' = Append(Front(frames),
                      [kind |-> "cleanup", cleanup |-> frames[curUwp].cleanup])
  /\ UNCHANGED <<blocks, curCatch, handlers, fault>>

(* done_with_cleanup. *)
CleanupDone ==
  /\ Returns("cleanup")
  /\ frames' = Front(frames)
  /\ UNCHANGED <<blocks, curCatch, curUwp, handlers, fault>>

-----------------------------------------------------------------------------
(***************************************************************************)
(* unwind, to the block c.  It passes catch blocks from the innermost on,  *)
(* invalidating them, until it has passed c, or comes to one that was      *)
(* entered under another unwind-protect than the current one, whose        *)
(* cleanup must then run first.                                            *)
(***************************************************************************)
LinkedFrom(n) ==
  LET back[i \in 0..n] ==
        IF i = 0 THEN curCatch
        ELSE IF back[i - 1] = NoBlock THEN NoBlock
        ELSE blocks[back[i - 1]].prev
  IN back[n]

Stops(n) == LinkedFrom(n) = NoBlock \/ blocks[LinkedFrom(n)].uwp # curUwp

(* How many blocks are passed before unwind stops. *)
Passed(c) ==
  CHOOSE n \in 0..Len(frames) :
    /\ Stops(n) \/ (n > 0 /\ LinkedFrom(n - 1) = c)
    /\ \A i \in 0..(n - 1) : ~ Stops(i) /\ (i > 0 => LinkedFrom(i - 1) # c)

PassedBlocks(c) == {LinkedFrom(i) : i \in 0..(Passed(c) - 1)}

(* Mutant: the handlers stay those of the code that is left. *)
LandKeepingHandlers(c) ==
  /\ frames' = Below(blocks[c].fp)
  /\ curCatch' = blocks[c].prev
  /\ UNCHANGED <<curUwp, handlers, fault>>

Land(c) ==
  /\ frames' = Below(blocks[c].fp)
  /\ curCatch' = blocks[c].prev
  /\ handlers' = blocks[c].handlers
  /\ UNCHANGED <<curUwp, fault>>

(* Mutant: the unwind-protect stays linked while its cleanup runs. *)
RunCleanupLinked(c) ==
  LET uwp == frames[curUwp]
  IN /\ frames' = Append(Below(curUwp), [kind |-> "unwinding",
                                         cleanup |-> uwp.cleanup, to |-> c])
     /\ curCatch' = LinkedFrom(Passed(c))
     /\ handlers' = uwp.handlers
     /\ UNCHANGED <<curUwp, fault>>

RunCleanup(c) ==
  LET uwp == frames[curUwp]
  IN /\ frames' = Append(Below(curUwp), [kind |-> "unwinding",
                                         cleanup |-> uwp.cleanup, to |-> c])
     /\ curUwp' = uwp.prev
     /\ curCatch' = LinkedFrom(Passed(c))
     /\ handlers' = uwp.handlers
     /\ UNCHANGED fault

(* Mutant: cleanups are not run on the way. *)
UnwindStraight(c) ==
  /\ blocks' = [d \in Blocks |-> IF blocks[d].valid /\ blocks[d].fp >= blocks[c].fp
                                   THEN NewBlock ELSE blocks[d]]
  /\ frames' = Below(blocks[c].fp)
  /\ curCatch' = blocks[c].prev
  /\ curUwp' = blocks[c].uwp
  /\ handlers' = blocks[c].handlers
  /\ UNCHANGED fault

Unwind(c) ==
  /\ blocks' = [d \in Blocks |-> IF d \in PassedBlocks(c) THEN NewBlock ELSE blocks[d]]
  /\ IF c \in PassedBlocks(c) THEN Land(c)
     ELSE IF LinkedFrom(Passed(c)) # NoBlock /\ curUwp # 0 THEN RunCleanup(c)
     ELSE fault' = TRUE /\ UNCHANGED <<frames, curCatch, curUwp, handlers>>

(* throw.  To a block that is not valid it is an error ("Bogus throw"),    *)
(* which is an ordinary call.                                              *)
Throw(c) == ~ fault /\ blocks[c].valid /\ Unwind(c)

(* continue_unwind: the cleanup returns, and its throw goes on.            *)
ContinueUnwind == Returns("unwinding") /\ Unwind(Top.to)

-----------------------------------------------------------------------------
NlxInit ==
  /\ frames = <<>>
  /\ blocks = [c \in Blocks |-> NewBlock]
  /\ curCatch = NoBlock /\ curUwp = 0 /\ handlers = <<>>
  /\ fault = FALSE

NlxNext ==
  \/ \E k \in Cleanups : EnterProtected(k)
  \/ \E c \in Blocks : EnterCatch(c) \/ Throw(c)
  \/ \E h \in Handlers : BindHandler(h)
  \/ UnbindHandler \/ LeaveCatch \/ LeaveProtected \/ CleanupDone
  \/ ContinueUnwind

NlxSpec == NlxInit /\ [][NlxNext]_nlxVars

-----------------------------------------------------------------------------
(***************************************************************************)
(* Properties.                                                             *)
(***************************************************************************)

(* The positions of the frames of one kind, from the innermost. *)
Innermost(kind, p) ==
  {i \in 1..p : frames[i].kind = kind /\ \A j \in (i + 1)..p : frames[j].kind # kind}

UwpBelow(p) == IF Innermost("uwp", p) = {} THEN 0
               ELSE CHOOSE i \in Innermost("uwp", p) : TRUE
BlockBelow(p) == IF Innermost("catch", p) = {} THEN NoBlock
                 ELSE frames[CHOOSE i \in Innermost("catch", p) : TRUE].block

(* The chains that throw works from are those of the frames on the stack,  *)
(* whatever was entered, returned from and thrown past, cleanups that      *)
(* throw elsewhere included (cur_catch, cur_uwp and their prev links), and *)
(* no throw comes to their end.                                            *)
ChainsFollowStack ==
  /\ ~ fault
  /\ curCatch = BlockBelow(Len(frames))
  /\ curUwp = UwpBelow(Len(frames))
  /\ \A i \in DOMAIN frames :
       /\ frames[i].kind = "catch" =>
            LET b == blocks[frames[i].block]
            IN b.fp = i /\ b.prev = BlockBelow(i - 1) /\ b.uwp = UwpBelow(i - 1)
       /\ frames[i].kind = "uwp" => frames[i].prev = UwpBelow(i - 1)

(* An exit procedure works exactly while its block is on the stack: after  *)
(* that a throw to it is bogus, and before that it is not.                 *)
ValidWhileOnStack ==
  \A c \in Blocks :
    blocks[c].valid <=> \E i \in DOMAIN frames :
                          frames[i] = [kind |-> "catch", block |-> c]

(* The handlers hs under the frame f, with what f binds. *)
BoundOver(f, hs) == IF f.kind = "binding" THEN <<f.handler>> \o hs ELSE hs

(* What the frames of the stack f up to position p bind, innermost first.  *)
BoundBelow(f, p) ==
  LET bound[i \in 0..p] == IF i = 0 THEN <<>> ELSE BoundOver(f[i], bound[i - 1])
  IN bound[p]

(* The handlers in force are the ones bound by the frames on the stack, in *)
(* cleanups and after throws too.                                          *)
HandlersFollowStack == handlers = BoundBelow(frames, Len(frames))

(* A protected form is never left without its cleanup: a frame of uwp      *)
(* gives way only to the call of its own cleanup, so inner ones run first, *)
(* and one at a time.                                                      *)
CleanupsRun ==
  [][\A p \in DOMAIN frames :
       frames[p].kind = "uwp" =>
         /\ p \in DOMAIN frames'
         /\ \/ frames'[p] = frames[p]
            \/ /\ frames'[p].kind \in {"cleanup", "unwinding"}
               /\ frames'[p].cleanup = frames[p].cleanup
               /\ Len(frames') = p]_nlxVars
=============================================================================
