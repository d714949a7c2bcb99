------------------------------ MODULE MindyLoader -----------------------------
(***************************************************************************)
(* Loading compiled files: the queues of load.c, with the classes that the *)
(* files define.  Reading a file queues its forms, class creations apart   *)
(* from the rest; then the forms at hand are run one after another, each a *)
(* call that other threads may interrupt, that may load another file, and  *)
(* that may be left for good by a non-local exit.  There is one set of     *)
(* queues, whoever loads.                                                  *)
(***************************************************************************)
EXTENDS MindyClasses, Queues

CONSTANTS
  Threads,
  Files,
  Contents  \* what each file holds: classes to define, and files to load

Definition(c) == [defines |-> c]
LoadOf(f) == [loads |-> f]

ASSUME LoaderAssumption ==
  \A f \in Files : Contents[f] \in Seq({Definition(c) : c \in Classes} \cup {LoadOf(g) : g \in Files})

VARIABLES
  everything,  \* State.everything: the forms that are being run off
  classForms,  \* State.classes: the class creations of the files read
  otherForms,  \* State.top_level_forms: the other forms of the files read
  stack,       \* the loads each thread is in, each with the form it runs
  read,        \* the files that a load was asked for
  returned,    \* the files whose load returned
  done,        \* the forms that ran to their end
  left,        \* the forms that an error or an exit cut short
  overlap      \* two threads were loading at the same time

queues == <<everything, classForms, otherForms>>
loadVars == <<classVars, queues, stack, read, returned, done, left, overlap>>

-----------------------------------------------------------------------------
(* The forms of a file.  A class makes two: its creation, which goes with  *)
(* the creations of all classes, and its slots.                            *)
Creation(f, c) == [file |-> f, step |-> "defclass1", of |-> Definition(c)]
Form(f, item) ==
  [file |-> f, step |-> IF item \in {Definition(c) : c \in Classes} THEN "defclass2" ELSE "load",
   of |-> item]

CreationsIn(f, items) ==
  LET classes == SubQueue(items, {Definition(c) : c \in Classes})
  IN [i \in DOMAIN classes |-> Creation(f, classes[i].defines)]
FormsIn(f, items) == [i \in DOMAIN items |-> Form(f, items[i])]
FormsOf(f) == Range(CreationsIn(f, Contents[f])) \cup Range(FormsIn(f, Contents[f]))

InLoad(t) == stack[t] # <<>>

\* Mutant: a load returns when the next form is another file's.
DoNextInitOwn(t, loads, forms) ==
  LET own == forms # <<>> /\ Head(forms).file = Last(loads).file
  IN /\ stack' = [stack EXCEPT ![t] =
                    IF own THEN Front(loads) \o <<[Last(loads) EXCEPT !.form = Head(forms),
                                                                      !.called = FALSE]>>
                    ELSE Front(loads)]
     /\ everything' = IF own THEN Tail(forms) ELSE forms
     /\ returned' = IF own THEN returned ELSE returned \cup {Last(loads).file}

(* do_next_init: the innermost load of a thread runs the form at the head  *)
(* of the queue, or returns when there is none.                            *)
DoNextInit(t, loads, forms) ==
  IF forms # <<>>
  THEN /\ stack' = [stack EXCEPT ![t] =
                      Front(loads) \o <<[Last(loads) EXCEPT !.form = Head(forms), !.called = FALSE]>>]
       /\ everything' = Tail(forms)
       /\ UNCHANGED returned
  ELSE /\ stack' = [stack EXCEPT ![t] = Front(loads)]
       /\ everything' = forms
       /\ returned' = returned \cup {Last(loads).file}

(* Leaving a thread's loads by a non-local exit: the inner ones are gone,  *)
(* and the forms they were running are never resumed.                      *)
Leave(t, depth) ==
  /\ stack' = [stack EXCEPT ![t] = SubSeq(@, 1, depth)]
  /\ left' = left \cup {stack[t][i].form : i \in depth + 1 .. Len(stack[t])}

(* A load from outside, or from a form. *)
MayLoad(t, f) ==
  /\ f \notin read
  /\ InLoad(t) => Last(stack[t]).form = Form(Last(stack[t]).form.file, LoadOf(f))
                    /\ ~ Last(stack[t]).called

Calling(t) ==
  IF InLoad(t) THEN Front(stack[t]) \o <<[Last(stack[t]) EXCEPT !.called = TRUE]>> ELSE <<>>

\* Mutant: the other forms of the file come before its class creations.
LoadFormsFirst(t, f) ==
  /\ MayLoad(t, f)
  /\ read' = read \cup {f}
  /\ overlap' = (overlap \/ \E u \in Threads \ {t} : InLoad(u))
  /\ DoNextInit(t, Append(Calling(t), [file |-> f, form |-> <<>>, called |-> FALSE]),
                everything \o otherForms \o FormsIn(f, Contents[f])
                  \o classForms \o CreationsIn(f, Contents[f]))
  /\ classForms' = <<>> /\ otherForms' = <<>>
  /\ UNCHANGED <<classVars, done, left>>

(* dylan_load: load, then load_do_inits with do_first_init. *)
Load(t, f) ==
  /\ MayLoad(t, f)
  /\ read' = read \cup {f}
  /\ overlap' = (overlap \/ \E u \in Threads \ {t} : InLoad(u))
  /\ DoNextInit(t, Append(Calling(t), [file |-> f, form |-> <<>>, called |-> FALSE]),
                everything \o classForms \o CreationsIn(f, Contents[f])
                  \o otherForms \o FormsIn(f, Contents[f]))
  /\ classForms' = <<>> /\ otherForms' = <<>>
  /\ UNCHANGED <<classVars, done, left>>

(* An error while reading: what was read stays queued. *)
LoadFails(t, f) ==
  /\ MayLoad(t, f)
  /\ read' = read \cup {f}
  /\ \E n \in 0 .. Len(Contents[f]) - 1 :
       /\ classForms' = classForms \o CreationsIn(f, SubSeq(Contents[f], 1, n))
       /\ otherForms' = otherForms \o FormsIn(f, SubSeq(Contents[f], 1, n))
  /\ IF InLoad(t) THEN \E depth \in 0 .. Len(stack[t]) - 1 : Leave(t, depth)
     ELSE UNCHANGED <<stack, left>>
  /\ UNCHANGED <<classVars, everything, returned, done, overlap>>

(* A form ends normally, and the load goes on (did_form). *)
Finish(t) ==
  /\ done' = done \cup {Last(stack[t]).form}
  /\ DoNextInit(t, stack[t], everything)
  /\ UNCHANGED <<classForms, otherForms, read, left, overlap>>

(* The two calls of a class definition, and whether the call comes to its  *)
(* end: an error leaves what it did until then.                            *)
Define(form) ==
  LET c == form.of.defines
  IN IF form.step = "defclass1" THEN \E supers \in SuperChoices[c] : DefClass1(c, supers)
     ELSE \E names \in SlotChoices[c] : DefClass2(c, names)

Defined(form) ==
  form.of.defines \in IF form.step = "defclass1" THEN DOMAIN cpl' ELSE finished'

Runs(t, steps) == ~ fault /\ InLoad(t) /\ Last(stack[t]).form.step \in steps

RunDefinition(t) ==
  /\ Runs(t, {"defclass1", "defclass2"})
  /\ Define(Last(stack[t]).form)
  /\ ~ fault' => Defined(Last(stack[t]).form)
  /\ Finish(t)

FailDefinition(t) ==
  /\ Runs(t, {"defclass1", "defclass2"})
  /\ Define(Last(stack[t]).form)
  /\ ~ fault' /\ ~ Defined(Last(stack[t]).form)
  /\ \E depth \in 0 .. Len(stack[t]) - 1 : Leave(t, depth)
  /\ UNCHANGED <<queues, read, returned, done, overlap>>

EndNestedLoad(t) ==
  /\ Runs(t, {"load"}) /\ Last(stack[t]).called
  /\ Finish(t)
  /\ UNCHANGED classVars

(* A form that is left before it has done anything, by an exit or because  *)
(* the thread is killed.                                                   *)
LeaveForm(t) ==
  /\ Runs(t, {"defclass1", "defclass2", "load"})
  /\ \E depth \in 0 .. Len(stack[t]) - 1 : Leave(t, depth)
  /\ UNCHANGED <<classVars, queues, read, returned, done, overlap>>

LoadInit ==
  /\ ClassInit
  /\ everything = <<>> /\ classForms = <<>> /\ otherForms = <<>>
  /\ stack = [t \in Threads |-> <<>>]
  /\ read = {} /\ returned = {} /\ done = {} /\ left = {}
  /\ overlap = FALSE

LoadNext ==
  \E t \in Threads :
    \/ \E f \in Files : ~ fault /\ (Load(t, f) \/ LoadFails(t, f))
    \/ RunDefinition(t) \/ FailDefinition(t) \/ EndNestedLoad(t) \/ LeaveForm(t)

LoadSpec == LoadInit /\ [][LoadNext]_loadVars

-----------------------------------------------------------------------------
(***************************************************************************)
(* Properties.                                                             *)
(***************************************************************************)

(* As long as one thread loads at a time, a load returns only when every   *)
(* form of its file has run or was cut short (do_next_init).               *)
LoadedWhenReturned ==
  ~ overlap => \A f \in returned : FormsOf(f) \subseteq done \cup left

(* Whoever loads, when no thread is in a load any more and none was left,  *)
(* no form waits for a load that may never come.                           *)
NoFormWaits ==
  (\A t \in Threads : ~ InLoad(t)) /\ left = {} => everything = <<>>

(* Files that define each class after its superclasses never make the code *)
(* rely on a step of a definition that has not been made, while one thread *)
(* loads at a time and no form is left.                                    *)
DefinitionsInOrder == ~ overlap /\ left = {} => ~ fault
=============================================================================
