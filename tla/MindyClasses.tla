----------------------------- MODULE MindyClasses -----------------------------
(***************************************************************************)
(* Classes and the layout of their instances: class.c and instance.c.      *)
(* "define class" is compiled into two calls.  defclass1 records the       *)
(* superclasses and computes the class precedence list; defclass2 lays out *)
(* the slots and makes their accessors.  Either may end in an error half   *)
(* way, and what it did until then stays.                                  *)
(***************************************************************************)
EXTENDS Naturals, FiniteSets, Queues

CONSTANTS
  Root,          \* <object>
  Classes,       \* the classes that the program defines
  SuperChoices,  \* the superclass lists each class may be defined with
  SlotChoices,   \* the lists of new slots each class may be defined with
  EachSubclass   \* the slot names with one value per class, not per instance

ASSUME ClassesAssumption ==
  /\ Root \notin Classes
  /\ \A c \in Classes : SuperChoices[c] \subseteq Seq(Classes \cup {Root}) \ {<<>>}
  /\ \A c \in Classes : \A names \in SlotChoices[c] : names \in Seq(Range(names))

VARIABLES
  superclasses,  \* the direct superclasses of the classes that have them
  cpl,           \* the precedence lists that could be computed
  newSlots,      \* new_slots of the classes that defclass2 has reached
  positions,     \* where a class keeps the slots that it displaces
  finished,      \* the classes whose definition came to its end
  everMissed,    \* the slots some class displaces: their accessors search
  fault          \* the code follows #f as if it were a list

classVars == <<superclasses, cpl, newSlots, positions, finished, everMissed, fault>>

(* A table with an entry for one class more, or a new one. *)
With(table, c, x) == [k \in DOMAIN table \cup {c} |-> IF k = c THEN x ELSE table[k]]

-----------------------------------------------------------------------------
(***************************************************************************)
(* Precedence lists.  The ancestors of a class, itself included, are       *)
(* ordered by the superclass lists of all of them: each class before its   *)
(* superclasses, and these in the order they are written in.               *)
(***************************************************************************)
Ancestors(c) ==
  LET up[k \in DOMAIN superclasses] ==
        {k} \cup UNION {up[k2] : k2 \in Range(superclasses[k])}
  IN up[c]

\* Mutant: superclasses follow their class, in any order among themselves.
WrittenOrderLoose(c, known) == {<<c, s>> : s \in Range(known[c])}

WrittenOrder(c, known) ==
  LET list == <<c>> \o known[c] IN {<<list[i], list[i + 1]>> : i \in 1 .. Len(list) - 1}

(* The class to come next: of the candidates, a superclass of the class    *)
(* placed last that has any of them as a superclass.                       *)
TieBreaker(candidates, placed, known) ==
  IF Cardinality(candidates) = 1 THEN CHOOSE k \in candidates : TRUE
  ELSE LET i == SelectLastInSeq(placed, LAMBDA k : Range(known[k]) \cap candidates # {})
       IN CHOOSE k \in candidates : k \in Range(known[placed[i]])

Candidates(placed, members, known) ==
  {k \in members \ Range(placed) :
     \A k2 \in members : \A edge \in WrittenOrder(k2, known) :
       edge[2] = k => edge[1] \in Range(placed)}

PlaceOne(placed, members, known) ==
  LET candidates == Candidates(placed, members, known)
  IN IF candidates = {} THEN placed
     ELSE Append(placed, TieBreaker(candidates, placed, known))

(* The list built by placing one class after another; it is shorter than   *)
(* the set when the code says "Inconsistent CPL".                          *)
SlowComputeCpl(members, known) ==
  FoldLeft(LAMBDA placed, i : PlaceOne(placed, members, known), <<>>,
           [i \in 1 .. Cardinality(members) |-> i])

(* defclass1: setup_class_supers.  An uninitialized superclass is an error *)
(* before anything is changed.  A superclass without a precedence list is  *)
(* not noticed: it makes the only superclass's #f the tail of the list.    *)
DefClass1(c, supers) ==
  LET known == With(superclasses, c, supers)
      members == {c} \cup UNION {Ancestors(s) : s \in Range(supers)}
      list == IF Len(supers) = 1 THEN <<c>> \o cpl[supers[1]]
              ELSE SlowComputeCpl(members, known)
  IN /\ ~ fault
     /\ c \notin DOMAIN superclasses /\ Range(supers) \subseteq DOMAIN superclasses
     /\ superclasses' = known
     /\ \/ /\ Len(supers) = 1 => supers[1] \in DOMAIN cpl
           /\ cpl' = IF Len(list) = Cardinality(members) THEN With(cpl, c, list) ELSE cpl
           /\ UNCHANGED fault
        \/ /\ Len(supers) = 1 /\ supers[1] \notin DOMAIN cpl
           /\ fault' = TRUE
           /\ UNCHANGED cpl
     /\ UNCHANGED <<newSlots, positions, finished, everMissed>>

(* all_subclasses, which setup_class_supers keeps for overlapp. *)
AllSubclasses(c) == {d \in DOMAIN cpl \ {c} : c \in Range(cpl[d])}

-----------------------------------------------------------------------------
(***************************************************************************)
(* Slots.  A slot is named by the class that creates it and its name, the  *)
(* getter; there is a layout for the slots of the instances and one, of    *)
(* the same make, for the slots with a value per class.                    *)
(***************************************************************************)
Layouts == {TRUE, FALSE}

SlotsOf(c, each) ==
  SubQueue([i \in DOMAIN newSlots[c] |-> <<c, newSlots[c][i]>>],
           {s \in {c} \X Range(newSlots[c]) : (s[2] \in EachSubclass) = each})

(* compute_lengths: the slots of a class come after all it inherits. *)
InheritedLength(c, each) ==
  FoldLeft(LAMBDA n, k : n + Len(SlotsOf(k, each)), 0, Tail(cpl[c]))

DesiredOffset(s) ==
  LET each == s[2] \in EachSubclass
  IN InheritedLength(s[1], each)
       + SelectInSeq(SlotsOf(s[1], each), LAMBDA s2 : s2 = s) - 1

(* The order in which inherit_slots reaches the superclasses: depth first, *)
(* each class after its own superclasses, and once.                        *)
InheritOrder(c) ==
  LET walk[k \in DOMAIN superclasses] ==
        FlattenSeq([i \in DOMAIN superclasses[k] |-> walk[superclasses[k][i]]]) \o <<k>>
  IN Without(FoldLeft(LAMBDA seen, k : IF k \in Range(seen) THEN seen ELSE Append(seen, k),
                      <<>>, walk[c]),
             c)

Inherited(c, each) ==
  FlattenSeq([i \in DOMAIN InheritOrder(c) |-> SlotsOf(InheritOrder(c)[i], each)])

(* inherit_slots: a slot whose place is taken is displaced. *)
Displaced(c, each) ==
  FoldLeft(LAMBDA d, s : IF DesiredOffset(s) \in d.taken
                         THEN [d EXCEPT !.slots = <<s>> \o @]
                         ELSE [d EXCEPT !.taken = @ \cup {DesiredOffset(s)}],
           [taken |-> {}, slots |-> <<>>], Inherited(c, each))

\* Mutant: the search for a free place starts after the places taken.
ComputePositionsAppended(c, each) ==
  LET d == Displaced(c, each)
  IN [s \in Range(d.slots) |->
        Cardinality(d.taken) + SelectInSeq(d.slots, LAMBDA s2 : s2 = s) - 1]

(* The place with n of these places up to it. *)
NthPlace(places, n) == CHOOSE p \in places : Cardinality({q \in places : q <= p}) = n

(* compute_positions: the displaced slots fill the places left free. *)
ComputePositions(c, each) ==
  LET d == Displaced(c, each)
      free == (0 .. InheritedLength(c, each) - 1) \ d.taken
  IN [s \in Range(d.slots) |-> NthPlace(free, SelectInSeq(d.slots, LAMBDA s2 : s2 = s))]

(* note_position: the accessors of a displaced slot search from now on. *)
NotePositions(tables) ==
  everMissed' = everMissed \cup UNION {DOMAIN tables[each] : each \in Layouts}

(* add_slot: two slots of a class have one getter. *)
Clash(names) == ~ IsInjective(names)

(* What defclass2 relies on: the precedence list, and new_slots above.     *)
Prepared(c) == c \in DOMAIN cpl /\ Range(Tail(cpl[c])) \subseteq DOMAIN newSlots

(* defclass2: init_defined_class.  It trusts the lists that defclass1 and  *)
(* the superclasses' own defclass2 should have made.  Two slots with one   *)
(* getter are an error: among the inherited ones before any position is    *)
(* computed, with a new one after that.                                    *)
DefClass2(c, names) ==
  LET above == InheritOrder(c)
      inherited == FlattenSeq([i \in DOMAIN above |-> newSlots[above[i]]])
      tables == [each \in Layouts |-> ComputePositions(c, each)]
  IN /\ ~ fault
     /\ c \notin DOMAIN newSlots
     /\ \/ /\ ~ Prepared(c)
           /\ fault' = TRUE
           /\ UNCHANGED <<newSlots, positions, finished, everMissed>>
        \/ /\ Prepared(c)
           /\ newSlots' = With(newSlots, c, names)
           /\ \/ /\ Clash(inherited)
                 /\ UNCHANGED <<positions, finished, everMissed>>
              \/ /\ ~ Clash(inherited)
                 /\ positions' = With(positions, c, tables)
                 /\ NotePositions(tables)
                 /\ finished' = IF Clash(inherited \o names)
                                THEN finished ELSE finished \cup {c}
           /\ UNCHANGED fault
     /\ UNCHANGED <<superclasses, cpl>>

-----------------------------------------------------------------------------
ClassInit ==
  /\ superclasses = [k \in {Root} |-> <<>>]
  /\ cpl = [k \in {Root} |-> <<Root>>]
  /\ newSlots = [k \in {Root} |-> <<>>]
  /\ positions = <<>>
  /\ finished = {}
  /\ everMissed = {}
  /\ fault = FALSE

ClassNext ==
  \E c \in Classes :
    \/ \E supers \in SuperChoices[c] : DefClass1(c, supers)
    \/ \E names \in SlotChoices[c] : DefClass2(c, names)

ClassSpec == ClassInit /\ [][ClassNext]_classVars

-----------------------------------------------------------------------------
(***************************************************************************)
(* Properties.                                                             *)
(***************************************************************************)
Before(list, k1, k2) == \E i, j \in DOMAIN list : i < j /\ list[i] = k1 /\ list[j] = k2

Respects(list, c) ==
  \A k \in Ancestors(c) :
    LET written == <<k>> \o superclasses[k]
    IN \A i, j \in DOMAIN written : i < j => Before(list, written[i], written[j])

(* A precedence list names the class and everything above it once, in an   *)
(* order that agrees with every superclass list among them; and "Inconsis- *)
(* tent CPL" is said only when there is no such order (compute_cpl).       *)
CplIsRight ==
  ~ fault => \A c \in DOMAIN superclasses :
    IF c \in DOMAIN cpl
    THEN cpl[c] \in SetToSeqs(Ancestors(c)) /\ Respects(cpl[c], c)
    ELSE \A list \in SetToSeqs(Ancestors(c)) : ~ Respects(list, c)

(* find_position, which make and the slow accessors use, and the place the *)
(* accessor methods use: a fixed offset until the slot was ever missed.    *)
Position(c, s) ==
  LET table == positions[c][s[2] \in EachSubclass]
  IN IF s \in DOMAIN table THEN table[s] ELSE DesiredOffset(s)
AccessorPosition(c, s) == IF s \in everMissed THEN Position(c, s) ELSE DesiredOffset(s)

(* In the instances of a finished class every slot, inherited or new, has  *)
(* a place of its own inside the instance, and its accessors, which all    *)
(* classes share, find it where the instance keeps it.                     *)
SlotsKeptApart ==
  \A c \in finished : \A each \in Layouts :
    LET all == Inherited(c, each) \o SlotsOf(c, each)
    IN /\ {AccessorPosition(c, s) : s \in Range(all)} = 0 .. Len(all) - 1
       /\ \A s \in Range(all) : AccessorPosition(c, s) = Position(c, s)
=============================================================================
