--------------------------- MODULE MindyCollector ---------------------------
(***************************************************************************)
(* The copying collector of gc.c, with the weak pointers of weak.c and the *)
(* hash state of the space in use.                                         *)
(*                                                                         *)
(* An object lies in a slot of a block.  A collection copies what the      *)
(* roots reach to the blocks of a new space, leaves forwarding pointers,   *)
(* follows the copies in the order in which they were made, and gives the  *)
(* old blocks back, from which the next space takes them again.            *)
(* An object carries a number, which the code has not: it is copied with   *)
(* the object, and tells the properties which object a copy is of.         *)
(***************************************************************************)
EXTENDS Integers, Sequences, FiniteSets, SequencesExt

CONSTANTS
  Roots,      \* the places that scavenge_*_roots and the reference lists name
  MaxBlocks,  \* bound on the blocks that can ever be had
  BlockSize,  \* in slots
  Fields,     \* the number of slots of an object of the program
  MaxObjects, \* bound on the objects ever made
  MaxCollections, \* bound on the collections
  Nil         \* an immediate value

ASSUME CollectorAssumption ==
  /\ MaxBlocks \in Nat /\ BlockSize \in Nat \ {0}
  /\ Fields \in Nat \ {0}
  /\ MaxObjects \in Nat /\ MaxCollections \in Nat
  /\ Nil \notin Nat /\ Nil \notin [block : Nat, slot : Nat]

VARIABLES
  memory,     \* what lies in each block, up to its fill pointer
  current,    \* the blocks of CurrentSpace, or of OldSpace in a collection
  new,        \* the blocks of NewSpace
  root,       \* what each root holds
  hashState,  \* the hash_state of the space in use
  phase,      \* off, roots, scan or weak
  todo,       \* the roots that are not scavenged yet
  scan,       \* scan_block, by its number in NewSpace, and scan_ptr
  weak,       \* WeakPointers
  made,       \* the number of objects made
  collections, \* the number of collections
  before      \* what the program saw when the collection began

spaceVars == <<memory, current, new>>
gcVars == <<phase, todo, scan, weak>>
vars == <<spaceVars, gcVars, root, hashState, made, collections, before>>

Ids == 1..MaxObjects
Blocks == 1..MaxBlocks

-----------------------------------------------------------------------------
(***************************************************************************)
(* Spaces.                                                                 *)
(***************************************************************************)

At(block, slot) == [block |-> block, slot |-> slot]
Object(id, kind, fields) == [id |-> id, kind |-> kind, fields |-> fields, ok |-> TRUE]
Forwarded(o) == "to" \in DOMAIN o
IsPtr(x) == x # Nil

Deref(p) == memory[p.block][p.slot]

Room(space) == space # <<>> /\ Len(memory[Last(space)]) < BlockSize

(* The block that grow_space takes, off FreeBlocks or from malloc: which   *)
(* makes no difference.  When none is left the heap is full, and the VM    *)
(* stops.                                                                  *)
Free == Blocks \ (Range(current) \cup Range(new))
FirstFree == {b \in Free : \A c \in Free : b <= c}

(* raw_alloc: the object in the last block of space, or in one more block, *)
(* which is filled from its base.                                          *)
RawAlloc(space, object) ==
  IF Room(space)
    THEN {[memory |-> [memory EXCEPT ![Last(space)] = Append(@, object)], space |-> space]}
    ELSE {[memory |-> [memory EXCEPT ![b] = <<object>>], space |-> Append(space, b)] :
            b \in FirstFree}

Placed(g) == At(Last(g.space), Len(g.memory[Last(g.space)]))

-----------------------------------------------------------------------------
(***************************************************************************)
(* The program.                                                            *)
(***************************************************************************)

Held == {root[r] : r \in Roots} \cup {Nil}

(* alloc: the new object is reachable from a root at once. *)
Alloc(r, kind, fields) ==
  /\ phase = "off" /\ made < MaxObjects
  /\ made' = made + 1
  /\ \E g \in RawAlloc(current, Object(made', kind, fields)) :
       /\ memory' = g.memory /\ current' = g.space
       /\ root' = [root EXCEPT ![r] = Placed(g)]
  /\ UNCHANGED <<new, gcVars, collections, before>>

MakeObject(r) ==
  /\ \/ \E x \in Held : Alloc(r, "plain", [f \in 1..Fields |-> x])
     \/ \E x \in Held : Alloc(r, "weak", <<x>>)
  /\ UNCHANGED hashState

Write(r) ==
  /\ phase = "off"
  /\ IsPtr(root[r]) /\ Deref(root[r]).kind = "plain"
  /\ \E f \in 1..Fields, x \in Held :
       memory' = [memory EXCEPT ![root[r].block][root[r].slot].fields[f] = x]
  /\ UNCHANGED <<current, new, gcVars, root, hashState, made, collections, before>>

(* A slot of an object, or weak-pointer-object of a weak pointer. *)
Read(r, from) ==
  /\ phase = "off"
  /\ IsPtr(root[from])
  /\ \E f \in DOMAIN Deref(root[from]).fields :
       root' = [root EXCEPT ![r] = Deref(root[from]).fields[f]]
  /\ UNCHANGED <<spaceVars, gcVars, hashState, made, collections, before>>

Drop(r) ==
  /\ phase = "off"
  /\ root' = [root EXCEPT ![r] = Nil]
  /\ UNCHANGED <<spaceVars, gcVars, hashState, made, collections, before>>

(* pointer_hash_state makes the state of the space when it is first asked. *)
PointerHashState(r) ==
  /\ phase = "off"
  /\ IF IsPtr(hashState)
       THEN root' = [root EXCEPT ![r] = hashState]
            /\ UNCHANGED <<spaceVars, gcVars, hashState, made, collections, before>>
       ELSE Alloc(r, "state", <<>>) /\ hashState' = root'[r]

-----------------------------------------------------------------------------
(***************************************************************************)
(* What the program sees of the heap.                                      *)
(***************************************************************************)

Name(x) == IF IsPtr(x) THEN Deref(x).id ELSE Nil

(* Where the objects of a space lie. *)
Places(space) == UNION {{At(b, c) : c \in DOMAIN memory[b]} : b \in Range(space)}

Objects == {Deref(p) : p \in Places(current)}

View ==
  [root |-> [r \in Roots |-> Name(root[r])],
   objects |-> [i \in {o.id : o \in Objects} |->
                  LET o == CHOOSE c \in Objects : c.id = i
                  IN [kind |-> o.kind, ok |-> o.ok,
                      fields |-> [f \in DOMAIN o.fields |-> Name(o.fields[f])]]],
   state |-> Name(hashState)]

NoView == [none |-> TRUE]

(* The base of the first block: no object is scanned. *)
ScanStart == [block |-> 1, slot |-> 0, fields |-> 0]

-----------------------------------------------------------------------------
(***************************************************************************)
(* collect_garbage.                                                        *)
(***************************************************************************)

(* Mutant: the hash state of the old space is kept. *)
SetupKeepsState ==
  /\ phase = "off" /\ current # <<>> /\ collections < MaxCollections
  /\ collections' = collections + 1
  /\ before' = View
  /\ phase' = "roots" /\ todo' = Roots
  /\ weak' = <<>> /\ scan' = ScanStart
  /\ UNCHANGED <<spaceVars, root, hashState, made>>

(* The weak pointers and the hash state of the old space are forgotten. *)
Setup ==
  /\ phase = "off" /\ current # <<>> /\ collections < MaxCollections
  /\ collections' = collections + 1
  /\ before' = View
  /\ phase' = "roots" /\ todo' = Roots
  /\ weak' = <<>> /\ scan' = ScanStart
  /\ hashState' = Nil
  /\ IF IsPtr(hashState)
       THEN memory' = [memory EXCEPT ![hashState.block][hashState.slot].ok = FALSE]
       ELSE UNCHANGED memory
  /\ UNCHANGED <<current, new, root, made>>

(* scavenge and transport: what x becomes, and the heap with its copy. *)
Scavenge(x) ==
  IF ~ IsPtr(x) THEN {[value |-> x, memory |-> memory, space |-> new]}
  ELSE IF Forwarded(Deref(x))
    THEN {[value |-> Deref(x).to, memory |-> memory, space |-> new]}
    ELSE {[value |-> Placed(g),
           memory |-> [g.memory EXCEPT ![x.block][x.slot] = [to |-> Placed(g)]],
           space |-> g.space] : g \in RawAlloc(new, Deref(x))}

ScavengeRoot ==
  /\ phase = "roots"
  /\ \E r \in todo :
       /\ \E g \in Scavenge(root[r]) :
            /\ memory' = g.memory /\ new' = g.space
            /\ root' = [root EXCEPT ![r] = g.value]
       /\ todo' = todo \ {r}
       /\ phase' = IF todo' = {} THEN "scan" ELSE "roots"
  /\ UNCHANGED <<current, scan, weak, hashState, made, collections, before>>

(* Whether there is an object at scan_ptr, and where. *)
ObjectThere == new # <<>> /\ scan.slot < Len(memory[new[scan.block]])
NextCopy == At(new[scan.block], scan.slot + 1)

(* Mutant: the object of a weak pointer is scavenged like any other. *)
FollowedAlways(o) == DOMAIN o.fields

(* The fields that the scavenger of an object's class scavenges: none of a *)
(* weak pointer that is not broken and has an object to point at.          *)
Followed(o) ==
  IF o.kind = "weak" /\ o.ok /\ IsPtr(o.fields[1]) THEN {} ELSE DOMAIN o.fields

(* One more field of the object that scavenge_space has come to. *)
ScavengeField ==
  /\ phase = "scan" /\ ObjectThere
  /\ LET p == NextCopy  f == scan.fields + 1
     IN /\ f \in Followed(Deref(p))
        /\ \E g \in Scavenge(Deref(p).fields[f]) :
             /\ memory' = [g.memory EXCEPT ![p.block][p.slot].fields[f] = g.value]
             /\ new' = g.space
        /\ scan' = [scan EXCEPT !.fields = f]
  /\ UNCHANGED <<current, phase, todo, weak, root, hashState, made, collections, before>>

(* The object is done.  scav_weak_pointer has put a weak pointer on the    *)
(* list of those to look at again.                                         *)
ScavengedObject ==
  /\ phase = "scan" /\ ObjectThere
  /\ scan.fields + 1 \notin Followed(Deref(NextCopy))
  /\ scan' = [scan EXCEPT !.slot = @ + 1, !.fields = 0]
  /\ weak' = IF Deref(NextCopy).kind = "weak" /\ Followed(Deref(NextCopy)) = {}
               THEN <<NextCopy>> \o weak ELSE weak
  /\ UNCHANGED <<spaceVars, phase, todo, root, hashState, made, collections, before>>

(* At the fill pointer of a block: the next one, or the space is done.     *)
ScavengedBlock ==
  /\ phase = "scan" /\ ~ ObjectThere
  /\ IF scan.block < Len(new)
       THEN scan' = [block |-> scan.block + 1, slot |-> 0, fields |-> 0] /\ UNCHANGED phase
       ELSE phase' = "weak" /\ UNCHANGED scan
  /\ UNCHANGED <<spaceVars, todo, weak, root, hashState, made, collections, before>>

(* break_weak_pointers: object_collected is true of what was not moved. *)
BreakWeakPointer ==
  /\ phase = "weak" /\ weak # <<>>
  /\ LET w == Head(weak)
         target == Deref(Deref(w).fields[1])
     IN memory' =
          IF Forwarded(target)
            THEN [memory EXCEPT ![w.block][w.slot].fields[1] = target.to]
            ELSE [memory EXCEPT ![w.block][w.slot].fields[1] = Nil,
                                ![w.block][w.slot].ok = FALSE]
  /\ weak' = Tail(weak)
  /\ UNCHANGED <<current, new, phase, todo, scan, root, hashState, made, collections, before>>

(* The spaces change places, and the old blocks are free again.  (With     *)
(* GD_DEBUG they are overwritten: what lies in them is lost either way.)   *)
Flip ==
  /\ phase = "weak" /\ weak = <<>>
  /\ memory' = [b \in Blocks |-> IF b \in Range(current) THEN <<>> ELSE memory[b]]
  /\ current' = new /\ new' = <<>>
  /\ phase' = "off" /\ before' = NoView
  /\ scan' = ScanStart
  /\ UNCHANGED <<todo, weak, root, hashState, made, collections>>

-----------------------------------------------------------------------------
CollectorInit ==
  /\ memory = [b \in Blocks |-> <<>>]
  /\ current = <<>> /\ new = <<>>
  /\ root = [r \in Roots |-> Nil]
  /\ hashState = Nil
  /\ phase = "off" /\ todo = {} /\ weak = <<>>
  /\ scan = ScanStart
  /\ made = 0 /\ collections = 0 /\ before = NoView

CollectorNext ==
  \/ \E r \in Roots : \/ MakeObject(r) \/ Write(r) \/ Drop(r) \/ PointerHashState(r)
                      \/ \E from \in Roots : Read(r, from)
  \/ Setup \/ ScavengeRoot \/ ScavengeField \/ ScavengedObject \/ ScavengedBlock
  \/ BreakWeakPointer \/ Flip

CollectorSpec == CollectorInit /\ [][CollectorNext]_vars

-----------------------------------------------------------------------------
(***************************************************************************)
(* Properties.                                                             *)
(***************************************************************************)

Pointers == {x \in {root[r] : r \in Roots} \cup {hashState}
                     \cup UNION {Range(o.fields) : o \in Objects} : IsPtr(x)}

(* Between collections no pointer dangles: the roots, the fields and the   *)
(* hash state of the space, which no collection scavenges, name objects    *)
(* that lie in the space in use, and no object lies there twice.           *)
HeapIsWhole ==
  phase = "off" =>
    /\ \A o \in Objects : ~ Forwarded(o)
    /\ \A p \in Pointers : p \in Places(current)
    /\ IsInjective(current)
    /\ \A p, q \in Places(current) : Deref(p).id = Deref(q).id => p = q

(* To the program a collection happens at once, and does not change the    *)
(* objects that it reaches, what is shared among them, or their cycles.    *)
Seen == IF phase = "off" THEN View ELSE before
Promise == INSTANCE HeapPromise
             WITH root <- Seen.root, objects <- Seen.objects, state <- Seen.state
CollectsAtOnce == Promise!PromiseSpec
=============================================================================
