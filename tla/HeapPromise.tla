----------------------------- MODULE HeapPromise -----------------------------
(***************************************************************************)
(* What a program sees of its heap: objects that refer to each other, and  *)
(* collections that happen at once.  A collection keeps what the roots     *)
(* reach, breaks the weak pointers to the rest, and ends the hash state.   *)
(***************************************************************************)
EXTENDS Naturals, FiniteSets

CONSTANTS
  Roots,    \* the variables and stack slots of the program
  Ids,      \* the objects ever made
  Fields,   \* the number of slots of an object of the program
  Nil       \* an immediate value

VARIABLES
  root,     \* what each root holds
  objects,  \* the objects in the heap
  state,    \* the hash state of the space in use, Nil if it has none yet
  made      \* the number of objects made

heapVars == <<root, objects, state, made>>

(* An object refers to others; "ok" says that a weak pointer is not broken *)
(* and that a hash state is valid.                                         *)
Object(kind, fields) == [kind |-> kind, fields |-> fields, ok |-> TRUE]

Refs(o) == {o.fields[f] : f \in DOMAIN o.fields} \ {Nil}

(* What the objects in from keep alive. *)
Kept(from) ==
  LET refs(i) == IF objects[i].kind = "weak" /\ objects[i].ok THEN {} ELSE Refs(objects[i])
      kept[n \in 0..Cardinality(Ids)] ==
        IF n = 0 THEN from \ {Nil}
        ELSE kept[n - 1] \cup UNION {refs(i) : i \in kept[n - 1]}
  IN kept[Cardinality(Ids)]

Make(r, kind, fields) ==
  /\ made + 1 \in Ids
  /\ made' = made + 1
  /\ objects' = [i \in DOMAIN objects \cup {made'} |->
                   IF i = made' THEN Object(kind, fields) ELSE objects[i]]
  /\ root' = [root EXCEPT ![r] = made']

Held == {root[r] : r \in Roots} \cup {Nil}

Allocate(r) ==
  /\ \/ \E x \in Held : Make(r, "plain", [f \in 1..Fields |-> x])
     \/ \E x \in Held : Make(r, "weak", <<x>>)
  /\ UNCHANGED state

Write(r) ==
  /\ root[r] # Nil /\ objects[root[r]].kind = "plain"
  /\ \E f \in 1..Fields, x \in Held : objects' = [objects EXCEPT ![root[r]].fields[f] = x]
  /\ UNCHANGED <<root, state, made>>

Read(r, from) ==
  /\ root[from] # Nil
  /\ \E f \in DOMAIN objects[root[from]].fields :
       root' = [root EXCEPT ![r] = objects[root[from]].fields[f]]
  /\ UNCHANGED <<objects, state, made>>

Drop(r) ==
  /\ root' = [root EXCEPT ![r] = Nil]
  /\ UNCHANGED <<objects, state, made>>

PointerHash(r) ==
  IF state = Nil THEN Make(r, "state", <<>>) /\ state' = made'
  ELSE root' = [root EXCEPT ![r] = state] /\ UNCHANGED <<objects, state, made>>

Collect ==
  LET kept == Kept({root[r] : r \in Roots})
      broken(i) == objects[i].kind = "weak" /\ Refs(objects[i]) \ kept # {}
  IN /\ objects' = [i \in kept |->
                      IF broken(i) THEN [objects[i] EXCEPT !.fields = <<Nil>>, !.ok = FALSE]
                      ELSE [objects[i] EXCEPT !.ok = @ /\ i # state]]
     /\ state' = Nil
     /\ UNCHANGED <<root, made>>

PromiseInit ==
  /\ root = [r \in Roots |-> Nil]
  /\ objects = <<>>
  /\ state = Nil
  /\ made = 0

PromiseNext ==
  /\ heapVars' # heapVars
  /\ \/ \E r \in Roots : \/ Allocate(r) \/ Write(r) \/ Drop(r) \/ PointerHash(r)
                          \/ \E from \in Roots : Read(r, from)
     \/ Collect

PromiseSpec == PromiseInit /\ [][PromiseNext]_heapVars
=============================================================================
