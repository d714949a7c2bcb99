------------------------ MODULE MindyCollectorProofs ------------------------
(***************************************************************************)
(* Proofs about MindyCollector, which moves what is in the heap, for any   *)
(* roots, blocks and bounds.                                               *)
(***************************************************************************)
EXTENDS MindyCollector, QueueLemmas, FiniteSetTheorems


Ptrs == [block : Blocks, slot : Nat \ {0}]
Values == Ptrs \cup {Nil}
Kinds == {"plain", "weak", "state"}
Objs == [id : Nat, kind : Kinds, fields : Seq(Values), ok : BOOLEAN]
Forwards == [to : Ptrs]
Cells == Objs \cup Forwards
Memories == [Blocks -> Seq(Cells)]
Scans == [block : Nat \ {0}, slot : Nat, fields : Nat]

(* What lies at p, and whether p is a place of the space s. *)
Cell(m, p) == m[p.block][p.slot]
Lies(m, s, p) == p.block \in Range(s) /\ p.slot <= Len(m[p.block])
Known(m, s, x) == x = Nil \/ (x \in Ptrs /\ Lies(m, s, x))

(* An object of the old space that is not moved, or of the new space. *)
Alive(m, c, n, p) ==
  /\ Lies(m, c, p) \/ Lies(m, n, p)
  /\ ~ Forwarded(Cell(m, p))

WellMade(o, k) ==
  /\ o.id \in 1..k
  /\ o.kind = "weak" => Len(o.fields) = 1
  /\ o.kind = "plain" => Len(o.fields) = Fields

Apart(c, n) ==
  /\ c \in Seq(Blocks) /\ n \in Seq(Blocks)
  /\ IsInjective(c) /\ IsInjective(n) /\ Range(c) \cap Range(n) = {}

(* A forwarding pointer names a copy, and no object is there twice. *)
CopiesOK(m, c, n, k) ==
  /\ \A p \in Ptrs : Lies(m, c, p) /\ Forwarded(Cell(m, p)) => Lies(m, n, Cell(m, p).to)
  /\ \A p \in Ptrs : Lies(m, n, p) => ~ Forwarded(Cell(m, p))
  /\ \A p, q \in Ptrs :
       Alive(m, c, n, p) /\ Alive(m, c, n, q) /\ Cell(m, p).id = Cell(m, q).id => p = q
  /\ \A p \in Ptrs : Alive(m, c, n, p) => WellMade(Cell(m, p), k)

(* What is not moved names places of the old space. *)
FieldsStay(m, c) ==
  \A p \in Ptrs : Lies(m, c, p) /\ ~ Forwarded(Cell(m, p)) =>
    \A f \in DOMAIN Cell(m, p).fields : Known(m, c, Cell(m, p).fields[f])

(* scavenge_space has passed the object at p, or field f of it. *)
Scanned(n, sc, p) ==
  \E i \in DOMAIN n :
    n[i] = p.block /\ (i < sc.block \/ (i = sc.block /\ p.slot <= sc.slot))
Done(n, sc, p, f) ==
  \/ Scanned(n, sc, p)
  \/ n[sc.block] = p.block /\ p.slot = sc.slot + 1 /\ f <= sc.fields

(* A copy names places of the new space where it is scavenged, and of the  *)
(* old one where it is not, or is a weak pointer to be looked at again.    *)
FieldsMove(m, c, n, sc, w) ==
  \A p \in Ptrs : Lies(m, n, p) =>
    \A f \in DOMAIN Cell(m, p).fields :
      IF p \in Range(w) \/ ~ Done(n, sc, p, f)
        THEN Known(m, c, Cell(m, p).fields[f])
        ELSE Known(m, n, Cell(m, p).fields[f])

(* Where scan_ptr is. *)
NextIn(n, sc) == At(n[sc.block], sc.slot + 1)

ScanOK(m, n, sc) ==
  /\ sc \in Scans
  /\ IF n = <<>> THEN sc.block = 1 /\ sc.slot = 0
                 ELSE sc.block <= Len(n) /\ sc.slot <= Len(m[n[sc.block]])
  /\ sc.fields # 0 => n # <<>> /\ sc.slot < Len(m[n[sc.block]])
                        /\ sc.fields \in Followed(Cell(m, NextIn(n, sc)))

WeakOK(m, n, sc, w) ==
  /\ w \in Seq(Ptrs) /\ IsInjective(w)
  /\ \A p \in Range(w) :
       Lies(m, n, p) /\ Scanned(n, sc, p) /\ Cell(m, p).kind = "weak"
       /\ Cell(m, p).fields[1] # Nil

SpacesOK(m, c, n, k, sc, w) ==
  /\ m \in Memories /\ Apart(c, n) /\ k \in Nat
  /\ CopiesOK(m, c, n, k) /\ FieldsStay(m, c) /\ FieldsMove(m, c, n, sc, w)
  /\ ScanOK(m, n, sc) /\ WeakOK(m, n, sc, w)

(***************************************************************************)
(* The inductive invariant.  A root that is still to do, and every root    *)
(* between collections, names a place of the old space, any other root one *)
(* of the new space; between collections there is only one space, where    *)
(* nothing is forwarded.                                                   *)
(***************************************************************************)
RootsOK ==
  /\ root \in [Roots -> Values] /\ todo \subseteq Roots
  /\ \A r \in Roots : IF phase = "off" \/ r \in todo THEN Known(memory, current, root[r])
                                                     ELSE Known(memory, new, root[r])

PhaseOK ==
  /\ phase \in {"off", "roots", "scan", "weak"}
  /\ phase # "roots" => todo = {}
  /\ phase # "off" => hashState = Nil
  /\ Known(memory, current, hashState)
  /\ phase = "off" => /\ new = <<>>
                      /\ \A p \in Ptrs : Lies(memory, current, p) => ~ Forwarded(Cell(memory, p))
  /\ phase \in {"off", "roots"} => scan = ScanStart /\ weak = <<>>
  /\ phase = "weak" => \A p \in Ptrs : Lies(memory, new, p) => Scanned(new, scan, p)

CollectorInv ==
  SpacesOK(memory, current, new, made, scan, weak) /\ RootsOK /\ PhaseOK

-----------------------------------------------------------------------------
LEMMA PtrParts ==
  ASSUME NEW p \in Ptrs
  PROVE  /\ p.block \in Blocks /\ p.slot \in Nat \ {0}
         /\ p = At(p.block, p.slot) /\ p # Nil /\ IsPtr(p)
         /\ \A q \in Ptrs : q.block = p.block /\ q.slot = p.slot => q = p
  <1>1. p.block \in Blocks /\ p.slot \in Nat \ {0}
    BY DEF Ptrs
  <1>2. p = At(p.block, p.slot)
    BY DEF Ptrs, At
  <1>3. p \in [block : Nat, slot : Nat]
    BY DEF Ptrs, Blocks
  <1>4. p # Nil
    BY <1>3, CollectorAssumption
  <1>5. \A q \in Ptrs : q.block = p.block /\ q.slot = p.slot => q = p
    BY DEF Ptrs
  <1> QED BY <1>1, <1>2, <1>4, <1>5 DEF IsPtr

LEMMA PtrMade ==
  ASSUME NEW b \in Blocks, NEW k \in Nat \ {0}
  PROVE  At(b, k) \in Ptrs /\ At(b, k).block = b /\ At(b, k).slot = k
  BY DEF Ptrs, At

(* An object is not taken for a forwarding pointer, nor the other way round. *)
LEMMA CellKinds ==
  /\ \A o \in Objs : ~ Forwarded(o)
  /\ \A o \in Forwards : Forwarded(o) /\ o.to \in Ptrs
  /\ \A o \in Cells : IF Forwarded(o) THEN o.to \in Ptrs ELSE o \in Objs
  <1>1. ASSUME NEW o \in Objs PROVE ~ Forwarded(o)
    <2>1. DOMAIN o = {"id", "kind", "fields", "ok"}
      BY DEF Objs
    <2> QED BY <2>1 DEF Forwarded
  <1>2. ASSUME NEW o \in Forwards PROVE Forwarded(o) /\ o.to \in Ptrs
    <2>1. DOMAIN o = {"to"}
      BY DEF Forwards
    <2>2. o.to \in Ptrs
      BY DEF Forwards
    <2> QED BY <2>1, <2>2 DEF Forwarded
  <1> QED BY <1>1, <1>2 DEF Cells

LEMMA ForwardMade ==
  ASSUME NEW p \in Ptrs
  PROVE  [to |-> p] \in Cells /\ Forwarded([to |-> p]) /\ [to |-> p].to = p
  BY DEF Cells, Forwards, Forwarded

LEMMA ObjParts ==
  ASSUME NEW o \in Objs
  PROVE  /\ o \in Cells /\ ~ Forwarded(o)
         /\ o.id \in Nat /\ o.kind \in Kinds /\ o.fields \in Seq(Values) /\ o.ok \in BOOLEAN
         /\ DOMAIN o.fields = 1..Len(o.fields) /\ Len(o.fields) \in Nat
         /\ \A f \in DOMAIN o.fields : o.fields[f] \in Values
  <1>1. o.id \in Nat /\ o.kind \in Kinds /\ o.fields \in Seq(Values) /\ o.ok \in BOOLEAN
    BY DEF Objs
  <1>2. o \in Cells /\ ~ Forwarded(o)
    BY CellKinds DEF Cells
  <1> DEFINE s == o.fields
  <1>3. s \in Seq(Values)
    BY <1>1
  <1> HIDE DEF s
  <1>4. DOMAIN s = 1..Len(s) /\ Len(s) \in Nat /\ \A f \in DOMAIN s : s[f] \in Values
    BY <1>3
  <1> QED BY <1>1, <1>2, <1>4 DEF s

LEMMA ObjMade ==
  ASSUME NEW i \in Nat, NEW k \in Kinds, NEW s \in Seq(Values)
  PROVE  /\ Object(i, k, s) \in Objs
         /\ Object(i, k, s).id = i /\ Object(i, k, s).kind = k /\ Object(i, k, s).fields = s
  BY DEF Object, Objs

(* Blocks and their slots. *)
LEMMA BlockParts ==
  ASSUME NEW m \in Memories, NEW b \in Blocks
  PROVE  /\ m[b] \in Seq(Cells) /\ Len(m[b]) \in Nat /\ DOMAIN m[b] = 1..Len(m[b])
         /\ \A k \in 1..Len(m[b]) : m[b][k] \in Cells
  <1>1. m[b] \in Seq(Cells)
    BY DEF Memories
  <1> DEFINE s == m[b]
  <1> HIDE DEF s
  <1>2. s \in Seq(Cells) BY <1>1 DEF s
  <1>3. Len(s) \in Nat /\ DOMAIN s = 1..Len(s) /\ \A k \in 1..Len(s) : s[k] \in Cells
    BY <1>2
  <1> QED BY <1>1, <1>3 DEF s

LEMMA CellParts ==
  ASSUME NEW m \in Memories, NEW p \in Ptrs, p.slot <= Len(m[p.block])
  PROVE  /\ Cell(m, p) \in Cells
         /\ Forwarded(Cell(m, p)) => Cell(m, p).to \in Ptrs
         /\ ~ Forwarded(Cell(m, p)) => Cell(m, p) \in Objs
  <1>1. p.slot \in 1..Len(m[p.block])
    BY PtrParts, BlockParts
  <1>2. Cell(m, p) \in Cells
    BY <1>1, PtrParts, BlockParts DEF Cell
  <1> QED BY <1>2, CellKinds

LEMMA SpaceParts ==
  ASSUME NEW s \in Seq(Blocks)
  PROVE  /\ Len(s) \in Nat /\ DOMAIN s = 1..Len(s)
         /\ \A i \in 1..Len(s) : s[i] \in Blocks /\ s[i] \in Range(s)
         /\ \A b \in Range(s) : b \in Blocks /\ \E i \in 1..Len(s) : s[i] = b
         /\ s # <<>> => Len(s) \in 1..Len(s) /\ Last(s) = s[Len(s)]
         /\ s = <<>> <=> Len(s) = 0
  BY DEF Range, Last

LEMMA PlacesAre ==
  ASSUME memory \in Memories, NEW s \in Seq(Blocks)
  PROVE  \A p : p \in Places(s) <=> p \in Ptrs /\ Lies(memory, s, p)
  <1> DEFINE C(b) == {At(b, c) : c \in DOMAIN memory[b]}
  <1>1. \A p : p \in Places(s) <=> \E b \in Range(s) : p \in C(b)
    BY DEF Places
  <1>2. ASSUME NEW p, NEW b \in Range(s), p \in C(b)
        PROVE  p \in Ptrs /\ Lies(memory, s, p)
    <2>1. b \in Blocks
      BY SpaceParts
    <2>2. PICK c \in DOMAIN memory[b] : p = At(b, c)
      BY <1>2
    <2>3. c \in Nat \ {0} /\ c <= Len(memory[b])
      BY <2>1, BlockParts
    <2> QED BY <2>1, <2>2, <2>3, PtrMade DEF Lies
  <1>3. ASSUME NEW p \in Ptrs, Lies(memory, s, p)
        PROVE  p.block \in Range(s) /\ p \in C(p.block)
    <2>1. p.slot \in 1..Len(memory[p.block])
      BY <1>3, PtrParts, BlockParts DEF Lies
    <2> QED BY <1>3, <2>1, PtrParts, BlockParts DEF Lies
  <1> HIDE DEF C
  <1> QED BY <1>1, <1>2, <1>3

-----------------------------------------------------------------------------
(* One cell is replaced. *)
Put(m, a, v) == [m EXCEPT ![a.block] = [@ EXCEPT ![a.slot] = v]]

LEMMA PutCell ==
  ASSUME NEW m \in Memories, NEW a \in Ptrs, a.slot <= Len(m[a.block]), NEW v \in Cells
  PROVE  /\ Put(m, a, v) \in Memories
         /\ \A b \in Blocks : Len(Put(m, a, v)[b]) = Len(m[b])
         /\ Cell(Put(m, a, v), a) = v
         /\ \A p \in Ptrs : p # a => Cell(Put(m, a, v), p) = Cell(m, p)
         /\ \A s \in Seq(Blocks), p \in Ptrs : Lies(Put(m, a, v), s, p) <=> Lies(m, s, p)
         /\ \A s \in Seq(Blocks) : \A x : Known(Put(m, a, v), s, x) <=> Known(m, s, x)
  <1> DEFINE b == a.block
             q == [m[b] EXCEPT ![a.slot] = v]
             new_m == Put(m, a, v)
  <1>1. b \in Blocks /\ a.slot \in 1..Len(m[b])
    BY PtrParts, BlockParts
  <1>2. m[b] \in Seq(Cells)
    BY <1>1, BlockParts
  <1>3. q \in Seq(Cells) /\ Len(q) = Len(m[b]) /\ q[a.slot] = v
        /\ \A k \in Nat \ {0} : k # a.slot => q[k] = m[b][k]
    <2> DEFINE s == m[b]  k == a.slot
    <2>1. s \in Seq(Cells) /\ k \in 1..Len(s)
      BY <1>1, <1>2
    <2> HIDE DEF s, k
    <2>2. [s EXCEPT ![k] = v] \in Seq(Cells) /\ Len([s EXCEPT ![k] = v]) = Len(s)
          /\ [s EXCEPT ![k] = v][k] = v
          /\ \A j \in Nat \ {0} : j # k => [s EXCEPT ![k] = v][j] = s[j]
      BY <2>1
    <2> QED BY <2>2 DEF s, k
  <1>4. new_m[b] = q /\ \A d \in Blocks : d # b => new_m[d] = m[d]
    BY <1>1 DEF Put, Memories
  <1>5. new_m \in Memories
    <2>1. q \in Seq(Cells)
      BY <1>3
    <2> HIDE DEF q
    <2>2. new_m = [m EXCEPT ![b] = q]
      BY DEF Put, q
    <2> QED BY <1>1, <2>1, <2>2 DEF Memories
  <1>6. \A d \in Blocks : Len(new_m[d]) = Len(m[d])
    BY <1>3, <1>4
  <1>7. Cell(new_m, a) = v
    BY <1>3, <1>4 DEF Cell
  <1>8. ASSUME NEW p \in Ptrs, p # a PROVE Cell(new_m, p) = Cell(m, p)
    <2>1. p.block \in Blocks /\ p.slot \in Nat \ {0}
      BY PtrParts
    <2>2. CASE p.block # b
      BY <1>4, <2>1, <2>2 DEF Cell
    <2>3. CASE p.block = b
      <3>1. p.slot # a.slot
        BY <1>8, <2>3, PtrParts
      <3> QED BY <1>3, <1>4, <2>1, <2>3, <3>1 DEF Cell
    <2> QED BY <2>2, <2>3
  <1> HIDE DEF b, q, new_m
  <1>9. \A s \in Seq(Blocks), p \in Ptrs : Lies(new_m, s, p) <=> Lies(m, s, p)
    BY <1>6, PtrParts DEF Lies
  <1>10. \A s \in Seq(Blocks) : \A x : Known(new_m, s, x) <=> Known(m, s, x)
    BY <1>9 DEF Known
  <1> QED BY <1>5, <1>6, <1>7, <1>8, <1>9, <1>10 DEF new_m

(* A field of the object at a is written. *)
WithField(m, a, f, x) == [m EXCEPT ![a.block][a.slot].fields[f] = x]

LEMMA PutField ==
  ASSUME NEW m \in Memories, NEW a \in Ptrs, a.slot <= Len(m[a.block]),
         ~ Forwarded(Cell(m, a)),
         NEW f \in DOMAIN Cell(m, a).fields, NEW x \in Values
  PROVE  \E o \in Objs :
           /\ WithField(m, a, f, x) = Put(m, a, o)
           /\ o.id = Cell(m, a).id /\ o.kind = Cell(m, a).kind /\ o.ok = Cell(m, a).ok
           /\ DOMAIN o.fields = DOMAIN Cell(m, a).fields
           /\ Len(o.fields) = Len(Cell(m, a).fields)
           /\ o.fields[f] = x
           /\ \A g \in DOMAIN Cell(m, a).fields : g # f => o.fields[g] = Cell(m, a).fields[g]
  <1> DEFINE o == [Cell(m, a) EXCEPT !.fields = [@ EXCEPT ![f] = x]]
             c == Cell(m, a)
             s == c.fields
             t == [s EXCEPT ![f] = x]
  <1>1. WithField(m, a, f, x) = Put(m, a, o)
    BY DEF WithField, Put, Cell
  <1>2. c \in Objs
    BY CellParts
  <1>3. s \in Seq(Values) /\ f \in DOMAIN s
    BY <1>2, ObjParts
  <1>4. o = [c EXCEPT !.fields = t]
    OBVIOUS
  <1> HIDE DEF s, c, o
  <1>5. t \in Seq(Values) /\ DOMAIN t = DOMAIN s /\ Len(t) = Len(s) /\ t[f] = x
        /\ \A g \in DOMAIN s : g # f => t[g] = s[g]
    BY <1>3
  <1> HIDE DEF t
  <1>6. o \in Objs /\ o.id = c.id /\ o.kind = c.kind /\ o.ok = c.ok /\ o.fields = t
    BY <1>2, <1>4, <1>5 DEF Objs
  <1> QED BY <1>1, <1>5, <1>6 DEF s, c


-----------------------------------------------------------------------------
(* raw_alloc: the space has one more place, where the object lies, and the *)
(* rest of the memory is as it was.                                        *)
LEMMA RawAllocPlaces ==
  ASSUME memory \in Memories, Apart(current, new),
         NEW s, NEW other,
         (s = current /\ other = new) \/ (s = new /\ other = current),
         NEW o \in Cells, NEW g \in RawAlloc(s, o)
  PROVE  /\ g.memory \in Memories /\ g.space \in Seq(Blocks) /\ g.space # <<>>
         /\ IsInjective(g.space) /\ Range(g.space) \cap Range(other) = {}
         /\ Len(s) <= Len(g.space) /\ \A i \in 1..Len(s) : g.space[i] = s[i]
         /\ Placed(g) \in Ptrs /\ Cell(g.memory, Placed(g)) = o
         /\ Placed(g).block = g.space[Len(g.space)]
         /\ ~ Lies(memory, s, Placed(g)) /\ ~ Lies(memory, other, Placed(g))
         /\ \A p \in Ptrs : Lies(g.memory, g.space, p) <=> Lies(memory, s, p) \/ p = Placed(g)
         /\ \A p \in Ptrs : Lies(g.memory, other, p) <=> Lies(memory, other, p)
         /\ \A p \in Ptrs : Lies(memory, s, p) \/ Lies(memory, other, p)
                              => Cell(g.memory, p) = Cell(memory, p)
         /\ \A i \in 1..Len(s) : Len(memory[s[i]]) <= Len(g.memory[s[i]])
         /\ Len(g.space) = Len(s) => Placed(g).slot > Len(memory[Placed(g).block])
  <1> USE DEF Apart
  <1>0. s \in Seq(Blocks) /\ other \in Seq(Blocks) /\ IsInjective(s)
        /\ Range(s) \cap Range(other) = {}
        /\ Range(s) \cup Range(other) = Range(current) \cup Range(new)
    OBVIOUS
  <1> DEFINE m2 == g.memory  s2 == g.space  b == Last(s2)
             new_q == m2[b]
  <1>1. CASE Room(s)
    <2>1. m2 = [memory EXCEPT ![Last(s)] = Append(@, o)] /\ s2 = s
      BY <1>1 DEF RawAlloc
    <2>2. s # <<>> /\ Last(s) \in Blocks /\ Last(s) \in Range(s) /\ Last(s) = s[Len(s)]
      BY <1>0, <1>1, SpaceParts DEF Room
    <2>3. memory[b] \in Seq(Cells) /\ Len(memory[b]) \in Nat
      BY <2>1, <2>2, BlockParts
    <2>4. Append(memory[b], o) \in Seq(Cells) /\ Len(Append(memory[b], o)) = Len(memory[b]) + 1
          /\ Append(memory[b], o)[Len(memory[b]) + 1] = o
          /\ \A k \in 1..Len(memory[b]) : Append(memory[b], o)[k] = memory[b][k]
      <3> DEFINE h == memory[b]
      <3>1. h \in Seq(Cells) /\ Len(h) \in Nat
        BY <2>3
      <3> HIDE DEF h
      <3>2. Append(h, o) \in Seq(Cells) /\ Len(Append(h, o)) = Len(h) + 1
            /\ Append(h, o)[Len(h) + 1] = o
            /\ \A k \in 1..Len(h) : Append(h, o)[k] = h[k]
        BY <3>1, AppendProperties
      <3> QED BY <3>2 DEF h
    <2>5. m2[b] = Append(memory[b], o) /\ \A d \in Blocks : d # b => m2[d] = memory[d]
      BY <2>1, <2>2 DEF Memories
    <2>6. m2 \in Memories
      BY <2>1, <2>2, <2>4 DEF Memories
    <2> DEFINE n == Len(memory[b]) + 1
    <2>7. Placed(g) = At(b, n) /\ n \in Nat \ {0} /\ b \in Blocks
      BY <2>1, <2>2, <2>3, <2>4, <2>5 DEF Placed
    <2>8. Placed(g) \in Ptrs /\ Placed(g).block = b /\ Placed(g).slot = n
      BY <2>7, PtrMade
    <2>9. Cell(m2, Placed(g)) = o
      BY <2>4, <2>5, <2>8 DEF Cell
    <2>10. ~ Lies(memory, s, Placed(g)) /\ ~ Lies(memory, other, Placed(g))
      BY <2>3, <2>8 DEF Lies
    <2>11. Len(m2[b]) = n
      BY <2>4, <2>5
    <2> DEFINE pl == Placed(g)
    <2> HIDE DEF n, m2, s2, b, pl
    <2>12. ASSUME NEW p \in Ptrs
           PROVE  /\ Lies(m2, s2, p) <=> Lies(memory, s, p) \/ p = pl
                  /\ Lies(m2, other, p) <=> Lies(memory, other, p)
                  /\ Lies(memory, s, p) \/ Lies(memory, other, p) => Cell(m2, p) = Cell(memory, p)
      <3>0. p.block \in Blocks /\ p.slot \in Nat \ {0}
        BY PtrParts
      <3>1. CASE p.block # b
        <4>1. m2[p.block] = memory[p.block] /\ p # pl
          BY <2>5, <2>8, <3>0, <3>1 DEF pl
        <4> QED BY <2>1, <4>1 DEF Lies, Cell, s2
      <3>2. CASE p.block = b
        <4>1. p.block \in Range(s) /\ p.block \notin Range(other)
          BY <1>0, <2>1, <2>2, <3>2 DEF b, s2
        <4>2. p.slot <= n <=> p.slot <= Len(memory[b]) \/ p.slot = n
          BY <2>3, <3>0 DEF n
        <4>3. p.slot = n <=> p = pl
          BY <2>8, <3>2, PtrParts DEF pl
        <4>4. Lies(m2, s2, p) <=> Lies(memory, s, p) \/ p = pl
          BY <2>1, <2>11, <3>2, <4>1, <4>2, <4>3 DEF Lies, s2
        <4>5. ASSUME Lies(memory, s, p) PROVE Cell(m2, p) = Cell(memory, p)
          <5>1. p.slot \in 1..Len(memory[b])
            BY <2>3, <3>0, <3>2, <4>5 DEF Lies
          <5> QED BY <2>4, <2>5, <3>2, <5>1 DEF Cell
        <4> QED BY <4>1, <4>4, <4>5 DEF Lies
      <3> QED BY <3>1, <3>2
    <2>13. ASSUME NEW i \in 1..Len(s) PROVE Len(memory[s[i]]) <= Len(m2[s[i]])
      <3>1. s[i] \in Blocks /\ Len(memory[s[i]]) \in Nat
        BY <1>0, SpaceParts, BlockParts
      <3> QED BY <2>3, <2>5, <2>11, <3>1 DEF n
    <2>14. pl.slot > Len(memory[pl.block])
      BY <2>3, <2>8 DEF pl, n
    <2>15. s2 = s /\ s # <<>> /\ b = s2[Len(s2)] /\ Len(s) \in Nat
      BY <1>0, <2>1, <2>2, SpaceParts DEF b, s2
    <2>16. pl.block = b /\ pl \in Ptrs /\ Cell(m2, pl) = o /\ m2 \in Memories
           /\ ~ Lies(memory, s, pl) /\ ~ Lies(memory, other, pl)
      BY <2>6, <2>8, <2>9, <2>10 DEF pl, m2
    <2> QED BY <1>0, <2>12, <2>13, <2>14, <2>15, <2>16 DEF pl, m2, s2
  <1>2. CASE ~ Room(s)
    <2>1. PICK d \in FirstFree : m2 = [memory EXCEPT ![d] = <<o>>] /\ s2 = Append(s, d)
      <3>1. g \in {[memory |-> [memory EXCEPT ![e] = <<o>>], space |-> Append(s, e)] :
                     e \in FirstFree}
        BY <1>2 DEF RawAlloc
      <3>2. PICK d \in FirstFree :
              g = [memory |-> [memory EXCEPT ![d] = <<o>>], space |-> Append(s, d)]
        BY <3>1
      <3>3. g.memory = [memory EXCEPT ![d] = <<o>>] /\ g.space = Append(s, d)
        BY <3>2
      <3> QED BY <3>3
    <2>2. d \in Blocks /\ d \notin Range(s) /\ d \notin Range(other)
      BY <1>0 DEF FirstFree, Free
    <2>3. s2 \in Seq(Blocks) /\ Len(s2) = Len(s) + 1 /\ s2[Len(s) + 1] = d
          /\ Len(s) \in Nat /\ \A i \in 1..Len(s) : s2[i] = s[i]
      <3> HIDE DEF s2
      <3> QED BY <1>0, <2>1, <2>2, AppendProperties
    <2>4. b = d /\ b = s2[Len(s2)] /\ s2 # <<>>
      BY <2>3 DEF Last
    <2>5. m2[d] = <<o>> /\ Len(<<o>>) = 1 /\ \A e \in Blocks : e # d => m2[e] = memory[e]
      BY <2>1, <2>2 DEF Memories
    <2>6. m2 \in Memories
      <3>1. <<o>> \in Seq(Cells)
        OBVIOUS
      <3> QED BY <2>1, <2>2, <3>1 DEF Memories
    <2>7. Placed(g) = At(d, 1)
      BY <2>4, <2>5 DEF Placed
    <2>8. Placed(g) \in Ptrs /\ Placed(g).block = d /\ Placed(g).slot = 1
      BY <2>2, <2>7, PtrMade
    <2> DEFINE pl == Placed(g)
    <2>9. pl \in Ptrs /\ pl.block = d /\ pl.slot = 1
      BY <2>8
    <2> HIDE DEF m2, s2, b, pl
    <2>10. Cell(m2, pl) = o
      BY <2>5, <2>9 DEF Cell
    <2>11. ~ Lies(memory, s, pl) /\ ~ Lies(memory, other, pl)
      BY <2>2, <2>9 DEF Lies
    <2>12. \A e : e \in Range(s2) <=> e \in Range(s) \/ e = d
      <3>1. DOMAIN s2 = 1..(Len(s) + 1) /\ DOMAIN s = 1..Len(s)
        BY <1>0, <2>3, SpaceParts
      <3>2. ASSUME NEW e \in Range(s2) PROVE e \in Range(s) \/ e = d
        <4>1. PICK i \in 1..(Len(s) + 1) : s2[i] = e
          BY <3>1 DEF Range
        <4>2. i \in 1..Len(s) \/ i = Len(s) + 1
          BY <2>3
        <4> QED BY <2>3, <3>1, <4>1, <4>2 DEF Range
      <3>3. ASSUME NEW e \in Range(s) PROVE e \in Range(s2)
        <4>1. PICK i \in 1..Len(s) : s[i] = e
          BY <3>1 DEF Range
        <4>2. i \in 1..(Len(s) + 1)
          BY <2>3
        <4> QED BY <2>3, <3>1, <4>1, <4>2 DEF Range
      <3>4. d \in Range(s2)
        <4>1. Len(s) + 1 \in 1..(Len(s) + 1)
          BY <2>3
        <4> QED BY <2>3, <3>1, <4>1 DEF Range
      <3> QED BY <3>2, <3>3, <3>4
    <2>13. IsInjective(s2)
      <3>1. DOMAIN s2 = 1..(Len(s) + 1) /\ DOMAIN s = 1..Len(s)
        BY <1>0, <2>3, SpaceParts
      <3>2. \A i \in 1..Len(s) : s2[i] # d
        BY <1>0, <2>2, <2>3, SpaceParts
      <3>3. \A i \in 1..(Len(s) + 1) : i \in 1..Len(s) \/ i = Len(s) + 1
        BY <2>3
      <3> QED BY <1>0, <2>3, <3>1, <3>2, <3>3 DEF IsInjective
    <2>14. ASSUME NEW p \in Ptrs
           PROVE  /\ Lies(m2, s2, p) <=> Lies(memory, s, p) \/ p = pl
                  /\ Lies(m2, other, p) <=> Lies(memory, other, p)
                  /\ Lies(memory, s, p) \/ Lies(memory, other, p) => Cell(m2, p) = Cell(memory, p)
      <3>0. p.block \in Blocks /\ p.slot \in Nat \ {0}
        BY PtrParts
      <3>1. CASE p.block # d
        <4>1. m2[p.block] = memory[p.block] /\ p # pl
          BY <2>5, <2>9, <3>0, <3>1
        <4> QED BY <2>12, <3>1, <4>1 DEF Lies, Cell
      <3>2. CASE p.block = d
        <4>1. ~ Lies(memory, s, p) /\ ~ Lies(memory, other, p) /\ ~ Lies(m2, other, p)
          BY <2>2, <3>2 DEF Lies
        <4>2. Len(m2[p.block]) = 1
          BY <2>5, <3>2
        <4>3. Lies(m2, s2, p) <=> p.slot = 1
          BY <2>12, <3>0, <3>2, <4>2 DEF Lies
        <4>4. p.slot = 1 <=> p = pl
          BY <2>9, <3>2, PtrParts
        <4> QED BY <4>1, <4>3, <4>4
      <3> QED BY <3>1, <3>2
    <2>15. ASSUME NEW i \in 1..Len(s) PROVE Len(memory[s[i]]) <= Len(m2[s[i]])
      <3>1. s[i] \in Blocks /\ Len(memory[s[i]]) \in Nat /\ s[i] # d
        BY <1>0, <2>2, SpaceParts, BlockParts
      <3> QED BY <2>5, <3>1
    <2>16. Range(s2) \cap Range(other) = {}
      BY <1>0, <2>2, <2>12
    <2>17. m2 \in Memories /\ s2 \in Seq(Blocks) /\ s2 # <<>> /\ Len(s) <= Len(s2)
           /\ Len(s2) # Len(s) /\ pl.block = s2[Len(s2)]
      <3>1. Len(s) <= Len(s2) /\ Len(s2) # Len(s)
        BY <2>3
      <3> QED BY <2>3, <2>4, <2>6, <2>9, <3>1
    <2> QED BY <2>3, <2>9, <2>10, <2>11, <2>13, <2>14, <2>15, <2>16, <2>17
            DEF pl, m2, s2
  <1> QED BY <1>1, <1>2

(* What was scanned stays so when the space grows. *)
LEMMA ScannedGrows ==
  ASSUME NEW n \in Seq(Blocks), NEW n2 \in Seq(Blocks), IsInjective(n), IsInjective(n2),
         Len(n) <= Len(n2), \A i \in 1..Len(n) : n2[i] = n[i],
         NEW sc \in Scans, sc.block <= Len(n),
         NEW p \in Ptrs, p.block \in Range(n)
  PROVE  /\ Scanned(n2, sc, p) <=> Scanned(n, sc, p)
         /\ \A f : Done(n2, sc, p, f) <=> Done(n, sc, p, f)
         /\ n2[sc.block] = n[sc.block]
  <1>1. /\ Len(n) \in Nat /\ Len(n2) \in Nat /\ DOMAIN n = 1..Len(n) /\ DOMAIN n2 = 1..Len(n2)
    BY SpaceParts
  <1>2. PICK j \in 1..Len(n) : n[j] = p.block
    BY SpaceParts
  <1>3. j \in DOMAIN n /\ j \in DOMAIN n2 /\ n2[j] = p.block
    BY <1>1, <1>2
  <1>4. \A i \in DOMAIN n : n[i] = p.block => i = j
    BY <1>1, <1>2 DEF IsInjective
  <1>5. \A i \in DOMAIN n2 : n2[i] = p.block => i = j
    BY <1>1, <1>3 DEF IsInjective
  <1>6. Scanned(n2, sc, p) <=> Scanned(n, sc, p)
    BY <1>2, <1>3, <1>4, <1>5 DEF Scanned
  <1>7. sc.block \in 1..Len(n)
    BY <1>1 DEF Scans
  <1>8. n2[sc.block] = n[sc.block]
    BY <1>7
  <1> QED BY <1>6, <1>8 DEF Done

(* A new place is not scanned. *)
LEMMA NotYetScanned ==
  ASSUME NEW m \in Memories, NEW n \in Seq(Blocks), NEW n2 \in Seq(Blocks), IsInjective(n2),
         n2 # <<>>, Len(n) <= Len(n2), \A i \in 1..Len(n) : n2[i] = n[i],
         NEW sc, ScanOK(m, n, sc),
         NEW v \in Ptrs, v.block = n2[Len(n2)], ~ Lies(m, n, v),
         Len(n2) = Len(n) => v.slot > Len(m[v.block])
  PROVE  ~ Scanned(n2, sc, v) /\ \A f \in Nat \ {0} : ~ Done(n2, sc, v, f)
  <1> DEFINE k1 == Len(n)  k2 == Len(n2)  sb == sc.block  ss == sc.slot  sf == sc.fields
             vs == v.slot  vb == v.block
  <1>1. /\ k1 \in Nat /\ k2 \in Nat \ {0} /\ DOMAIN n = 1..k1 /\ DOMAIN n2 = 1..k2
        /\ (n = <<>> <=> k1 = 0)
    BY SpaceParts
  <1>2. sb \in Nat \ {0} /\ ss \in Nat /\ sf \in Nat
    BY DEF ScanOK, Scans
  <1>3. vb \in Blocks /\ vs \in Nat \ {0} /\ Len(m[vb]) \in Nat
    BY PtrParts, BlockParts
  <1>4. /\ n = <<>> => sb = 1 /\ ss = 0
        /\ n # <<>> => sb <= k1 /\ ss <= Len(m[n[sb]])
        /\ sf # 0 => n # <<>> /\ ss < Len(m[n[sb]])
    BY DEF ScanOK
  <1>5. k1 <= k2 /\ (\A i \in 1..k1 : n2[i] = n[i]) /\ vb = n2[k2]
        /\ (k2 = k1 => vs > Len(m[vb]))
    OBVIOUS
  <1> HIDE DEF k1, k2, sb, ss, sf, vs, vb
  <1>6. sb <= k2
    BY <1>1, <1>2, <1>4, <1>5
  <1>7. ASSUME sb = k2 PROVE vs > ss
    <2>1. CASE n = <<>>
      BY <1>3, <1>4, <2>1
    <2>2. CASE n # <<>>
      <3>1. k2 = k1
        BY <1>1, <1>2, <1>4, <1>5, <1>7, <2>2
      <3>2. k2 \in 1..k1
        BY <1>1, <3>1
      <3>3. n[sb] = vb
        BY <1>5, <1>7, <3>2
      <3> QED BY <1>2, <1>3, <1>4, <1>5, <2>2, <3>1, <3>3
    <2> QED BY <2>1, <2>2
  <1>8. ~ Scanned(n2, sc, v)
    <2> SUFFICES ASSUME NEW i \in DOMAIN n2, n2[i] = vb, i < sb \/ (i = sb /\ vs <= ss)
                 PROVE  FALSE
      BY DEF Scanned, sb, ss, vs, vb
    <2>1. k2 \in DOMAIN n2 /\ i \in Nat
      BY <1>1
    <2>2. i = k2
      BY <1>5, <2>1 DEF IsInjective
    <2>3. sb = k2 /\ vs <= ss
      BY <1>1, <1>2, <1>6, <2>1, <2>2
    <2> QED BY <1>2, <1>3, <1>7, <2>3
  <1>9. ASSUME NEW f \in Nat \ {0}, n2[sb] = vb, vs = ss + 1, f <= sf
        PROVE  FALSE
    <2>1. sf # 0
      BY <1>2, <1>9
    <2>2. n # <<>> /\ ss < Len(m[n[sb]]) /\ sb <= k1
      BY <1>4, <2>1
    <2>3. sb \in 1..k1
      BY <1>1, <1>2, <2>2
    <2>4. n2[sb] = n[sb] /\ sb \in DOMAIN n
      BY <1>1, <1>5, <2>3
    <2>5. vb \in Range(n)
      BY <1>9, <2>4 DEF Range
    <2>6. ss < Len(m[vb])
      BY <1>9, <2>2, <2>4
    <2>7. vs <= Len(m[vb])
      BY <1>2, <1>3, <1>9, <2>6
    <2> QED BY <2>5, <2>7 DEF Lies, vb, vs
  <1> QED BY <1>8, <1>9 DEF Done, sb, ss, sf, vs, vb

-----------------------------------------------------------------------------
(* transport: the object is moved to a new place, which is not scanned, and *)
(* the old one forwards to it.                                              *)
LEMMA Transported ==
  ASSUME memory \in Memories, Apart(current, new), ScanOK(memory, new, scan),
         NEW x \in Ptrs, Lies(memory, current, x), ~ Forwarded(Deref(x)),
         NEW g \in Scavenge(x)
  PROVE  LET m == g.memory  n == g.space  v == g.value
         IN /\ m \in Memories /\ Apart(current, n)
            /\ Len(new) <= Len(n) /\ \A i \in 1..Len(new) : n[i] = new[i]
            /\ n # <<>>
            /\ v \in Ptrs /\ ~ Lies(memory, current, v) /\ ~ Lies(memory, new, v)
            /\ \A p \in Ptrs : Lies(m, n, p) <=> Lies(memory, new, p) \/ p = v
            /\ \A p \in Ptrs : Lies(m, current, p) <=> Lies(memory, current, p)
            /\ \A p \in Ptrs : (Lies(memory, new, p) \/ Lies(memory, current, p)) /\ p # x
                                 => Cell(m, p) = Cell(memory, p)
            /\ Cell(m, v) = Cell(memory, x)
            /\ Forwarded(Cell(m, x)) /\ Cell(m, x).to = v
            /\ \A i \in 1..Len(new) : Len(memory[new[i]]) <= Len(m[new[i]])
            /\ ~ Scanned(n, scan, v) /\ \A f \in Nat \ {0} : ~ Done(n, scan, v, f)
  <1> DEFINE m == g.memory  n == g.space  v == g.value
  <1>1. PICK a \in RawAlloc(new, Deref(x)) :
          g = [value |-> Placed(a),
               memory |-> [a.memory EXCEPT ![x.block][x.slot] = [to |-> Placed(a)]],
               space |-> a.space]
    BY PtrParts DEF Scavenge
  <1>2. m = Put(a.memory, x, [to |-> v]) /\ n = a.space /\ v = Placed(a)
    BY <1>1 DEF Put
  <1>3. Deref(x) = Cell(memory, x) /\ Deref(x) \in Cells
    BY CellParts DEF Deref, Cell, Lies
  <1> HIDE DEF m, n, v
  <1>4. /\ a.memory \in Memories /\ a.space \in Seq(Blocks) /\ a.space # <<>>
        /\ IsInjective(a.space) /\ Range(a.space) \cap Range(current) = {}
        /\ Len(new) <= Len(a.space) /\ \A i \in 1..Len(new) : a.space[i] = new[i]
        /\ Placed(a) \in Ptrs /\ Cell(a.memory, Placed(a)) = Deref(x)
        /\ Placed(a).block = a.space[Len(a.space)]
        /\ ~ Lies(memory, new, Placed(a)) /\ ~ Lies(memory, current, Placed(a))
        /\ \A p \in Ptrs : Lies(a.memory, a.space, p) <=> Lies(memory, new, p) \/ p = Placed(a)
        /\ \A p \in Ptrs : Lies(a.memory, current, p) <=> Lies(memory, current, p)
        /\ \A p \in Ptrs : Lies(memory, new, p) \/ Lies(memory, current, p)
                             => Cell(a.memory, p) = Cell(memory, p)
        /\ \A i \in 1..Len(new) : Len(memory[new[i]]) <= Len(a.memory[new[i]])
        /\ Len(a.space) = Len(new) => Placed(a).slot > Len(memory[Placed(a).block])
    BY <1>3, RawAllocPlaces
  <1> DEFINE am == a.memory
  <1>5. /\ am \in Memories /\ n \in Seq(Blocks) /\ n # <<>>
        /\ IsInjective(n) /\ Range(n) \cap Range(current) = {}
        /\ Len(new) <= Len(n) /\ \A i \in 1..Len(new) : n[i] = new[i]
        /\ v \in Ptrs /\ Cell(am, v) = Deref(x)
        /\ v.block = n[Len(n)]
        /\ ~ Lies(memory, new, v) /\ ~ Lies(memory, current, v)
        /\ \A p \in Ptrs : Lies(am, n, p) <=> Lies(memory, new, p) \/ p = v
        /\ \A p \in Ptrs : Lies(am, current, p) <=> Lies(memory, current, p)
        /\ \A p \in Ptrs : Lies(memory, new, p) \/ Lies(memory, current, p)
                             => Cell(am, p) = Cell(memory, p)
        /\ \A i \in 1..Len(new) : Len(memory[new[i]]) <= Len(am[new[i]])
        /\ Len(n) = Len(new) => v.slot > Len(memory[v.block])
    BY <1>2, <1>4
  <1>6. m = Put(am, x, [to |-> v])
    BY <1>2
  <1> HIDE DEF am
  <1>7. x.slot <= Len(am[x.block])
    BY <1>5 DEF Lies
  <1>8. [to |-> v] \in Cells /\ Forwarded([to |-> v]) /\ [to |-> v].to = v
    BY <1>5, ForwardMade
  <1> DEFINE c == [to |-> v]
  <1>9. c \in Cells /\ m = Put(am, x, c) /\ Forwarded(c) /\ c.to = v
    BY <1>6, <1>8
  <1> HIDE DEF c
  <1>10. /\ m \in Memories
         /\ \A b \in Blocks : Len(m[b]) = Len(am[b])
         /\ Cell(m, x) = c
         /\ \A p \in Ptrs : p # x => Cell(m, p) = Cell(am, p)
         /\ \A s \in Seq(Blocks), p \in Ptrs : Lies(m, s, p) <=> Lies(am, s, p)
    BY <1>5, <1>7, <1>9, PutCell
  <1>11. current \in Seq(Blocks) /\ new \in Seq(Blocks) /\ IsInjective(current)
    BY DEF Apart
  <1>12. Apart(current, n)
    BY <1>5, <1>11 DEF Apart
  <1>13. v # x
    BY <1>5
  <1>14. \A i \in 1..Len(new) : Len(memory[new[i]]) <= Len(m[new[i]])
    BY <1>5, <1>10, <1>11, SpaceParts
  <1>15. ~ Scanned(n, scan, v) /\ \A f \in Nat \ {0} : ~ Done(n, scan, v, f)
    BY <1>5, <1>11, NotYetScanned
  <1>16. Cell(m, v) = Cell(memory, x)
    BY <1>3, <1>5, <1>10, <1>13
  <1>17. \A p \in Ptrs : Lies(m, n, p) <=> Lies(memory, new, p) \/ p = v
    BY <1>5, <1>10
  <1>18. \A p \in Ptrs : Lies(m, current, p) <=> Lies(memory, current, p)
    BY <1>5, <1>10, <1>11
  <1>19. \A p \in Ptrs : (Lies(memory, new, p) \/ Lies(memory, current, p)) /\ p # x
                                 => Cell(m, p) = Cell(memory, p)
    BY <1>5, <1>10
  <1>20. Forwarded(Cell(m, x)) /\ Cell(m, x).to = v
    BY <1>9, <1>10
  <1> QED BY <1>5, <1>10, <1>12, <1>14, <1>15, <1>16, <1>17, <1>18, <1>19, <1>20 DEF m, n, v

LEMMA SpacesParts ==
  ASSUME NEW m, NEW c, NEW n, NEW k, NEW sc, NEW w, SpacesOK(m, c, n, k, sc, w)
  PROVE  /\ m \in Memories /\ Apart(c, n) /\ c \in Seq(Blocks) /\ n \in Seq(Blocks)
         /\ CopiesOK(m, c, n, k) /\ FieldsStay(m, c) /\ FieldsMove(m, c, n, sc, w)
         /\ ScanOK(m, n, sc) /\ WeakOK(m, n, sc, w) /\ k \in Nat
  BY DEF SpacesOK, Apart

(* No place is in both spaces. *)
LEMMA OnePlace ==
  ASSUME NEW m, NEW c, NEW n, Apart(c, n), NEW p
  PROVE  ~ (Lies(m, c, p) /\ Lies(m, n, p))
  BY DEF Apart, Lies

LEMMA TransportKeepsSpaces ==
  ASSUME SpacesOK(memory, current, new, made, scan, weak),
         NEW x \in Ptrs, Lies(memory, current, x), ~ Forwarded(Deref(x)),
         NEW g \in Scavenge(x)
  PROVE  SpacesOK(g.memory, current, g.space, made, scan, weak)
  <1> DEFINE m == g.memory  n == g.space  v == g.value  c == current
  <1>1. /\ memory \in Memories /\ Apart(c, new) /\ c \in Seq(Blocks) /\ new \in Seq(Blocks)
        /\ CopiesOK(memory, c, new, made) /\ FieldsStay(memory, c)
        /\ FieldsMove(memory, c, new, scan, weak)
        /\ ScanOK(memory, new, scan) /\ WeakOK(memory, new, scan, weak) /\ made \in Nat
    BY SpacesParts
  <1>2. /\ m \in Memories /\ Apart(c, n)
        /\ Len(new) <= Len(n) /\ \A i \in 1..Len(new) : n[i] = new[i]
        /\ n # <<>>
        /\ v \in Ptrs /\ ~ Lies(memory, c, v) /\ ~ Lies(memory, new, v)
        /\ \A p \in Ptrs : Lies(m, n, p) <=> Lies(memory, new, p) \/ p = v
        /\ \A p \in Ptrs : Lies(m, c, p) <=> Lies(memory, c, p)
        /\ \A p \in Ptrs : (Lies(memory, new, p) \/ Lies(memory, c, p)) /\ p # x
                             => Cell(m, p) = Cell(memory, p)
        /\ Cell(m, v) = Cell(memory, x)
        /\ Forwarded(Cell(m, x)) /\ Cell(m, x).to = v
        /\ \A i \in 1..Len(new) : Len(memory[new[i]]) <= Len(m[new[i]])
        /\ ~ Scanned(n, scan, v) /\ \A f \in Nat \ {0} : ~ Done(n, scan, v, f)
    BY <1>1, Transported
  <1>3. Lies(memory, c, x) /\ ~ Forwarded(Cell(memory, x)) /\ ~ Lies(memory, new, x)
    BY <1>1, OnePlace DEF Deref, Cell
  <1> HIDE DEF m, n, v, c
  <1>4. x # v /\ n \in Seq(Blocks)
    BY <1>2, <1>3 DEF Apart
  <1>5. \A p \in Ptrs : Lies(memory, new, p) => p # x /\ p # v /\ Cell(m, p) = Cell(memory, p)
    BY <1>2, <1>3
  <1>6. \A p \in Ptrs : Lies(memory, c, p) =>
          p # v /\ IF p = x THEN Forwarded(Cell(m, p)) ELSE Cell(m, p) = Cell(memory, p)
    BY <1>2
  <1>7. \A y : Known(m, c, y) <=> Known(memory, c, y)
    BY <1>2 DEF Known
  <1>8. \A y : Known(memory, new, y) => Known(m, n, y)
    BY <1>2 DEF Known
  <1>9. CopiesOK(m, c, n, made)
    <2>1. ASSUME NEW p \in Ptrs, Lies(m, c, p), Forwarded(Cell(m, p))
          PROVE  Lies(m, n, Cell(m, p).to)
      <3>1. CASE p = x
        BY <1>2, <3>1
      <3>2. CASE p # x
        <4>1. Lies(memory, c, p) /\ Cell(m, p) = Cell(memory, p)
          BY <1>2, <2>1, <3>2
        <4>2. Lies(memory, new, Cell(memory, p).to)
          BY <1>1, <2>1, <4>1 DEF CopiesOK
        <4>3. Cell(memory, p).to \in Ptrs
          BY <1>1, <2>1, <4>1, CellParts DEF Lies
        <4> QED BY <1>2, <4>1, <4>2, <4>3
      <3> QED BY <3>1, <3>2
    <2>2. ASSUME NEW p \in Ptrs, Lies(m, n, p) PROVE ~ Forwarded(Cell(m, p))
      <3>1. CASE p = v
        BY <1>2, <1>3, <3>1
      <3>2. CASE p # v
        BY <1>1, <1>2, <1>5, <2>2, <3>2 DEF CopiesOK
      <3> QED BY <3>1, <3>2
    <2> DEFINE was(p) == IF p = v THEN x ELSE p
    <2>3. ASSUME NEW p \in Ptrs, Alive(m, c, n, p)
          PROVE  /\ was(p) \in Ptrs /\ Alive(memory, c, new, was(p))
                 /\ Cell(m, p) = Cell(memory, was(p))
                 /\ p # x
      <3>1. CASE p = v
        BY <1>2, <1>3, <1>4, <3>1 DEF Alive
      <3>2. CASE p # v
        <4>1. p # x
          BY <1>2, <2>3 DEF Alive
        <4>2. Lies(memory, c, p) \/ Lies(memory, new, p)
          BY <1>2, <2>3, <3>2 DEF Alive
        <4> QED BY <1>5, <1>6, <2>3, <3>2, <4>1, <4>2 DEF Alive
      <3> QED BY <3>1, <3>2
    <2>4. \A p, q \in Ptrs : p # x /\ q # x /\ was(p) = was(q) => p = q
      OBVIOUS
    <2> HIDE DEF was
    <2>5. ASSUME NEW p \in Ptrs, NEW q \in Ptrs, Alive(m, c, n, p), Alive(m, c, n, q),
                 Cell(m, p).id = Cell(m, q).id
          PROVE  p = q
      <3>1. was(p) = was(q)
        BY <1>1, <2>3, <2>5 DEF CopiesOK
      <3> QED BY <2>3, <2>4, <2>5, <3>1
    <2>6. ASSUME NEW p \in Ptrs, Alive(m, c, n, p) PROVE WellMade(Cell(m, p), made)
      BY <1>1, <2>3, <2>6 DEF CopiesOK
    <2> QED BY <2>1, <2>2, <2>5, <2>6 DEF CopiesOK
  <1>10. FieldsStay(m, c)
    <2> SUFFICES ASSUME NEW p \in Ptrs, Lies(m, c, p), ~ Forwarded(Cell(m, p)),
                        NEW f \in DOMAIN Cell(m, p).fields
                 PROVE  Known(m, c, Cell(m, p).fields[f])
      BY DEF FieldsStay
    <2>1. Lies(memory, c, p) /\ Cell(m, p) = Cell(memory, p)
      BY <1>2
    <2> QED BY <1>1, <1>7, <2>1 DEF FieldsStay
  <1>11. ScanOK(m, n, scan)
    <2>1. CASE new = <<>>
      <3>1. Len(n) \in Nat \ {0} /\ n[1] \in Blocks
        BY <1>2, <1>4, SpaceParts
      <3>2. Len(m[n[1]]) \in Nat
        BY <1>2, <3>1, BlockParts
      <3> QED BY <1>1, <1>2, <2>1, <3>1, <3>2 DEF ScanOK
    <2>2. CASE new # <<>>
      <3> DEFINE b == new[scan.block]  k1 == Len(memory[b])  k2 == Len(m[b])
      <3>1. scan.block \in 1..Len(new)
        BY <1>1, <2>2, SpaceParts DEF ScanOK, Scans
      <3>2. n[scan.block] = b /\ k1 <= k2 /\ b \in Blocks
        BY <1>1, <1>2, <3>1, SpaceParts
      <3>3. k1 \in Nat /\ k2 \in Nat
        BY <1>1, <1>2, <3>2, BlockParts
      <3>4. scan \in Scans /\ scan.slot \in Nat /\ scan.slot <= k1
            /\ (scan.fields # 0 => scan.slot < k1)
        BY <1>1, <2>2 DEF ScanOK, Scans
      <3>5. scan.block <= Len(n)
        <4>1. Len(new) \in Nat /\ Len(n) \in Nat
          BY <1>1, <1>4, SpaceParts
        <4> QED BY <1>2, <3>1, <4>1
      <3>8. ASSUME scan.fields # 0
            PROVE  scan.fields \in Followed(Cell(m, NextIn(n, scan)))
        <4>1. scan.slot + 1 \in Nat \ {0} /\ scan.slot + 1 <= k1
          BY <3>3, <3>4, <3>8
        <4> DEFINE p == NextIn(n, scan)
        <4>2. p = NextIn(new, scan) /\ p \in Ptrs /\ p.block = b /\ p.slot = scan.slot + 1
          BY <3>2, <4>1, PtrMade DEF NextIn
        <4>3. b \in Range(new)
          BY <1>1, <3>1, SpaceParts
        <4>4. Lies(memory, new, p)
          BY <4>1, <4>2, <4>3 DEF Lies
        <4>5. scan.fields \in Followed(Cell(memory, NextIn(new, scan)))
          BY <1>1, <3>8 DEF ScanOK
        <4> HIDE DEF p
        <4>6. Cell(m, p) = Cell(memory, p)
          BY <1>5, <4>2, <4>4
        <4> QED BY <4>2, <4>5, <4>6 DEF p
      <3> HIDE DEF k1, k2, b
      <3>6. scan.slot <= k2 /\ (scan.fields # 0 => scan.slot < k2)
        BY <3>2, <3>3, <3>4
      <3>7. k2 = Len(m[n[scan.block]])
        BY <3>2 DEF k2
      <3> QED BY <1>2, <3>4, <3>5, <3>6, <3>7, <3>8 DEF ScanOK
    <2> QED BY <2>1, <2>2
  <1>12. ASSUME NEW p \in Ptrs, Lies(memory, new, p)
         PROVE  /\ Scanned(n, scan, p) <=> Scanned(new, scan, p)
                /\ \A f : Done(n, scan, p, f) <=> Done(new, scan, p, f)
    <2>1. p.block \in Range(new) /\ new # <<>>
      BY <1>1, <1>12, SpaceParts DEF Lies
    <2>2. scan \in Scans /\ scan.block <= Len(new)
      BY <1>1, <2>1 DEF ScanOK
    <2>3. IsInjective(new) /\ IsInjective(n)
      BY <1>1, <1>2 DEF Apart
    <2> QED BY <1>1, <1>2, <1>4, <2>1, <2>2, <2>3, ScannedGrows
  <1>13. WeakOK(m, n, scan, weak)
    <2>1. weak \in Seq(Ptrs) /\ IsInjective(weak)
      BY <1>1 DEF WeakOK
    <2>2. ASSUME NEW p \in Range(weak)
          PROVE  /\ Lies(m, n, p) /\ Scanned(n, scan, p) /\ Cell(m, p).kind = "weak"
                 /\ Cell(m, p).fields[1] # Nil
      <3>1. p \in Ptrs
        BY <2>1 DEF Range
      <3>2. Lies(memory, new, p) /\ Scanned(new, scan, p) /\ Cell(memory, p).kind = "weak"
            /\ Cell(memory, p).fields[1] # Nil
        BY <1>1 DEF WeakOK
      <3> QED BY <1>2, <1>5, <1>12, <3>1, <3>2
    <2> QED BY <2>1, <2>2 DEF WeakOK
  <1>14. v \notin Range(weak)
    BY <1>1, <1>2 DEF WeakOK
  <1>15. FieldsMove(m, c, n, scan, weak)
    <2> SUFFICES ASSUME NEW p \in Ptrs, Lies(m, n, p), NEW f \in DOMAIN Cell(m, p).fields
                 PROVE  IF p \in Range(weak) \/ ~ Done(n, scan, p, f)
                          THEN Known(m, c, Cell(m, p).fields[f])
                          ELSE Known(m, n, Cell(m, p).fields[f])
      BY DEF FieldsMove
    <2>1. CASE p = v
      <3>1. Cell(memory, x) \in Objs
        BY <1>1, <1>3, CellParts DEF Lies
      <3>2. f \in Nat \ {0}
        BY <1>2, <2>1, <3>1, ObjParts
      <3>3. Known(memory, c, Cell(memory, x).fields[f])
        BY <1>1, <1>2, <1>3, <2>1 DEF FieldsStay
      <3> QED BY <1>2, <1>7, <2>1, <3>2, <3>3
    <2>2. CASE p # v
      <3>1. Lies(memory, new, p) /\ Cell(m, p) = Cell(memory, p)
        BY <1>2, <1>5, <2>2
      <3>2. IF p \in Range(weak) \/ ~ Done(new, scan, p, f)
              THEN Known(memory, c, Cell(memory, p).fields[f])
              ELSE Known(memory, new, Cell(memory, p).fields[f])
        BY <1>1, <3>1 DEF FieldsMove
      <3> QED BY <1>7, <1>8, <1>12, <3>1, <3>2
    <2> QED BY <2>1, <2>2
  <1>16. SpacesOK(m, c, n, made, scan, weak)
    BY <1>1, <1>2, <1>9, <1>10, <1>11, <1>13, <1>15 DEF SpacesOK
  <1> QED BY <1>16 DEF m, n, c

(* scavenge: the spaces stay right, what was known of them is still known, *)
(* and the value that is returned is of the new space.                     *)
LEMMA Scavenged ==
  ASSUME SpacesOK(memory, current, new, made, scan, weak),
         NEW x, Known(memory, current, x),
         NEW g \in Scavenge(x)
  PROVE  /\ SpacesOK(g.memory, current, g.space, made, scan, weak)
         /\ Known(g.memory, g.space, g.value)
         /\ x = Nil => g.value = Nil
         /\ \A y : Known(memory, current, y) => Known(g.memory, current, y)
         /\ \A y : Known(memory, new, y) => Known(g.memory, g.space, y)
         /\ \A p \in Ptrs : Lies(memory, new, p) =>
              Lies(g.memory, g.space, p) /\ Cell(g.memory, p) = Cell(memory, p)
         /\ \A i \in 1..Len(new) : g.space[i] = new[i]
         /\ new # <<>> => g.space # <<>>
  <1>1. /\ memory \in Memories /\ Apart(current, new) /\ ScanOK(memory, new, scan)
        /\ CopiesOK(memory, current, new, made)
    BY SpacesParts
  <1>2. CASE x = Nil
    <2>1. g = [value |-> x, memory |-> memory, space |-> new]
      BY <1>2 DEF Scavenge, IsPtr
    <2>2. g.value = Nil /\ g.memory = memory /\ g.space = new
      BY <1>2, <2>1
    <2> QED BY <2>2 DEF Known
  <1>3. CASE x # Nil
    <2>1. x \in Ptrs /\ Lies(memory, current, x) /\ IsPtr(x) /\ Deref(x) = Cell(memory, x)
      BY <1>3 DEF Known, IsPtr, Deref, Cell
    <2>2. CASE Forwarded(Deref(x))
      <3>1. g = [value |-> Deref(x).to, memory |-> memory, space |-> new]
        BY <2>1, <2>2 DEF Scavenge
      <3>2. g.value = Deref(x).to /\ g.memory = memory /\ g.space = new
        BY <3>1
      <3>3. Deref(x).to \in Ptrs
        BY <1>1, <2>1, <2>2, CellParts DEF Lies
      <3>4. Lies(memory, new, Deref(x).to)
        BY <1>1, <2>1, <2>2 DEF CopiesOK
      <3> QED BY <1>3, <3>2, <3>3, <3>4 DEF Known
    <2>3. CASE ~ Forwarded(Deref(x))
      <3>1. SpacesOK(g.memory, current, g.space, made, scan, weak)
        BY <2>1, <2>3, TransportKeepsSpaces
      <3> DEFINE m == g.memory  n == g.space  v == g.value
      <3>2. /\ \A i \in 1..Len(new) : n[i] = new[i]
            /\ n # <<>>
            /\ v \in Ptrs
            /\ \A p \in Ptrs : Lies(m, n, p) <=> Lies(memory, new, p) \/ p = v
            /\ \A p \in Ptrs : Lies(m, current, p) <=> Lies(memory, current, p)
            /\ \A p \in Ptrs : (Lies(memory, new, p) \/ Lies(memory, current, p)) /\ p # x
                                 => Cell(m, p) = Cell(memory, p)
        BY <1>1, <2>1, <2>3, Transported
      <3>3. \A p \in Ptrs : Lies(memory, new, p) => p # x
        BY <1>1, <2>1, OnePlace
      <3> HIDE DEF m, n, v
      <3>4. \A p \in Ptrs : Lies(memory, new, p) =>
              Lies(m, n, p) /\ Cell(m, p) = Cell(memory, p)
        BY <3>2, <3>3
      <3>5. Known(m, n, v)
        BY <3>2 DEF Known
      <3>6. \A y : Known(memory, current, y) => Known(m, current, y)
        BY <3>2 DEF Known
      <3>7. \A y : Known(memory, new, y) => Known(m, n, y)
        BY <3>2 DEF Known
      <3> QED BY <1>3, <3>1, <3>2, <3>4, <3>5, <3>6, <3>7 DEF m, n, v
    <2> QED BY <2>2, <2>3
  <1> QED BY <1>2, <1>3

-----------------------------------------------------------------------------
(* An object is written: it stays the object that it was. *)
LEMMA ObjectWritten ==
  ASSUME NEW m, NEW c, NEW n, NEW k, NEW sc, NEW w, SpacesOK(m, c, n, k, sc, w),
         NEW a \in Ptrs, Alive(m, c, n, a), NEW o \in Objs,
         o.id = Cell(m, a).id, o.kind = Cell(m, a).kind,
         Len(o.fields) = Len(Cell(m, a).fields),
         Lies(m, c, a) => \A f \in DOMAIN o.fields : Known(m, c, o.fields[f]),
         NEW sc2, NEW w2,
         FieldsMove(Put(m, a, o), c, n, sc2, w2),
         ScanOK(Put(m, a, o), n, sc2), WeakOK(Put(m, a, o), n, sc2, w2)
  PROVE  SpacesOK(Put(m, a, o), c, n, k, sc2, w2)
  <1> DEFINE m2 == Put(m, a, o)
  <1>1. /\ m \in Memories /\ Apart(c, n) /\ c \in Seq(Blocks) /\ n \in Seq(Blocks)
        /\ CopiesOK(m, c, n, k) /\ FieldsStay(m, c) /\ k \in Nat
    BY SpacesParts
  <1>2. a.slot <= Len(m[a.block]) /\ ~ Forwarded(Cell(m, a)) /\ o \in Cells /\ ~ Forwarded(o)
    BY ObjParts DEF Alive, Lies
  <1>3. /\ m2 \in Memories
        /\ Cell(m2, a) = o
        /\ \A p \in Ptrs : p # a => Cell(m2, p) = Cell(m, p)
        /\ \A s \in Seq(Blocks), p \in Ptrs : Lies(m2, s, p) <=> Lies(m, s, p)
        /\ \A s \in Seq(Blocks) : \A x : Known(m2, s, x) <=> Known(m, s, x)
    BY <1>1, <1>2, PutCell
  <1> HIDE DEF m2
  <1>4. \A p \in Ptrs : (Lies(m2, c, p) <=> Lies(m, c, p)) /\ (Lies(m2, n, p) <=> Lies(m, n, p))
    BY <1>1, <1>3
  <1>5. \A p \in Ptrs : Forwarded(Cell(m2, p)) <=> Forwarded(Cell(m, p))
    BY <1>2, <1>3
  <1>6. \A p \in Ptrs : Alive(m2, c, n, p) <=> Alive(m, c, n, p)
    BY <1>4, <1>5 DEF Alive
  <1>7. \A p \in Ptrs : Cell(m2, p).id = Cell(m, p).id /\ Cell(m2, p).kind = Cell(m, p).kind
                        /\ Len(Cell(m2, p).fields) = Len(Cell(m, p).fields)
    BY <1>3
  <1>8. CopiesOK(m2, c, n, k)
    <2>1. ASSUME NEW p \in Ptrs, Lies(m2, c, p), Forwarded(Cell(m2, p))
          PROVE  Lies(m2, n, Cell(m2, p).to)
      <3>1. p # a /\ Cell(m2, p) = Cell(m, p) /\ Lies(m, c, p)
        BY <1>2, <1>3, <1>4, <2>1
      <3>2. Lies(m, n, Cell(m, p).to) /\ Cell(m, p).to \in Ptrs
        BY <1>1, <2>1, <3>1, CellParts DEF CopiesOK, Lies
      <3> QED BY <1>4, <3>1, <3>2
    <2>2. \A p \in Ptrs : Lies(m2, n, p) => ~ Forwarded(Cell(m2, p))
      BY <1>1, <1>4, <1>5 DEF CopiesOK
    <2>3. \A p, q \in Ptrs :
            Alive(m2, c, n, p) /\ Alive(m2, c, n, q) /\ Cell(m2, p).id = Cell(m2, q).id => p = q
      BY <1>1, <1>6, <1>7 DEF CopiesOK
    <2>4. \A p \in Ptrs : Alive(m2, c, n, p) => WellMade(Cell(m2, p), k)
      <3>1. \A p \in Ptrs : Alive(m, c, n, p) => WellMade(Cell(m, p), k)
        BY <1>1 DEF CopiesOK
      <3> QED BY <1>6, <1>7, <3>1 DEF WellMade
    <2> QED BY <2>1, <2>2, <2>3, <2>4 DEF CopiesOK
  <1>9. FieldsStay(m2, c)
    <2> SUFFICES ASSUME NEW p \in Ptrs, Lies(m2, c, p), ~ Forwarded(Cell(m2, p)),
                        NEW f \in DOMAIN Cell(m2, p).fields
                 PROVE  Known(m2, c, Cell(m2, p).fields[f])
      BY DEF FieldsStay
    <2>1. CASE p = a
      BY <1>1, <1>3, <1>4, <2>1
    <2>2. CASE p # a
      BY <1>1, <1>3, <1>4, <2>2 DEF FieldsStay
    <2> QED BY <2>1, <2>2
  <1>10. FieldsMove(m2, c, n, sc2, w2) /\ ScanOK(m2, n, sc2) /\ WeakOK(m2, n, sc2, w2)
    BY DEF m2
  <1>11. SpacesOK(m2, c, n, k, sc2, w2)
    BY <1>1, <1>3, <1>8, <1>9, <1>10 DEF SpacesOK
  <1> QED BY <1>11 DEF m2

-----------------------------------------------------------------------------
(* With one space there is nothing to scan. *)
LEMMA OneSpace ==
  ASSUME NEW m \in Memories, NEW c \in Seq(Blocks), IsInjective(c), NEW k \in Nat,
         CopiesOK(m, c, <<>>, k), FieldsStay(m, c)
  PROVE  SpacesOK(m, c, <<>>, k, ScanStart, <<>>)
  <1>1. Range(<<>>) = {} /\ <<>> \in Seq(Blocks) /\ <<>> \in Seq(Ptrs) /\ IsInjective(<<>>)
    BY DEF Range, IsInjective
  <1>2. \A p : ~ Lies(m, <<>>, p)
    BY <1>1 DEF Lies
  <1>3. Apart(c, <<>>) /\ FieldsMove(m, c, <<>>, ScanStart, <<>>)
        /\ WeakOK(m, <<>>, ScanStart, <<>>)
    BY <1>1, <1>2 DEF Apart, FieldsMove, WeakOK
  <1>4. ScanOK(m, <<>>, ScanStart)
    BY DEF ScanOK, ScanStart, Scans
  <1> QED BY <1>3, <1>4 DEF SpacesOK

(* The program runs. *)
LEMMA Idle ==
  ASSUME CollectorInv, phase = "off"
  PROVE  /\ memory \in Memories /\ Apart(current, new) /\ current \in Seq(Blocks)
         /\ IsInjective(current) /\ made \in Nat
         /\ CopiesOK(memory, current, <<>>, made) /\ FieldsStay(memory, current)
         /\ new = <<>> /\ scan = ScanStart /\ weak = <<>> /\ todo = {}
         /\ root \in [Roots -> Values] /\ \A r \in Roots : Known(memory, current, root[r])
         /\ Known(memory, current, hashState)
         /\ \A p \in Ptrs : Lies(memory, current, p) => ~ Forwarded(Cell(memory, p))
         /\ \A p : ~ Lies(memory, <<>>, p)
         /\ SpacesOK(memory, current, <<>>, made, ScanStart, <<>>)
  <1>1. new = <<>> /\ scan = ScanStart /\ weak = <<>> /\ todo = {}
    BY DEF CollectorInv, PhaseOK
  <1>2. SpacesOK(memory, current, <<>>, made, ScanStart, <<>>)
    BY <1>1 DEF CollectorInv
  <1>3. memory \in Memories /\ Apart(current, new) /\ current \in Seq(Blocks)
        /\ IsInjective(current) /\ made \in Nat
        /\ CopiesOK(memory, current, <<>>, made) /\ FieldsStay(memory, current)
    BY <1>1, <1>2, SpacesParts DEF Apart
  <1>4. \A p : ~ Lies(memory, <<>>, p)
    BY DEF Lies, Range
  <1> QED BY <1>1, <1>2, <1>3, <1>4 DEF CollectorInv, RootsOK, PhaseOK

(* While the program runs it is enough to look at one space. *)
LEMMA StaysIdle ==
  ASSUME CollectorInv, phase = "off", phase' = "off",
         new' = new, scan' = scan, weak' = weak, todo' = todo,
         memory' \in Memories, current' \in Seq(Blocks), IsInjective(current'), made' \in Nat,
         CopiesOK(memory', current', <<>>, made'), FieldsStay(memory', current'),
         root' \in [Roots -> Values], \A r \in Roots : Known(memory', current', root'[r]),
         Known(memory', current', hashState'),
         \A p \in Ptrs : Lies(memory', current', p) => ~ Forwarded(Cell(memory', p))
  PROVE  CollectorInv'
  <1>1. new' = <<>> /\ scan' = ScanStart /\ weak' = <<>> /\ todo' = {}
    BY Idle
  <1>2. SpacesOK(memory', current', new', made', scan', weak')
    BY <1>1, OneSpace
  <1>3. RootsOK'
    BY <1>1 DEF RootsOK
  <1>4. PhaseOK'
    BY <1>1 DEF PhaseOK, ScanStart
  <1> QED BY <1>2, <1>3, <1>4 DEF CollectorInv

LEMMA AllocInv ==
  ASSUME CollectorInv, NEW r \in Roots, NEW kind \in Kinds, NEW fields \in Seq(Values),
         Alloc(r, kind, fields),
         \A f \in DOMAIN fields : Known(memory, current, fields[f]),
         kind = "weak" => Len(fields) = 1, kind = "plain" => Len(fields) = Fields,
         hashState' = hashState \/ hashState' = root'[r]
  PROVE  CollectorInv'
  <1> DEFINE o == Object(made', kind, fields)
  <1>1. /\ phase = "off" /\ made' = made + 1
        /\ phase' = "off" /\ new' = new /\ scan' = scan /\ weak' = weak /\ todo' = todo
    BY DEF Alloc, gcVars
  <1>2. /\ memory \in Memories /\ Apart(current, new) /\ current \in Seq(Blocks)
        /\ made \in Nat
        /\ CopiesOK(memory, current, <<>>, made) /\ FieldsStay(memory, current)
        /\ new = <<>>
        /\ root \in [Roots -> Values] /\ \A s \in Roots : Known(memory, current, root[s])
        /\ Known(memory, current, hashState)
        /\ \A p \in Ptrs : Lies(memory, current, p) => ~ Forwarded(Cell(memory, p))
        /\ \A p : ~ Lies(memory, <<>>, p)
    BY <1>1, Idle
  <1>3. made' \in Nat /\ made' \notin 1..made /\ made' \in 1..made' /\ 1..made \subseteq 1..made'
    BY <1>1, <1>2
  <1>4. o \in Objs /\ o.id = made' /\ o.kind = kind /\ o.fields = fields
    BY <1>3, ObjMade
  <1>5. o \in Cells /\ ~ Forwarded(o)
    BY <1>4, ObjParts
  <1> HIDE DEF o
  <1>6. PICK g \in RawAlloc(current, o) :
          memory' = g.memory /\ current' = g.space /\ root' = [root EXCEPT ![r] = Placed(g)]
    BY DEF Alloc, o
  <1> DEFINE v == Placed(g)
  <1>7. /\ memory' \in Memories /\ current' \in Seq(Blocks) /\ IsInjective(current')
        /\ v \in Ptrs /\ Cell(memory', v) = o
        /\ ~ Lies(memory, current, v)
        /\ \A p \in Ptrs : Lies(memory', current', p) <=> Lies(memory, current, p) \/ p = v
        /\ \A p \in Ptrs : Lies(memory, current, p) => Cell(memory', p) = Cell(memory, p)
    <2>1. /\ g.memory \in Memories /\ g.space \in Seq(Blocks) /\ IsInjective(g.space)
          /\ Placed(g) \in Ptrs /\ Cell(g.memory, Placed(g)) = o
          /\ ~ Lies(memory, current, Placed(g))
          /\ \A p \in Ptrs : Lies(g.memory, g.space, p) <=> Lies(memory, current, p) \/ p = Placed(g)
          /\ \A p \in Ptrs : Lies(memory, current, p) \/ Lies(memory, new, p)
                               => Cell(g.memory, p) = Cell(memory, p)
      <3>1. memory \in Memories /\ Apart(current, new) /\ o \in Cells
            /\ g \in RawAlloc(current, o)
        BY <1>2, <1>5
      <3> QED BY <3>1, RawAllocPlaces
    <2>2. memory' = g.memory /\ current' = g.space
      BY <1>6
    <2> QED BY <2>1, <2>2
  <1>8. root' = [root EXCEPT ![r] = v]
    BY <1>6
  <1> HIDE DEF v
  <1>9. \A x : Known(memory, current, x) => Known(memory', current', x)
    BY <1>7 DEF Known
  <1>10. Known(memory', current', v)
    BY <1>7 DEF Known
  <1>11. root' \in [Roots -> Values] /\ \A s \in Roots : Known(memory', current', root'[s])
    <2>1. v \in Values
      BY <1>7 DEF Values
    <2> QED BY <1>2, <1>8, <1>9, <1>10, <2>1
  <1>12. Known(memory', current', hashState')
    <2>1. hashState' = hashState \/ hashState' \in {root'[s] : s \in Roots}
      OBVIOUS
    <2> QED BY <1>2, <1>9, <1>11
  <1>13. \A p \in Ptrs : Lies(memory', current', p) => ~ Forwarded(Cell(memory', p))
    BY <1>2, <1>5, <1>7
  <1>14. \A p : ~ Lies(memory', <<>>, p)
    BY DEF Lies, Range
  <1>15. CopiesOK(memory', current', <<>>, made')
    <2>1. ASSUME NEW p \in Ptrs, Alive(memory', current', <<>>, p)
          PROVE  /\ WellMade(Cell(memory', p), made')
                 /\ p # v => Alive(memory, current, <<>>, p) /\ Cell(memory', p) = Cell(memory, p)
                             /\ Cell(memory, p).id \in 1..made
      <3>1. CASE p = v
        BY <1>3, <1>4, <1>7, <3>1 DEF WellMade
      <3>2. CASE p # v
        <4>1. Alive(memory, current, <<>>, p) /\ Cell(memory', p) = Cell(memory, p)
          BY <1>2, <1>7, <1>14, <2>1, <3>2 DEF Alive
        <4>2. WellMade(Cell(memory, p), made)
          BY <1>2, <4>1 DEF CopiesOK
        <4> QED BY <1>3, <4>1, <4>2 DEF WellMade
      <3> QED BY <3>1, <3>2
    <2>2. ASSUME NEW p \in Ptrs, NEW q \in Ptrs,
                 Alive(memory', current', <<>>, p), Alive(memory', current', <<>>, q),
                 Cell(memory', p).id = Cell(memory', q).id
          PROVE  p = q
      <3>1. CASE p # v /\ q # v
        BY <1>2, <2>1, <2>2, <3>1 DEF CopiesOK
      <3>2. CASE p = v \/ q = v
        BY <1>3, <1>4, <1>7, <2>1, <2>2, <3>2
      <3> QED BY <3>1, <3>2
    <2> QED BY <1>13, <1>14, <2>1, <2>2 DEF CopiesOK
  <1>16. FieldsStay(memory', current')
    <2> SUFFICES ASSUME NEW p \in Ptrs, Lies(memory', current', p),
                        ~ Forwarded(Cell(memory', p)), NEW f \in DOMAIN Cell(memory', p).fields
                 PROVE  Known(memory', current', Cell(memory', p).fields[f])
      BY DEF FieldsStay
    <2>1. CASE p = v
      BY <1>4, <1>7, <1>9, <2>1
    <2>2. CASE p # v
      BY <1>2, <1>7, <1>9, <2>2 DEF FieldsStay
    <2> QED BY <2>1, <2>2
  <1> QED BY <1>1, <1>3, <1>7, <1>11, <1>12, <1>13, <1>15, <1>16, StaysIdle

LEMMA MakeObjectInv ==
  ASSUME CollectorInv, NEW r \in Roots, MakeObject(r)
  PROVE  CollectorInv'
  <1>1. phase = "off" /\ hashState' = hashState
    BY DEF MakeObject, Alloc
  <1>2. \A x \in Held : x \in Values /\ Known(memory, current, x)
    BY <1>1, Idle DEF Held, Known, Values
  <1>3. ASSUME NEW x \in Held, Alloc(r, "plain", [f \in 1..Fields |-> x])
        PROVE  CollectorInv'
    <2> DEFINE s == [f \in 1..Fields |-> x]
    <2>1. Fields \in Nat
      BY CollectorAssumption
    <2>2. s \in Seq(Values) /\ Len(s) = Fields /\ DOMAIN s = 1..Fields
          /\ \A f \in 1..Fields : s[f] = x
      BY <1>2, <2>1
    <2>3. Alloc(r, "plain", s)
      BY <1>3
    <2> HIDE DEF s
    <2>4. \A f \in DOMAIN s : Known(memory, current, s[f])
      BY <1>2, <2>2
    <2>5. "plain" \in Kinds
      BY DEF Kinds
    <2> QED BY <1>1, <2>2, <2>3, <2>4, <2>5, AllocInv
  <1>4. ASSUME NEW x \in Held, Alloc(r, "weak", <<x>>)
        PROVE  CollectorInv'
    <2>1. <<x>> \in Seq(Values) /\ Len(<<x>>) = 1
          /\ \A f \in DOMAIN <<x>> : Known(memory, current, <<x>>[f])
      BY <1>2
    <2>2. "weak" \in Kinds
      BY DEF Kinds
    <2> QED BY <1>1, <1>4, <2>1, <2>2, AllocInv
  <1> QED BY <1>3, <1>4 DEF MakeObject

LEMMA PointerHashStateInv ==
  ASSUME CollectorInv, NEW r \in Roots, PointerHashState(r)
  PROVE  CollectorInv'
  <1>1. phase = "off"
    BY DEF PointerHashState
  <1>2. CASE IsPtr(hashState)
    <2>1. root' = [root EXCEPT ![r] = hashState]
          /\ UNCHANGED <<spaceVars, gcVars, hashState, made>>
      BY <1>2 DEF PointerHashState
    <2>2. hashState \in Values /\ Known(memory, current, hashState)
      BY <1>1, Idle DEF Known, Values
    <2>3. root' \in [Roots -> Values] /\ \A s \in Roots : Known(memory, current, root'[s])
      BY <1>1, <2>1, <2>2, Idle
    <2> QED BY <1>1, <2>1, <2>3, Idle, StaysIdle DEF spaceVars, gcVars
  <1>3. CASE ~ IsPtr(hashState)
    <2>1. Alloc(r, "state", <<>>) /\ hashState' = root'[r]
      BY <1>3 DEF PointerHashState
    <2>2. <<>> \in Seq(Values) /\ "state" \in Kinds /\ DOMAIN <<>> = {}
      BY DEF Kinds
    <2> QED BY <2>1, <2>2, AllocInv
  <1> QED BY <1>2, <1>3

(* An object is written while there is one space. *)
LEMMA IdleWritten ==
  ASSUME CollectorInv, phase = "off",
         NEW a \in Ptrs, Lies(memory, current, a), NEW o \in Objs,
         o.id = Cell(memory, a).id, o.kind = Cell(memory, a).kind,
         Len(o.fields) = Len(Cell(memory, a).fields),
         \A f \in DOMAIN o.fields : Known(memory, current, o.fields[f])
  PROVE  LET m == Put(memory, a, o)
         IN /\ SpacesOK(m, current, <<>>, made, ScanStart, <<>>)
            /\ \A p \in Ptrs : Lies(m, current, p) => ~ Forwarded(Cell(m, p))
            /\ \A x : Known(memory, current, x) => Known(m, current, x)
  <1> DEFINE m == Put(memory, a, o)
  <1>1. /\ memory \in Memories /\ current \in Seq(Blocks)
        /\ SpacesOK(memory, current, <<>>, made, ScanStart, <<>>)
        /\ \A p \in Ptrs : Lies(memory, current, p) => ~ Forwarded(Cell(memory, p))
    BY Idle
  <1>2. Alive(memory, current, <<>>, a)
    BY <1>1 DEF Alive
  <1>3. \A n : Range(<<>>) = {} /\ ~ Lies(n, <<>>, a) /\ \A p : ~ Lies(n, <<>>, p)
    BY DEF Range, Lies
  <1>4. /\ FieldsMove(m, current, <<>>, ScanStart, <<>>)
        /\ ScanOK(m, <<>>, ScanStart) /\ WeakOK(m, <<>>, ScanStart, <<>>)
    BY <1>1, <1>3 DEF FieldsMove, ScanOK, ScanStart, Scans, WeakOK, SpacesOK
  <1>5. SpacesOK(m, current, <<>>, made, ScanStart, <<>>)
    BY <1>1, <1>2, <1>4, ObjectWritten
  <1>6. o \in Cells /\ ~ Forwarded(o) /\ a.slot <= Len(memory[a.block])
    BY ObjParts DEF Lies
  <1>7. /\ Cell(m, a) = o
        /\ \A p \in Ptrs : p # a => Cell(m, p) = Cell(memory, p)
        /\ \A p \in Ptrs : Lies(m, current, p) <=> Lies(memory, current, p)
        /\ \A x : Known(m, current, x) <=> Known(memory, current, x)
    BY <1>1, <1>6, PutCell
  <1>8. \A p \in Ptrs : Lies(m, current, p) => ~ Forwarded(Cell(m, p))
    BY <1>1, <1>6, <1>7
  <1> QED BY <1>5, <1>7, <1>8

LEMMA WriteInv ==
  ASSUME CollectorInv, NEW r \in Roots, Write(r)
  PROVE  CollectorInv'
  <1> DEFINE a == root[r]  c == Cell(memory, a)
  <1>1. PICK f \in 1..Fields, x \in Held :
          memory' = [memory EXCEPT ![root[r].block][root[r].slot].fields[f] = x]
    BY DEF Write
  <1>2. /\ phase = "off" /\ a # Nil /\ c.kind = "plain"
        /\ UNCHANGED <<current, new, gcVars, root, hashState, made>>
    BY DEF Write, IsPtr, Deref, Cell
  <1>3. /\ memory \in Memories /\ current \in Seq(Blocks) /\ IsInjective(current)
        /\ made \in Nat /\ CopiesOK(memory, current, <<>>, made) /\ FieldsStay(memory, current)
        /\ root \in [Roots -> Values] /\ \A s \in Roots : Known(memory, current, root[s])
        /\ Known(memory, current, hashState)
        /\ \A p \in Ptrs : Lies(memory, current, p) => ~ Forwarded(Cell(memory, p))
    BY <1>2, Idle
  <1>4. a \in Ptrs /\ Lies(memory, current, a) /\ ~ Forwarded(c)
    BY <1>2, <1>3 DEF Known
  <1>5. a.slot <= Len(memory[a.block]) /\ c \in Objs
    BY <1>3, <1>4, CellParts DEF Lies
  <1>6. WellMade(c, made)
    BY <1>3, <1>4 DEF CopiesOK, Alive
  <1>7. f \in DOMAIN c.fields
    BY <1>2, <1>5, <1>6, ObjParts DEF WellMade
  <1>8. x \in Values /\ Known(memory, current, x)
    BY <1>3 DEF Held, Known, Values
  <1>9. PICK o \in Objs :
          /\ memory' = Put(memory, a, o)
          /\ o.id = c.id /\ o.kind = c.kind
          /\ DOMAIN o.fields = DOMAIN c.fields /\ Len(o.fields) = Len(c.fields)
          /\ o.fields[f] = x
          /\ \A g \in DOMAIN c.fields : g # f => o.fields[g] = c.fields[g]
    <2>1. memory' = WithField(memory, a, f, x)
      BY <1>1 DEF WithField
    <2>2. a \in Ptrs /\ a.slot <= Len(memory[a.block]) /\ ~ Forwarded(Cell(memory, a))
          /\ f \in DOMAIN Cell(memory, a).fields /\ x \in Values /\ memory \in Memories
      BY <1>3, <1>4, <1>5, <1>7, <1>8
    <2> HIDE DEF a
    <2>3. PICK o \in Objs :
            /\ WithField(memory, a, f, x) = Put(memory, a, o)
            /\ o.id = Cell(memory, a).id /\ o.kind = Cell(memory, a).kind
            /\ DOMAIN o.fields = DOMAIN Cell(memory, a).fields
            /\ Len(o.fields) = Len(Cell(memory, a).fields)
            /\ o.fields[f] = x
            /\ \A g \in DOMAIN Cell(memory, a).fields :
                 g # f => o.fields[g] = Cell(memory, a).fields[g]
      BY <2>2, PutField
    <2> QED BY <2>1, <2>3
  <1>10. \A g \in DOMAIN c.fields : Known(memory, current, c.fields[g])
    BY <1>3, <1>4 DEF FieldsStay
  <1>11. \A g \in DOMAIN o.fields : Known(memory, current, o.fields[g])
    BY <1>8, <1>9, <1>10
  <1>12. /\ SpacesOK(memory', current, <<>>, made, ScanStart, <<>>)
         /\ \A p \in Ptrs : Lies(memory', current, p) => ~ Forwarded(Cell(memory', p))
         /\ \A y : Known(memory, current, y) => Known(memory', current, y)
    BY <1>2, <1>4, <1>9, <1>11, IdleWritten
  <1>13. memory' \in Memories /\ CopiesOK(memory', current, <<>>, made)
         /\ FieldsStay(memory', current)
    BY <1>12 DEF SpacesOK
  <1> QED BY <1>2, <1>3, <1>12, <1>13, StaysIdle DEF gcVars

LEMMA ReadInv ==
  ASSUME CollectorInv, NEW r \in Roots, NEW from \in Roots, Read(r, from)
  PROVE  CollectorInv'
  <1> DEFINE a == root[from]  c == Cell(memory, a)
  <1>1. PICK f \in DOMAIN c.fields : root' = [root EXCEPT ![r] = c.fields[f]]
    BY DEF Read, Deref, Cell
  <1>2. phase = "off" /\ a # Nil /\ UNCHANGED <<spaceVars, gcVars, hashState, made>>
    BY DEF Read, IsPtr
  <1>3. /\ memory \in Memories /\ FieldsStay(memory, current)
        /\ root \in [Roots -> Values] /\ \A s \in Roots : Known(memory, current, root[s])
        /\ \A p \in Ptrs : Lies(memory, current, p) => ~ Forwarded(Cell(memory, p))
    BY <1>2, Idle
  <1>4. a \in Ptrs /\ Lies(memory, current, a) /\ ~ Forwarded(c)
    BY <1>2, <1>3 DEF Known
  <1> DEFINE x == c.fields[f]
  <1>5. Known(memory, current, x)
    BY <1>3, <1>4 DEF FieldsStay
  <1>6. root' = [root EXCEPT ![r] = x]
    BY <1>1
  <1> HIDE DEF x
  <1>7. x \in Values
    BY <1>5 DEF Known, Values
  <1>8. root' \in [Roots -> Values] /\ \A s \in Roots : Known(memory, current, root'[s])
    BY <1>3, <1>5, <1>6, <1>7
  <1> QED BY <1>2, <1>8, Idle, StaysIdle DEF spaceVars, gcVars

LEMMA DropInv ==
  ASSUME CollectorInv, NEW r \in Roots, Drop(r)
  PROVE  CollectorInv'
  <1>1. phase = "off" /\ root' = [root EXCEPT ![r] = Nil]
        /\ UNCHANGED <<spaceVars, gcVars, hashState, made>>
    BY DEF Drop
  <1>2. root' \in [Roots -> Values] /\ \A s \in Roots : Known(memory, current, root'[s])
    BY <1>1, Idle DEF Known, Values
  <1> QED BY <1>1, <1>2, Idle, StaysIdle DEF spaceVars, gcVars

-----------------------------------------------------------------------------
(* collect_garbage. *)

LEMMA SetupInv ==
  ASSUME CollectorInv, Setup
  PROVE  CollectorInv'
  <1> DEFINE a == hashState  c == Cell(memory, a)
  <1>1. /\ phase = "off" /\ phase' = "roots" /\ todo' = Roots
        /\ weak' = <<>> /\ scan' = ScanStart /\ hashState' = Nil
        /\ UNCHANGED <<current, new, root, made>>
        /\ IF hashState # Nil
             THEN memory' = [memory EXCEPT ![hashState.block][hashState.slot].ok = FALSE]
             ELSE memory' = memory
    BY DEF Setup, IsPtr
  <1>2. /\ memory \in Memories /\ new = <<>> /\ current \in Seq(Blocks)
        /\ FieldsStay(memory, current)
        /\ root \in [Roots -> Values] /\ \A s \in Roots : Known(memory, current, root[s])
        /\ Known(memory, current, hashState)
        /\ \A p \in Ptrs : Lies(memory, current, p) => ~ Forwarded(Cell(memory, p))
        /\ SpacesOK(memory, current, <<>>, made, ScanStart, <<>>)
    BY <1>1, Idle
  <1>3. /\ SpacesOK(memory', current, <<>>, made, ScanStart, <<>>)
        /\ \A x : Known(memory, current, x) => Known(memory', current, x)
    <2>1. CASE hashState = Nil
      BY <1>1, <1>2, <2>1
    <2>2. CASE hashState # Nil
      <3>1. a \in Ptrs /\ Lies(memory, current, a) /\ ~ Forwarded(c)
        BY <1>2, <2>2 DEF Known
      <3>2. c \in Objs
        BY <1>2, <3>1, CellParts DEF Lies
      <3> DEFINE o == [c EXCEPT !.ok = FALSE]
      <3>3. memory' = Put(memory, a, o)
        BY <1>1, <2>2 DEF Put, Cell
      <3>4. o \in Objs /\ o.id = c.id /\ o.kind = c.kind /\ o.fields = c.fields
        BY <3>2 DEF Objs
      <3>5. \A f \in DOMAIN c.fields : Known(memory, current, c.fields[f])
        BY <1>2, <3>1 DEF FieldsStay
      <3> HIDE DEF o
      <3> QED BY <1>1, <3>1, <3>3, <3>4, <3>5, IdleWritten
    <2> QED BY <2>1, <2>2
  <1>4. SpacesOK(memory', current', new', made', scan', weak')
    BY <1>1, <1>2, <1>3
  <1>5. RootsOK'
    BY <1>1, <1>2, <1>3 DEF RootsOK
  <1>6. PhaseOK'
    BY <1>1 DEF PhaseOK, Known, ScanStart
  <1> QED BY <1>4, <1>5, <1>6 DEF CollectorInv

LEMMA ScavengeRootInv ==
  ASSUME CollectorInv, ScavengeRoot
  PROVE  CollectorInv'
  <1>1. PICK r \in todo :
          /\ \E g \in Scavenge(root[r]) :
               /\ memory' = g.memory /\ new' = g.space
               /\ root' = [root EXCEPT ![r] = g.value]
          /\ todo' = todo \ {r}
          /\ phase' = IF todo' = {} THEN "scan" ELSE "roots"
    BY DEF ScavengeRoot
  <1>2. PICK g \in Scavenge(root[r]) :
          /\ memory' = g.memory /\ new' = g.space
          /\ root' = [root EXCEPT ![r] = g.value]
    BY <1>1
  <1>3. phase = "roots" /\ UNCHANGED <<current, scan, weak, hashState, made>>
    BY DEF ScavengeRoot
  <1>4. /\ SpacesOK(memory, current, new, made, scan, weak)
        /\ root \in [Roots -> Values] /\ todo \subseteq Roots /\ r \in Roots
        /\ \A s \in Roots : IF s \in todo THEN Known(memory, current, root[s])
                                          ELSE Known(memory, new, root[s])
        /\ hashState = Nil /\ scan = ScanStart /\ weak = <<>>
    BY <1>1, <1>3 DEF CollectorInv, RootsOK, PhaseOK
  <1> DEFINE v == g.value
  <1>5. /\ SpacesOK(memory', current, new', made, scan, weak)
        /\ Known(memory', new', v)
        /\ \A y : Known(memory, current, y) => Known(memory', current, y)
        /\ \A y : Known(memory, new, y) => Known(memory', new', y)
    BY <1>2, <1>4, Scavenged
  <1>6. root' = [root EXCEPT ![r] = v]
    BY <1>2
  <1> HIDE DEF v
  <1>7. RootsOK'
    <2>1. v \in Values
      BY <1>5 DEF Known, Values
    <2>2. root' \in [Roots -> Values] /\ todo' \subseteq Roots
      BY <1>1, <1>4, <1>6, <2>1
    <2>3. phase' # "off"
      BY <1>1
    <2>4. \A s \in Roots : IF s \in todo' THEN Known(memory', current, root'[s])
                                          ELSE Known(memory', new', root'[s])
      BY <1>1, <1>4, <1>5, <1>6
    <2> QED BY <1>3, <2>2, <2>3, <2>4 DEF RootsOK
  <1>8. PhaseOK'
    BY <1>1, <1>3, <1>4 DEF PhaseOK, Known
  <1> QED BY <1>3, <1>5, <1>7, <1>8 DEF CollectorInv

(* The object that scan_ptr is at: no field after the last that is         *)
(* scavenged is done, and it is not on the list of weak pointers.          *)
LEMMA ScanPlace ==
  ASSUME NEW m, NEW c, NEW n, NEW k, NEW sc, NEW w, SpacesOK(m, c, n, k, sc, w),
         n # <<>>, sc.slot < Len(m[n[sc.block]]),
         NEW p, p = NextIn(n, sc)
  PROVE  /\ p \in Ptrs /\ p.block = n[sc.block] /\ p.slot = sc.slot + 1
         /\ Lies(m, n, p) /\ ~ Lies(m, c, p) /\ ~ Forwarded(Cell(m, p))
         /\ Cell(m, p) \in Objs /\ WellMade(Cell(m, p), k) /\ Alive(m, c, n, p)
         /\ ~ Scanned(n, sc, p) /\ p \notin Range(w)
         /\ sc.block \in 1..Len(n) /\ sc.slot \in Nat /\ sc.fields \in Nat
         /\ \A q \in Ptrs : q.block = n[sc.block] /\ q.slot = sc.slot + 1 => q = p
         /\ \A f : Done(n, sc, p, f) <=> f <= sc.fields
         /\ \A q \in Ptrs : q # p => \A f : Done(n, sc, q, f) <=> Scanned(n, sc, q)
  <1>1. /\ m \in Memories /\ Apart(c, n) /\ n \in Seq(Blocks) /\ CopiesOK(m, c, n, k)
        /\ ScanOK(m, n, sc) /\ WeakOK(m, n, sc, w)
    BY SpacesParts
  <1>2. sc.block \in 1..Len(n) /\ sc.slot \in Nat /\ sc.fields \in Nat
    BY <1>1, SpaceParts DEF ScanOK, Scans
  <1> DEFINE b == n[sc.block]  j == sc.slot + 1
  <1>3. b \in Blocks /\ b \in Range(n) /\ j \in Nat \ {0} /\ DOMAIN n = 1..Len(n)
    BY <1>1, <1>2, SpaceParts
  <1>4. p \in Ptrs /\ p.block = b /\ p.slot = j
    BY <1>3, PtrMade DEF NextIn
  <1>5. Len(m[b]) \in Nat /\ sc.slot < Len(m[b])
    BY <1>1, <1>3, BlockParts
  <1>6. j <= Len(m[b])
    BY <1>2, <1>5
  <1> HIDE DEF j
  <1>7. Lies(m, n, p)
    BY <1>3, <1>4, <1>6 DEF Lies
  <1>8. ~ Lies(m, c, p) /\ ~ Forwarded(Cell(m, p)) /\ Alive(m, c, n, p)
    BY <1>1, <1>4, <1>7, OnePlace DEF CopiesOK, Alive
  <1>9. Cell(m, p) \in Objs /\ WellMade(Cell(m, p), k)
    BY <1>1, <1>4, <1>7, <1>8, CellParts DEF CopiesOK, Lies
  <1>10. ~ Scanned(n, sc, p)
    <2> SUFFICES ASSUME NEW i \in DOMAIN n, n[i] = p.block,
                        i < sc.block \/ (i = sc.block /\ p.slot <= sc.slot)
                 PROVE  FALSE
      BY DEF Scanned
    <2>1. i = sc.block
      BY <1>1, <1>2, <1>3, <1>4 DEF Apart, IsInjective
    <2>2. p.slot <= sc.slot
      BY <1>2, <2>1
    <2> QED BY <1>2, <1>4, <2>2 DEF j
  <1>11. p \notin Range(w)
    BY <1>1, <1>10 DEF WeakOK
  <1>12. \A q \in Ptrs : q.block = b /\ q.slot = j => q = p
    BY <1>4, PtrParts
  <1>13. \A f : Done(n, sc, p, f) <=> f <= sc.fields
    BY <1>4, <1>10 DEF Done, j
  <1>14. \A q \in Ptrs : q # p => \A f : Done(n, sc, q, f) <=> Scanned(n, sc, q)
    BY <1>12 DEF Done, j
  <1> QED BY <1>2, <1>4, <1>7, <1>8, <1>9, <1>10, <1>11, <1>12, <1>13, <1>14 DEF j

(* While the copies are scanned, every root names a copy. *)
LEMMA RootsAreMoved ==
  ASSUME RootsOK, phase \in {"scan", "weak"}, todo = {}, root' = root, todo' = todo,
         phase' \in {"scan", "weak"},
         \A x : Known(memory, new, x) => Known(memory', new', x)
  PROVE  RootsOK'
  BY DEF RootsOK

LEMMA ScavengeFieldInv ==
  ASSUME CollectorInv, ScavengeField
  PROVE  CollectorInv'
  <1> DEFINE p == NextCopy  f == scan.fields + 1  c == Cell(memory, p)  x == c.fields[f]
  <1>1. /\ phase = "scan" /\ new # <<>> /\ scan.slot < Len(memory[new[scan.block]])
        /\ f \in Followed(c)
        /\ UNCHANGED <<current, phase, todo, weak, root, hashState, made>>
        /\ scan' = [scan EXCEPT !.fields = f]
    BY DEF ScavengeField, ObjectThere, Deref, Cell
  <1>2. PICK g \in Scavenge(x) :
          /\ memory' = [g.memory EXCEPT ![p.block][p.slot].fields[f] = g.value]
          /\ new' = g.space
    BY DEF ScavengeField, Deref, Cell
  <1> DEFINE m1 == g.memory  n1 == g.space  v == g.value
  <1>3. memory' = WithField(m1, p, f, v) /\ new' = n1
    BY <1>2 DEF WithField
  <1>4. /\ SpacesOK(memory, current, new, made, scan, weak) /\ RootsOK
        /\ todo = {} /\ hashState = Nil
    BY <1>1 DEF CollectorInv, PhaseOK
  <1>5. p = NextIn(new, scan)
    BY DEF NextCopy, NextIn
  <1> HIDE DEF p
  <1>6. /\ p \in Ptrs /\ p.slot = scan.slot + 1
        /\ Lies(memory, new, p) /\ ~ Lies(memory, current, p)
        /\ c \in Objs /\ WellMade(c, made)
        /\ p \notin Range(weak)
        /\ scan.block \in 1..Len(new) /\ scan.slot \in Nat /\ scan.fields \in Nat
        /\ \A h : Done(new, scan, p, h) <=> h <= scan.fields
    BY <1>1, <1>4, <1>5, ScanPlace
  <1>7. f \in Nat \ {0} /\ ~ (f <= scan.fields)
    BY <1>6
  <1>8. f \in DOMAIN c.fields
    BY <1>1 DEF Followed
  <1> HIDE DEF f
  <1>9. Known(memory, current, x)
    <2>1. FieldsMove(memory, current, new, scan, weak)
      BY <1>4, SpacesParts
    <2> QED BY <1>6, <1>7, <1>8, <2>1 DEF FieldsMove
  <1> HIDE DEF x
  <1>10. /\ SpacesOK(m1, current, n1, made, scan, weak)
         /\ Known(m1, n1, v)
         /\ x = Nil => v = Nil
         /\ \A y : Known(memory, new, y) => Known(m1, n1, y)
         /\ \A q \in Ptrs : Lies(memory, new, q) =>
              Lies(m1, n1, q) /\ Cell(m1, q) = Cell(memory, q)
         /\ \A i \in 1..Len(new) : n1[i] = new[i]
         /\ n1 # <<>>
    BY <1>1, <1>4, <1>9, Scavenged
  <1> HIDE DEF m1, n1, v
  <1>11. Cell(m1, p) = c /\ p = NextIn(n1, scan) /\ Lies(m1, n1, p)
    BY <1>5, <1>6, <1>10 DEF NextIn
  <1> HIDE DEF c
  <1>12. m1 \in Memories /\ n1 \in Seq(Blocks) /\ current \in Seq(Blocks) /\ Apart(current, n1)
         /\ FieldsMove(m1, current, n1, scan, weak)
         /\ ScanOK(m1, n1, scan) /\ WeakOK(m1, n1, scan, weak)
    BY <1>10, SpacesParts
  <1>13. scan.slot < Len(m1[n1[scan.block]])
    <2>1. p.block = n1[scan.block] /\ p.slot <= Len(m1[p.block])
      BY <1>11 DEF Lies, NextIn, At
    <2>2. Len(m1[p.block]) \in Nat
      BY <1>6, <1>12, PtrParts, BlockParts
    <2> QED BY <1>6, <2>1, <2>2
  <1>14. /\ Alive(m1, current, n1, p) /\ ~ Lies(m1, current, p) /\ ~ Forwarded(c)
         /\ ~ Scanned(n1, scan, p)
         /\ \A h : Done(n1, scan, p, h) <=> h <= scan.fields
         /\ \A q \in Ptrs : q # p => \A h : Done(n1, scan, q, h) <=> Scanned(n1, scan, q)
         /\ \A q \in Ptrs : q.block = n1[scan.block] /\ q.slot = scan.slot + 1 => q = p
    BY <1>10, <1>11, <1>13, ScanPlace
  <1>15. v \in Values
    BY <1>10 DEF Known, Values
  <1>16. PICK o \in Objs :
           /\ WithField(m1, p, f, v) = Put(m1, p, o)
           /\ o.id = Cell(m1, p).id /\ o.kind = Cell(m1, p).kind /\ o.ok = Cell(m1, p).ok
           /\ DOMAIN o.fields = DOMAIN Cell(m1, p).fields
           /\ Len(o.fields) = Len(Cell(m1, p).fields)
           /\ o.fields[f] = v
           /\ \A h \in DOMAIN Cell(m1, p).fields : h # f => o.fields[h] = Cell(m1, p).fields[h]
    <2>1. p.slot <= Len(m1[p.block]) /\ ~ Forwarded(Cell(m1, p)) /\ f \in DOMAIN Cell(m1, p).fields
      BY <1>8, <1>11, <1>14 DEF Lies
    <2> QED BY <1>6, <1>12, <1>15, <2>1, PutField
  <1> DEFINE m2 == Put(m1, p, o)  s2 == scan'
  <1>17. o \in Cells /\ p.slot <= Len(m1[p.block])
    BY <1>11, ObjParts DEF Lies
  <1>18. /\ m2 \in Memories
         /\ \A b \in Blocks : Len(m2[b]) = Len(m1[b])
         /\ Cell(m2, p) = o
         /\ \A q \in Ptrs : q # p => Cell(m2, q) = Cell(m1, q)
         /\ \A q \in Ptrs : Lies(m2, n1, q) <=> Lies(m1, n1, q)
         /\ \A y : Known(m2, n1, y) <=> Known(m1, n1, y)
         /\ \A y : Known(m2, current, y) <=> Known(m1, current, y)
    BY <1>6, <1>12, <1>17, PutCell
  <1>19. s2.block = scan.block /\ s2.slot = scan.slot /\ s2.fields = f /\ s2 \in Scans
         /\ scan.fields \in Nat
    BY <1>1, <1>7, <1>12 DEF ScanOK, Scans
  <1> HIDE DEF m2, s2
  <1>20. \A q : Scanned(n1, s2, q) <=> Scanned(n1, scan, q)
    BY <1>19 DEF Scanned
  <1>21. FieldsMove(m2, current, n1, s2, weak)
    <2> SUFFICES ASSUME NEW q \in Ptrs, Lies(m2, n1, q), NEW h \in DOMAIN Cell(m2, q).fields
                 PROVE  IF q \in Range(weak) \/ ~ Done(n1, s2, q, h)
                          THEN Known(m2, current, Cell(m2, q).fields[h])
                          ELSE Known(m2, n1, Cell(m2, q).fields[h])
      BY DEF FieldsMove
    <2>1. CASE q # p
      <3>1. Done(n1, s2, q, h) <=> Done(n1, scan, q, h)
        BY <1>14, <1>19, <1>20, <2>1 DEF Done
      <3> QED BY <1>12, <1>18, <2>1, <3>1 DEF FieldsMove
    <2>2. CASE q = p
      <3>1. h \in DOMAIN c.fields /\ h \in Nat
        BY <1>6, <1>11, <1>16, <1>18, <2>2, ObjParts
      <3>2. Done(n1, s2, p, h) <=> h <= f
        <4>1. p.block = n1[s2.block] /\ p.slot = s2.slot + 1
          BY <1>6, <1>11, <1>19, PtrMade DEF NextIn, At
        <4> QED BY <1>14, <1>19, <1>20, <4>1 DEF Done
      <3>3. CASE h = f
        <4>1. Known(m2, n1, o.fields[h])
          BY <1>10, <1>16, <1>18, <3>3
        <4>2. Done(n1, s2, p, h)
          BY <1>7, <3>2, <3>3
        <4> QED BY <1>6, <1>18, <2>2, <4>1, <4>2
      <3>4. CASE h # f
        <4>1. Done(n1, s2, p, h) <=> Done(n1, scan, p, h)
          <5>1. h <= f <=> h <= scan.fields
            BY <1>19, <3>1, <3>4 DEF f
          <5> QED BY <1>14, <3>2, <5>1
        <4>2. o.fields[h] = c.fields[h]
          BY <1>11, <1>16, <3>1, <3>4
        <4>3. IF p \in Range(weak) \/ ~ Done(n1, scan, p, h)
                THEN Known(m1, current, c.fields[h])
                ELSE Known(m1, n1, c.fields[h])
          BY <1>6, <1>11, <1>12, <3>1 DEF FieldsMove
        <4> QED BY <1>18, <2>2, <4>1, <4>2, <4>3
      <3> QED BY <3>3, <3>4
    <2> QED BY <2>1, <2>2
  <1>22. ScanOK(m2, n1, s2)
    <2>1. n1[scan.block] \in Blocks
      BY <1>6, <1>11, PtrParts DEF NextIn, At
    <2>2. Len(m2[n1[s2.block]]) = Len(m1[n1[scan.block]])
      BY <1>18, <1>19, <2>1
    <2>3. NextIn(n1, s2) = p
      BY <1>11, <1>19 DEF NextIn
    <2>4. f \in Followed(o)
      <3>1. c.kind = "weak" => f = 1
        BY <1>6, <1>8, ObjParts DEF WellMade
      <3>2. c.kind = "weak" /\ c.ok /\ IsPtr(o.fields[1]) => IsPtr(c.fields[1])
        <4>1. c.kind = "weak" => o.fields[1] = v /\ x = c.fields[1]
          BY <1>16, <3>1 DEF x
        <4> QED BY <1>10, <4>1 DEF IsPtr
      <3>3. ~ (c.kind = "weak" /\ c.ok /\ IsPtr(c.fields[1]))
        BY <1>1 DEF Followed
      <3> QED BY <1>8, <1>11, <1>16, <3>2, <3>3 DEF Followed
    <2> QED BY <1>10, <1>12, <1>13, <1>18, <1>19, <2>2, <2>3, <2>4 DEF ScanOK
  <1>23. WeakOK(m2, n1, s2, weak)
    <2>1. weak \in Seq(Ptrs) /\ Range(weak) \subseteq Ptrs
      BY <1>12 DEF WeakOK, Range
    <2>2. \A q \in Range(weak) : q # p
      BY <1>6
    <2> QED BY <1>12, <1>18, <1>20, <2>1, <2>2 DEF WeakOK
  <1>24. SpacesOK(m2, current, n1, made, s2, weak)
    <2>1. FieldsMove(Put(m1, p, o), current, n1, s2, weak)
          /\ ScanOK(Put(m1, p, o), n1, s2) /\ WeakOK(Put(m1, p, o), n1, s2, weak)
      BY <1>21, <1>22, <1>23 DEF m2
    <2>2. SpacesOK(Put(m1, p, o), current, n1, made, s2, weak)
      BY <1>6, <1>10, <1>14, <1>16, <2>1, ObjectWritten
    <2> QED BY <2>2 DEF m2
  <1>25. SpacesOK(memory', current', new', made', scan', weak')
    BY <1>1, <1>3, <1>16, <1>24 DEF m2, s2
  <1>26. memory' = m2 /\ new' = n1
    BY <1>3, <1>16 DEF m2
  <1>27. RootsOK'
    BY <1>1, <1>4, <1>10, <1>18, <1>26, RootsAreMoved
  <1>28. PhaseOK'
    BY <1>1, <1>4 DEF PhaseOK, Known
  <1> QED BY <1>25, <1>27, <1>28 DEF CollectorInv

(* An object is passed: what is unscanned of it is the object of a weak pointer. *)
LEMMA ScavengedObjectInv ==
  ASSUME CollectorInv, ScavengedObject
  PROVE  CollectorInv'
  <1> DEFINE p == NextCopy  c == Cell(memory, p)  kept == c.kind = "weak" /\ Followed(c) = {}
             s2 == scan'
  <1>1. /\ phase = "scan" /\ new # <<>> /\ scan.slot < Len(memory[new[scan.block]])
        /\ scan.fields + 1 \notin Followed(c)
        /\ UNCHANGED <<memory, current, new, phase, todo, root, hashState, made>>
        /\ scan' = [scan EXCEPT !.slot = @ + 1, !.fields = 0]
        /\ weak' = IF kept THEN <<p>> \o weak ELSE weak
    BY DEF ScavengedObject, ObjectThere, Deref, Cell, spaceVars
  <1>2. /\ SpacesOK(memory, current, new, made, scan, weak) /\ RootsOK
        /\ todo = {} /\ hashState = Nil
    BY <1>1 DEF CollectorInv, PhaseOK
  <1>3. p = NextIn(new, scan)
    BY DEF NextCopy, NextIn
  <1> HIDE DEF p
  <1>4. /\ p \in Ptrs /\ p.block = new[scan.block] /\ p.slot = scan.slot + 1
        /\ Lies(memory, new, p)
        /\ c \in Objs /\ WellMade(c, made)
        /\ ~ Scanned(new, scan, p) /\ p \notin Range(weak)
        /\ scan.block \in 1..Len(new) /\ scan.slot \in Nat /\ scan.fields \in Nat
        /\ \A q \in Ptrs : q.block = new[scan.block] /\ q.slot = scan.slot + 1 => q = p
        /\ \A h : Done(new, scan, p, h) <=> h <= scan.fields
        /\ \A q \in Ptrs : q # p => \A h : Done(new, scan, q, h) <=> Scanned(new, scan, q)
    BY <1>1, <1>2, <1>3, ScanPlace
  <1>5. memory \in Memories /\ new \in Seq(Blocks) /\ Apart(current, new)
        /\ CopiesOK(memory, current, new, made) /\ FieldsStay(memory, current)
        /\ FieldsMove(memory, current, new, scan, weak) /\ made \in Nat
        /\ ScanOK(memory, new, scan) /\ WeakOK(memory, new, scan, weak)
    BY <1>2, SpacesParts
  <1>6. s2.block = scan.block /\ s2.slot = scan.slot + 1 /\ s2.fields = 0 /\ s2 \in Scans
    <2> DEFINE t == [scan EXCEPT !.slot = @ + 1]
    <2>1. scan \in Scans
      BY <1>5 DEF ScanOK
    <2>2. s2 = [t EXCEPT !.fields = 0]
      BY <1>1
    <2>3. t \in Scans /\ t.block = scan.block /\ t.slot = scan.slot + 1
      BY <2>1 DEF Scans
    <2> HIDE DEF t, s2
    <2> QED BY <2>2, <2>3 DEF Scans
  <1>7. DOMAIN new = 1..Len(new) /\ Len(new) \in Nat
    BY <1>5, SpaceParts
  <1> HIDE DEF c, kept, s2
  <1>8. ASSUME NEW q \in Ptrs
        PROVE  Scanned(new, s2, q) <=> Scanned(new, scan, q) \/ q = p
    <2>1. q.slot \in Nat
      BY PtrParts
    <2>2. q.slot <= s2.slot <=> q.slot <= scan.slot \/ q.slot = scan.slot + 1
      BY <1>4, <1>6, <2>1
    <2>3. scan.block \in DOMAIN new
      BY <1>4, <1>7
    <2>4. ASSUME Scanned(new, s2, q) PROVE Scanned(new, scan, q) \/ q = p
      <3>1. PICK i \in DOMAIN new : new[i] = q.block
                   /\ (i < scan.block \/ (i = scan.block /\ q.slot <= s2.slot))
        BY <1>6, <2>4 DEF Scanned
      <3>2. CASE i < scan.block \/ (i = scan.block /\ q.slot <= scan.slot)
        BY <3>1, <3>2 DEF Scanned
      <3>3. CASE i = scan.block /\ q.slot = scan.slot + 1
        BY <1>4, <3>1, <3>3
      <3> QED BY <2>2, <3>1, <3>2, <3>3
    <2>5. ASSUME Scanned(new, scan, q) PROVE Scanned(new, s2, q)
      BY <1>6, <2>2, <2>5 DEF Scanned
    <2>6. Scanned(new, s2, p)
      <3>1. p.slot <= s2.slot
        BY <1>4, <1>6
      <3> QED BY <1>4, <1>6, <2>3, <3>1 DEF Scanned
    <2> QED BY <2>4, <2>5, <2>6
  <1>9. ASSUME NEW q \in Ptrs, NEW h \in Nat \ {0}
        PROVE  Done(new, s2, q, h) <=> Scanned(new, scan, q) \/ q = p
    <2>1. ~ (h <= s2.fields)
      BY <1>6
    <2> QED BY <1>8, <2>1 DEF Done
  <1>10. /\ weak' \in Seq(Ptrs) /\ IsInjective(weak')
         /\ \A q : q \in Range(weak') <=> q \in Range(weak) \/ (kept /\ q = p)
    <2>1. weak \in Seq(Ptrs) /\ IsQueue(weak)
      BY <1>5 DEF WeakOK, IsQueue
    <2>2. CASE kept
      <3>1. <<p>> \in Seq(Ptrs) /\ IsQueue(<<p>>) /\ Range(<<p>>) = {p}
        BY <1>4 DEF IsQueue, IsInjective, Range
      <3>2. Range(<<p>>) \cap Range(weak) = {}
        BY <1>4, <3>1
      <3> DEFINE a == <<p>>
      <3>a. a \in Seq(Ptrs) /\ IsQueue(a) /\ Range(a) \cap Range(weak) = {}
        BY <3>1, <3>2
      <3> HIDE DEF a
      <3>3. a \o weak \in Seq(Ptrs) /\ IsQueue(a \o weak)
            /\ Range(a \o weak) = Range(a) \cup Range(weak)
        BY <2>1, <3>a, JoinQueues
      <3>4. weak' = a \o weak
        BY <1>1, <2>2 DEF a
      <3>5. Range(a) = {p}
        BY <3>1 DEF a
      <3> QED BY <2>2, <3>3, <3>4, <3>5 DEF IsQueue
    <2>3. CASE ~ kept
      BY <1>1, <2>1, <2>3 DEF IsQueue
    <2> QED BY <2>2, <2>3
  <1>11. kept => c.fields[1] # Nil /\ scan.fields = 0
    <2> SUFFICES ASSUME kept PROVE c.fields[1] # Nil /\ scan.fields = 0
      OBVIOUS
    <2>1. c.kind = "weak" /\ Followed(c) = {}
      BY DEF kept
    <2>2. 1 \in DOMAIN c.fields
      BY <1>4, <2>1, ObjParts DEF WellMade
    <2>3. c.fields[1] # Nil
      BY <2>1, <2>2 DEF Followed, IsPtr
    <2>4. scan.fields = 0
      BY <1>3, <1>5, <2>1 DEF ScanOK, c
    <2> QED BY <2>3, <2>4
  <1>12. ~ kept => \A h \in DOMAIN c.fields : h <= scan.fields
    <2> SUFFICES ASSUME ~ kept, NEW h \in DOMAIN c.fields PROVE h <= scan.fields
      OBVIOUS
    <2>1. Followed(c) = DOMAIN c.fields
      BY DEF kept, Followed
    <2>2. DOMAIN c.fields = 1..Len(c.fields) /\ Len(c.fields) \in Nat
      BY <1>4, ObjParts
    <2> QED BY <1>1, <1>4, <2>1, <2>2 DEF c
  <1>13. FieldsMove(memory, current, new, s2, weak')
    <2> SUFFICES ASSUME NEW q \in Ptrs, Lies(memory, new, q), NEW h \in DOMAIN Cell(memory, q).fields
                 PROVE  IF q \in Range(weak') \/ ~ Done(new, s2, q, h)
                          THEN Known(memory, current, Cell(memory, q).fields[h])
                          ELSE Known(memory, new, Cell(memory, q).fields[h])
      BY DEF FieldsMove
    <2>1. IF q \in Range(weak) \/ ~ Done(new, scan, q, h)
            THEN Known(memory, current, Cell(memory, q).fields[h])
            ELSE Known(memory, new, Cell(memory, q).fields[h])
      BY <1>5 DEF FieldsMove
    <2>2. h \in Nat \ {0}
      <3>1. Cell(memory, q) \in Objs
        BY <1>5, CellParts DEF CopiesOK, Lies
      <3> QED BY <3>1, ObjParts
    <2>3. CASE q # p
      BY <1>4, <1>9, <1>10, <2>1, <2>2, <2>3
    <2>4. CASE q = p /\ kept
      <3>1. ~ Done(new, scan, p, h)
        BY <1>4, <1>11, <2>2, <2>4
      <3> QED BY <1>10, <2>1, <2>4, <3>1
    <2>5. CASE q = p /\ ~ kept
      <3>1. Done(new, scan, p, h) /\ Done(new, s2, p, h)
        BY <1>4, <1>9, <1>12, <2>2, <2>5 DEF c
      <3> QED BY <1>4, <1>10, <2>1, <2>5, <3>1
    <2> QED BY <2>3, <2>4, <2>5
  <1>14. ScanOK(memory, new, s2)
    <2>1. Len(memory[new[scan.block]]) \in Nat
      BY <1>4, <1>5, PtrParts, BlockParts
    <2>2. s2.slot <= Len(memory[new[s2.block]])
      BY <1>1, <1>4, <1>6, <2>1
    <2> QED BY <1>1, <1>4, <1>6, <1>7, <2>2 DEF ScanOK
  <1>15. WeakOK(memory, new, s2, weak')
    <2>1. ASSUME NEW q \in Range(weak')
          PROVE  /\ Lies(memory, new, q) /\ Scanned(new, s2, q)
                 /\ Cell(memory, q).kind = "weak" /\ Cell(memory, q).fields[1] # Nil
      <3>1. CASE q \in Range(weak)
        <4>1. q \in Ptrs
          BY <1>5, <3>1 DEF WeakOK, Range
        <4> QED BY <1>5, <1>8, <3>1, <4>1 DEF WeakOK
      <3>2. CASE kept /\ q = p
        BY <1>4, <1>8, <1>11, <3>2 DEF kept, c
      <3> QED BY <1>10, <3>1, <3>2
    <2> QED BY <1>10, <2>1 DEF WeakOK
  <1>16. SpacesOK(memory', current', new', made', scan', weak')
    BY <1>1, <1>5, <1>13, <1>14, <1>15 DEF SpacesOK, s2
  <1>17. RootsOK'
    BY <1>1, <1>2, RootsAreMoved
  <1>18. PhaseOK'
    BY <1>1, <1>2 DEF PhaseOK, Known
  <1> QED BY <1>16, <1>17, <1>18 DEF CollectorInv

LEMMA ScavengedBlockInv ==
  ASSUME CollectorInv, ScavengedBlock
  PROVE  CollectorInv'
  <1>1. /\ phase = "scan" /\ ~ ObjectThere
        /\ UNCHANGED <<memory, current, new, todo, weak, root, hashState, made>>
        /\ IF scan.block < Len(new)
             THEN scan' = [block |-> scan.block + 1, slot |-> 0, fields |-> 0] /\ phase' = phase
             ELSE phase' = "weak" /\ scan' = scan
    BY DEF ScavengedBlock, spaceVars
  <1>2. /\ SpacesOK(memory, current, new, made, scan, weak) /\ RootsOK
        /\ todo = {} /\ hashState = Nil
    BY <1>1 DEF CollectorInv, PhaseOK
  <1>3. memory \in Memories /\ new \in Seq(Blocks) /\ Apart(current, new)
        /\ CopiesOK(memory, current, new, made) /\ FieldsStay(memory, current)
        /\ FieldsMove(memory, current, new, scan, weak) /\ made \in Nat
        /\ ScanOK(memory, new, scan) /\ WeakOK(memory, new, scan, weak)
    BY <1>2, SpacesParts
  <1>4. /\ DOMAIN new = 1..Len(new) /\ Len(new) \in Nat /\ (new = <<>> <=> Len(new) = 0)
        /\ scan.block \in Nat \ {0} /\ scan.slot \in Nat /\ scan.fields \in Nat
    BY <1>3, SpaceParts DEF ScanOK, Scans
  <1>5. new # <<>> => /\ scan.block \in 1..Len(new)
                      /\ scan.slot = Len(memory[new[scan.block]]) /\ scan.fields = 0
    <2> SUFFICES ASSUME new # <<>>
                 PROVE  /\ scan.block \in 1..Len(new)
                        /\ scan.slot = Len(memory[new[scan.block]]) /\ scan.fields = 0
      OBVIOUS
    <2>1. scan.block \in 1..Len(new)
      BY <1>3, <1>4 DEF ScanOK
    <2>2. Len(memory[new[scan.block]]) \in Nat
      BY <1>3, <2>1, SpaceParts, BlockParts
    <2>3. scan.slot <= Len(memory[new[scan.block]]) /\ ~ (scan.slot < Len(memory[new[scan.block]]))
      BY <1>1, <1>3 DEF ScanOK, ObjectThere
    <2>4. scan.fields = 0
      BY <1>3, <2>3 DEF ScanOK
    <2> QED BY <1>4, <2>1, <2>2, <2>3, <2>4
  <1>6. ASSUME NEW p \in Ptrs, Lies(memory, new, p)
        PROVE  /\ new # <<>>
               /\ Scanned(new, scan, p) <=>
                    \E i \in DOMAIN new : new[i] = p.block /\ i <= scan.block
               /\ \A h \in Nat \ {0} : Done(new, scan, p, h) <=> Scanned(new, scan, p)
    <2>1. new # <<>>
      BY <1>3, <1>4, <1>6, SpaceParts DEF Lies
    <2>2. p.slot \in Nat /\ p.slot <= Len(memory[p.block])
      BY <1>6, PtrParts DEF Lies
    <2>3. \A i \in DOMAIN new : new[i] = p.block =>
            (i <= scan.block <=> (i < scan.block \/ (i = scan.block /\ p.slot <= scan.slot)))
      <3> SUFFICES ASSUME NEW i \in 1..Len(new), new[i] = p.block
                   PROVE  i <= scan.block <=>
                            (i < scan.block \/ (i = scan.block /\ p.slot <= scan.slot))
        BY <1>4
      <3>1. i = scan.block => p.slot <= scan.slot
        BY <1>5, <2>1, <2>2
      <3> QED BY <1>4, <3>1
    <2>4. \A h \in Nat \ {0} : ~ (h <= scan.fields)
      BY <1>5, <2>1
    <2> QED BY <2>1, <2>3, <2>4 DEF Scanned, Done
  <1>7. CASE scan.block < Len(new)
    <2> DEFINE s2 == scan'
    <2>1. s2.block = scan.block + 1 /\ s2.slot = 0 /\ s2.fields = 0 /\ s2 \in Scans
          /\ phase' = phase /\ new # <<>>
      BY <1>1, <1>4, <1>7 DEF Scans
    <2> HIDE DEF s2
    <2>2. ASSUME NEW p \in Ptrs, Lies(memory, new, p)
          PROVE  /\ Scanned(new, s2, p) <=> Scanned(new, scan, p)
                 /\ \A h \in Nat \ {0} : Done(new, s2, p, h) <=> Done(new, scan, p, h)
      <3>1. p.slot \in Nat \ {0}
        BY PtrParts
      <3>2. Scanned(new, s2, p) <=>
              \E i \in DOMAIN new : new[i] = p.block /\ i <= scan.block
        <4>1. \A i \in DOMAIN new : i <= scan.block <=>
                (i < s2.block \/ (i = s2.block /\ p.slot <= s2.slot))
          BY <1>4, <2>1, <3>1
        <4> QED BY <4>1 DEF Scanned
      <3>3. Scanned(new, s2, p) <=> Scanned(new, scan, p)
        BY <1>6, <2>2, <3>2
      <3>4. \A h \in Nat \ {0} : ~ (h <= s2.fields)
        BY <2>1
      <3>5. \A h \in Nat \ {0} : Done(new, s2, p, h) <=> Scanned(new, s2, p)
        BY <3>4 DEF Done
      <3> QED BY <1>6, <2>2, <3>3, <3>5
    <2>3. FieldsMove(memory, current, new, s2, weak)
      <3> SUFFICES ASSUME NEW q \in Ptrs, Lies(memory, new, q),
                          NEW h \in DOMAIN Cell(memory, q).fields
                   PROVE  IF q \in Range(weak) \/ ~ Done(new, s2, q, h)
                            THEN Known(memory, current, Cell(memory, q).fields[h])
                            ELSE Known(memory, new, Cell(memory, q).fields[h])
        BY DEF FieldsMove
      <3>1. Cell(memory, q) \in Objs
        BY <1>3, CellParts DEF CopiesOK, Lies
      <3>2. h \in Nat \ {0}
        BY <3>1, ObjParts
      <3> QED BY <1>3, <2>2, <3>2 DEF FieldsMove
    <2>4. ScanOK(memory, new, s2)
      <3>1. s2.block \in 1..Len(new)
        BY <1>4, <1>7, <2>1
      <3>2. Len(memory[new[s2.block]]) \in Nat
        BY <1>3, <3>1, SpaceParts, BlockParts
      <3>3. s2.block <= Len(new) /\ s2.slot <= Len(memory[new[s2.block]])
        BY <1>4, <2>1, <3>1, <3>2
      <3> QED BY <2>1, <3>3 DEF ScanOK
    <2>5. WeakOK(memory, new, s2, weak)
      <3>1. Range(weak) \subseteq Ptrs
        BY <1>3 DEF WeakOK, Range
      <3> QED BY <1>3, <2>2, <3>1 DEF WeakOK
    <2>6. SpacesOK(memory', current', new', made', scan', weak')
      BY <1>1, <1>3, <2>3, <2>4, <2>5 DEF SpacesOK, s2
    <2>7. RootsOK'
      BY <1>1, <1>2, <2>1, RootsAreMoved
    <2>8. PhaseOK'
      BY <1>1, <1>2, <2>1 DEF PhaseOK, Known
    <2> QED BY <2>6, <2>7, <2>8 DEF CollectorInv
  <1>8. CASE ~ (scan.block < Len(new))
    <2>1. phase' = "weak" /\ scan' = scan
      BY <1>1, <1>8
    <2>2. ASSUME NEW p \in Ptrs, Lies(memory, new, p) PROVE Scanned(new, scan, p)
      <3>1. PICK i \in DOMAIN new : new[i] = p.block
        BY <2>2 DEF Lies, Range
      <3>2. i <= scan.block
        BY <1>4, <1>8
      <3> QED BY <1>6, <2>2, <3>1, <3>2
    <2>3. SpacesOK(memory', current', new', made', scan', weak')
      BY <1>1, <1>2, <2>1
    <2>4. RootsOK'
      BY <1>1, <1>2, <2>1, RootsAreMoved
    <2>5. PhaseOK'
      BY <1>1, <1>2, <2>1, <2>2 DEF PhaseOK, Known
    <2> QED BY <2>3, <2>4, <2>5 DEF CollectorInv
  <1> QED BY <1>7, <1>8

(* A weak pointer names the copy of its object, or nothing. *)
(* The first weak pointer of the list, and what becomes of it. *)
LEMMA WeakPointerWritten ==
  ASSUME CollectorInv, BreakWeakPointer,
         NEW a, a = Head(weak), NEW x, x = Cell(memory, a).fields[1]
  PROVE  /\ phase = "weak" /\ weak' = Tail(weak)
         /\ UNCHANGED <<current, new, phase, todo, scan, root, hashState, made, before>>
         /\ SpacesOK(memory, current, new, made, scan, weak)
         /\ a \in Range(weak) /\ a \in Ptrs
         /\ weak' \in Seq(Ptrs) /\ IsInjective(weak') /\ Range(weak') = Range(weak) \ {a}
         /\ Lies(memory, new, a) /\ Scanned(new, scan, a) /\ Cell(memory, a).kind = "weak"
         /\ ~ Lies(memory, current, a) /\ Alive(memory, current, new, a)
         /\ a.slot <= Len(memory[a.block])
         /\ Cell(memory, a) \in Objs
         /\ x \in Ptrs /\ Lies(memory, current, x)
         /\ Forwarded(Cell(memory, x)) =>
              Cell(memory, x).to \in Ptrs /\ Lies(memory, new, Cell(memory, x).to)
         /\ \E o \in Objs :
              /\ memory' = Put(memory, a, o)
              /\ o.id = Cell(memory, a).id /\ o.kind = Cell(memory, a).kind
              /\ DOMAIN Cell(memory, a).fields = {1} /\ DOMAIN o.fields = {1}
              /\ Len(o.fields) = Len(Cell(memory, a).fields)
              /\ IF Forwarded(Cell(memory, x))
                   THEN o.ok = Cell(memory, a).ok /\ o.fields[1] = Cell(memory, x).to
                   ELSE o.ok = FALSE /\ o.fields[1] = Nil
  <1> DEFINE c == Cell(memory, a)  w2 == weak'
  <1>1. /\ phase = "weak" /\ weak # <<>> /\ w2 = Tail(weak)
        /\ UNCHANGED <<current, new, phase, todo, scan, root, hashState, made, before>>
    BY DEF BreakWeakPointer
  <1>2. memory' = IF Forwarded(Cell(memory, x))
                    THEN [memory EXCEPT ![a.block][a.slot].fields[1] = Cell(memory, x).to]
                    ELSE [memory EXCEPT ![a.block][a.slot].fields[1] = Nil,
                                        ![a.block][a.slot].ok = FALSE]
    BY DEF BreakWeakPointer, Deref, Cell
  <1>3. SpacesOK(memory, current, new, made, scan, weak)
    BY DEF CollectorInv
  <1>4. memory \in Memories /\ new \in Seq(Blocks) /\ current \in Seq(Blocks)
        /\ Apart(current, new)
        /\ CopiesOK(memory, current, new, made) /\ FieldsStay(memory, current)
        /\ FieldsMove(memory, current, new, scan, weak)
        /\ WeakOK(memory, new, scan, weak)
    BY <1>3, SpacesParts
  <1>5. /\ a \in Range(weak) /\ a \in Ptrs
        /\ w2 \in Seq(Ptrs) /\ IsInjective(w2) /\ Range(w2) = Range(weak) \ {a}
    <2>1. weak \in Seq(Ptrs) /\ IsQueue(weak)
      BY <1>4 DEF WeakOK, IsQueue
    <2> QED BY <1>1, <2>1, TailQueue DEF IsQueue
  <1> HIDE DEF w2
  <1>6. Lies(memory, new, a) /\ Scanned(new, scan, a) /\ c.kind = "weak" /\ x # Nil
    BY <1>4, <1>5 DEF WeakOK
  <1>7. ~ Lies(memory, current, a) /\ ~ Forwarded(c) /\ Alive(memory, current, new, a)
    BY <1>4, <1>5, <1>6, OnePlace DEF CopiesOK, Alive
  <1>8. c \in Objs /\ WellMade(c, made) /\ a.slot <= Len(memory[a.block])
    BY <1>4, <1>5, <1>6, <1>7, CellParts DEF CopiesOK, Lies
  <1>9. DOMAIN c.fields = {1}
    BY <1>6, <1>8, ObjParts DEF WellMade
  <1>10. x \in Ptrs /\ Lies(memory, current, x)
    <2>1. Known(memory, current, x)
      BY <1>4, <1>5, <1>6, <1>9 DEF FieldsMove
    <2> QED BY <1>6, <2>1 DEF Known
  <1>11. Forwarded(Cell(memory, x)) =>
           Cell(memory, x).to \in Ptrs /\ Lies(memory, new, Cell(memory, x).to)
    BY <1>4, <1>10, CellParts DEF CopiesOK, Lies
  <1> HIDE DEF c
  <1>12. ASSUME NEW y \in Values
         PROVE  \E o \in Objs :
                  /\ WithField(memory, a, 1, y) = Put(memory, a, o)
                  /\ o.id = c.id /\ o.kind = c.kind /\ o.ok = c.ok
                  /\ DOMAIN o.fields = {1} /\ Len(o.fields) = Len(c.fields)
                  /\ o.fields[1] = y
    <2>1. 1 \in DOMAIN Cell(memory, a).fields /\ ~ Forwarded(Cell(memory, a))
      BY <1>7, <1>9 DEF c
    <2>2. PICK o \in Objs :
            /\ WithField(memory, a, 1, y) = Put(memory, a, o)
            /\ o.id = Cell(memory, a).id /\ o.kind = Cell(memory, a).kind
            /\ o.ok = Cell(memory, a).ok
            /\ DOMAIN o.fields = DOMAIN Cell(memory, a).fields
            /\ Len(o.fields) = Len(Cell(memory, a).fields)
            /\ o.fields[1] = y
      BY <1>4, <1>5, <1>8, <2>1, PutField
    <2> QED BY <1>9, <2>2 DEF c
  <1>13. \E o \in Objs :
           /\ memory' = Put(memory, a, o)
           /\ o.id = c.id /\ o.kind = c.kind
           /\ DOMAIN c.fields = {1} /\ DOMAIN o.fields = {1} /\ Len(o.fields) = Len(c.fields)
           /\ IF Forwarded(Cell(memory, x))
                THEN o.ok = c.ok /\ o.fields[1] = Cell(memory, x).to
                ELSE o.ok = FALSE /\ o.fields[1] = Nil
    <2>1. CASE Forwarded(Cell(memory, x))
      <3> DEFINE y == Cell(memory, x).to
      <3>1. y \in Values
        BY <1>11, <2>1 DEF Values
      <3>2. memory' = WithField(memory, a, 1, y)
        BY <1>2, <2>1 DEF WithField
      <3> HIDE DEF y
      <3>3. PICK o \in Objs :
              /\ WithField(memory, a, 1, y) = Put(memory, a, o)
              /\ o.id = c.id /\ o.kind = c.kind /\ o.ok = c.ok
              /\ DOMAIN o.fields = {1} /\ Len(o.fields) = Len(c.fields)
              /\ o.fields[1] = y
        BY <1>12, <3>1
      <3> QED BY <1>9, <2>1, <3>2, <3>3 DEF y
    <2>2. CASE ~ Forwarded(Cell(memory, x))
      <3> DEFINE m1 == WithField(memory, a, 1, Nil)
      <3>1. memory' = [m1 EXCEPT ![a.block][a.slot].ok = FALSE]
        BY <1>2, <2>2 DEF WithField
      <3>2. PICK o \in Objs :
              /\ m1 = Put(memory, a, o)
              /\ o.id = c.id /\ o.kind = c.kind /\ o.ok = c.ok
              /\ DOMAIN o.fields = {1} /\ Len(o.fields) = Len(c.fields)
              /\ o.fields[1] = Nil
        BY <1>12 DEF Values
      <3> HIDE DEF m1
      <3> DEFINE o2 == [o EXCEPT !.ok = FALSE]
      <3>3. /\ o2 \in Objs /\ o2.id = o.id /\ o2.kind = o.kind /\ o2.fields = o.fields
            /\ o2.ok = FALSE
        BY DEF Objs
      <3>4. Cell(m1, a) = o
        <4>1. o \in Cells
          BY ObjParts
        <4> QED BY SMTT(60), <1>4, <1>5, <1>8, <3>2, <4>1, PutCell
      <3>5. memory' = Put(m1, a, o2)
        <4>1. memory' = Put(m1, a, [Cell(m1, a) EXCEPT !.ok = FALSE])
          BY <3>1 DEF Put, Cell
        <4> QED BY <3>4, <4>1
      <3> HIDE DEF o2
      <3>6. memory' = Put(memory, a, o2)
        <4>1. a.block \in Blocks /\ DOMAIN memory = Blocks
          BY <1>4, <1>5, PtrParts DEF Memories
        <4> QED BY <3>2, <3>5, <4>1 DEF Put
      <3> QED BY <1>9, <2>2, <3>2, <3>3, <3>6
    <2> QED BY <2>1, <2>2
  <1>14. weak' = w2
    BY DEF w2
  <1> QED BY <1>1, <1>3, <1>5, <1>6, <1>7, <1>8, <1>10, <1>11, <1>13, <1>14 DEF c

LEMMA BreakWeakPointerInv ==
  ASSUME CollectorInv, BreakWeakPointer
  PROVE  CollectorInv'
  <1> DEFINE a == Head(weak)  c == Cell(memory, a)  x == c.fields[1]  w2 == weak'
  <1>1. /\ phase = "weak"
        /\ UNCHANGED <<current, new, phase, todo, scan, root, hashState, made>>
    BY WeakPointerWritten
  <1>2. /\ a \in Range(weak) /\ a \in Ptrs
        /\ w2 \in Seq(Ptrs) /\ IsInjective(w2) /\ Range(w2) = Range(weak) \ {a}
        /\ Lies(memory, new, a) /\ Scanned(new, scan, a)
        /\ ~ Lies(memory, current, a) /\ Alive(memory, current, new, a)
        /\ a.slot <= Len(memory[a.block])
    BY WeakPointerWritten
  <1>3. PICK o \in Objs :
          /\ memory' = Put(memory, a, o)
          /\ o.id = c.id /\ o.kind = c.kind
          /\ DOMAIN o.fields = {1} /\ Len(o.fields) = Len(c.fields)
          /\ Known(memory, new, o.fields[1])
    <2>1. PICK o \in Objs :
            /\ memory' = Put(memory, a, o)
            /\ o.id = c.id /\ o.kind = c.kind
            /\ DOMAIN c.fields = {1} /\ DOMAIN o.fields = {1}
            /\ Len(o.fields) = Len(c.fields)
            /\ IF Forwarded(Cell(memory, x)) THEN o.ok = c.ok /\ o.fields[1] = Cell(memory, x).to
                                             ELSE o.ok = FALSE /\ o.fields[1] = Nil
      BY WeakPointerWritten
    <2>2. Forwarded(Cell(memory, x)) =>
            Cell(memory, x).to \in Ptrs /\ Lies(memory, new, Cell(memory, x).to)
      BY WeakPointerWritten
    <2> HIDE DEF a, x
    <2>3. Known(memory, new, o.fields[1])
      BY <2>1, <2>2 DEF Known
    <2> QED BY <2>1, <2>3
  <1> HIDE DEF a, c, x, w2
  <1>4. /\ SpacesOK(memory, current, new, made, scan, weak) /\ RootsOK
        /\ todo = {} /\ hashState = Nil
        /\ \A p \in Ptrs : Lies(memory, new, p) => Scanned(new, scan, p)
    BY <1>1 DEF CollectorInv, PhaseOK
  <1>5. memory \in Memories /\ new \in Seq(Blocks) /\ current \in Seq(Blocks)
        /\ FieldsMove(memory, current, new, scan, weak)
        /\ ScanOK(memory, new, scan) /\ WeakOK(memory, new, scan, weak)
    BY <1>4, SpacesParts
  <1> DEFINE m2 == Put(memory, a, o)
  <1>6. /\ m2 \in Memories
        /\ \A b \in Blocks : Len(m2[b]) = Len(memory[b])
        /\ Cell(m2, a) = o
        /\ \A q \in Ptrs : q # a => Cell(m2, q) = Cell(memory, q)
        /\ \A q \in Ptrs : Lies(m2, new, q) <=> Lies(memory, new, q)
        /\ \A y : Known(m2, new, y) <=> Known(memory, new, y)
        /\ \A y : Known(m2, current, y) <=> Known(memory, current, y)
    <2>1. o \in Cells
      BY ObjParts
    <2> QED BY <1>2, <1>5, <2>1, PutCell
  <1> HIDE DEF m2
  <1>7. FieldsMove(m2, current, new, scan, w2)
    <2> SUFFICES ASSUME NEW q \in Ptrs, Lies(m2, new, q), NEW h \in DOMAIN Cell(m2, q).fields
                 PROVE  IF q \in Range(w2) \/ ~ Done(new, scan, q, h)
                          THEN Known(m2, current, Cell(m2, q).fields[h])
                          ELSE Known(m2, new, Cell(m2, q).fields[h])
      BY DEF FieldsMove
    <2>1. CASE q # a
      BY <1>2, <1>5, <1>6, <2>1 DEF FieldsMove
    <2>2. CASE q = a
      <3>1. h = 1 /\ Known(m2, new, Cell(m2, q).fields[h])
        BY <1>3, <1>6, <2>2
      <3>2. Done(new, scan, q, h) /\ q \notin Range(w2)
        BY <1>2, <2>2 DEF Done
      <3> QED BY <3>1, <3>2
    <2> QED BY <2>1, <2>2
  <1>8. ScanOK(m2, new, scan)
    <2>1. CASE new = <<>>
      BY <1>5, <2>1 DEF ScanOK
    <2>2. CASE new # <<>>
      <3>1. scan.block \in 1..Len(new)
        BY <1>5, <2>2, SpaceParts DEF ScanOK, Scans
      <3>2. Len(m2[new[scan.block]]) = Len(memory[new[scan.block]])
        BY <1>5, <1>6, <3>1, SpaceParts
      <3>3. scan.fields # 0 => Cell(m2, NextIn(new, scan)) = Cell(memory, NextIn(new, scan))
        <4> SUFFICES ASSUME scan.fields # 0
                     PROVE  Cell(m2, NextIn(new, scan)) = Cell(memory, NextIn(new, scan))
          OBVIOUS
        <4>1. scan.slot < Len(memory[new[scan.block]])
          BY <1>5 DEF ScanOK
        <4>2. NextIn(new, scan) \in Ptrs /\ ~ Scanned(new, scan, NextIn(new, scan))
          BY <1>4, <2>2, <4>1, ScanPlace
        <4> QED BY <1>2, <1>6, <4>2
      <3> QED BY <1>5, <2>2, <3>2, <3>3 DEF ScanOK
    <2> QED BY <2>1, <2>2
  <1>9. WeakOK(m2, new, scan, w2)
    <2>1. Range(weak) \subseteq Ptrs
      BY <1>5 DEF WeakOK, Range
    <2> QED BY <1>2, <1>5, <1>6, <2>1 DEF WeakOK
  <1>10. SpacesOK(m2, current, new, made, scan, w2)
    <2>1. FieldsMove(Put(memory, a, o), current, new, scan, w2)
          /\ ScanOK(Put(memory, a, o), new, scan) /\ WeakOK(Put(memory, a, o), new, scan, w2)
      BY <1>7, <1>8, <1>9 DEF m2
    <2>2. o.id = Cell(memory, a).id /\ o.kind = Cell(memory, a).kind
          /\ Len(o.fields) = Len(Cell(memory, a).fields)
      BY <1>3 DEF c
    <2>3. SpacesOK(Put(memory, a, o), current, new, made, scan, w2)
      BY <1>2, <1>4, <2>1, <2>2, ObjectWritten
    <2> QED BY <2>3 DEF m2
  <1>11. memory' = m2
    BY <1>3 DEF m2
  <1>12. SpacesOK(memory', current', new', made', scan', weak')
    BY <1>1, <1>10, <1>11 DEF w2
  <1>13. RootsOK'
    BY <1>1, <1>4, <1>6, <1>11, RootsAreMoved
  <1>14. PhaseOK'
    BY <1>1, <1>4, <1>6, <1>11 DEF PhaseOK, Known
  <1> QED BY <1>12, <1>13, <1>14 DEF CollectorInv

(* Everything is scanned: the new space names nothing but itself. *)
LEMMA FlipInv ==
  ASSUME CollectorInv, Flip
  PROVE  CollectorInv'
  <1>1. /\ phase = "weak" /\ weak = <<>>
        /\ memory' = [b \in Blocks |-> IF b \in Range(current) THEN <<>> ELSE memory[b]]
        /\ current' = new /\ new' = <<>> /\ phase' = "off" /\ scan' = ScanStart
        /\ UNCHANGED <<todo, weak, root, hashState, made>>
    BY DEF Flip
  <1>2. /\ SpacesOK(memory, current, new, made, scan, weak) /\ RootsOK
        /\ todo = {} /\ hashState = Nil
        /\ \A p \in Ptrs : Lies(memory, new, p) => Scanned(new, scan, p)
    BY <1>1 DEF CollectorInv, PhaseOK
  <1>3. memory \in Memories /\ new \in Seq(Blocks) /\ Apart(current, new)
        /\ CopiesOK(memory, current, new, made)
        /\ FieldsMove(memory, current, new, scan, weak) /\ made \in Nat
    BY <1>2, SpacesParts
  <1>4. memory' \in Memories
    <2>1. \A b \in Blocks : memory[b] \in Seq(Cells)
      BY <1>3, BlockParts
    <2>2. <<>> \in Seq(Cells)
      OBVIOUS
    <2> QED BY <1>1, <2>1, <2>2 DEF Memories
  <1>5. \A b \in Range(new) : memory'[b] = memory[b]
    BY <1>1, <1>3, SpaceParts DEF Apart
  <1>6. \A p : Lies(memory', new, p) <=> Lies(memory, new, p)
    BY <1>5 DEF Lies
  <1>7. \A p : Lies(memory, new, p) => Cell(memory', p) = Cell(memory, p)
    BY <1>5 DEF Lies, Cell
  <1>8. \A x : Known(memory', new, x) <=> Known(memory, new, x)
    BY <1>6 DEF Known
  <1>9. \A m, p : ~ Lies(m, <<>>, p)
    BY DEF Lies, Range
  <1>10. \A p \in Ptrs : Lies(memory', new, p) => ~ Forwarded(Cell(memory', p))
    BY <1>3, <1>6, <1>7 DEF CopiesOK
  <1>11. \A p \in Ptrs : Alive(memory', new, <<>>, p) =>
           Alive(memory, current, new, p) /\ Cell(memory', p) = Cell(memory, p)
    BY <1>6, <1>7, <1>9 DEF Alive
  <1>12. CopiesOK(memory', new, <<>>, made)
    <2>1. \A p, q \in Ptrs :
            Alive(memory', new, <<>>, p) /\ Alive(memory', new, <<>>, q)
              /\ Cell(memory', p).id = Cell(memory', q).id => p = q
      BY <1>3, <1>11 DEF CopiesOK
    <2>2. \A p \in Ptrs : Alive(memory', new, <<>>, p) => WellMade(Cell(memory', p), made)
      BY <1>3, <1>11 DEF CopiesOK
    <2> QED BY <1>9, <1>10, <2>1, <2>2 DEF CopiesOK
  <1>13. FieldsStay(memory', new)
    <2> SUFFICES ASSUME NEW p \in Ptrs, Lies(memory', new, p),
                        NEW f \in DOMAIN Cell(memory', p).fields
                 PROVE  Known(memory', new, Cell(memory', p).fields[f])
      BY DEF FieldsStay
    <2>1. Lies(memory, new, p) /\ Cell(memory', p) = Cell(memory, p)
      BY <1>6, <1>7
    <2>2. Done(new, scan, p, f) /\ p \notin Range(weak)
      BY <1>1, <1>2, <2>1 DEF Done, Range
    <2>3. Known(memory, new, Cell(memory, p).fields[f])
      BY <1>3, <2>1, <2>2 DEF FieldsMove
    <2> QED BY <1>8, <2>1, <2>3
  <1>14. SpacesOK(memory', current', new', made', scan', weak')
    BY <1>1, <1>3, <1>4, <1>12, <1>13, OneSpace DEF Apart
  <1>15. RootsOK'
    BY <1>1, <1>2, <1>8 DEF RootsOK
  <1>16. PhaseOK'
    BY <1>1, <1>2, <1>10 DEF PhaseOK, Known, ScanStart
  <1> QED BY <1>14, <1>15, <1>16 DEF CollectorInv

-----------------------------------------------------------------------------
(* Whatever the program and the collector do, in whatever order: the cells *)
(* stay typed, no object is lost, moved twice or named at its old place    *)
(* once it is passed.                                                      *)
THEOREM CollectorInvariance == CollectorSpec => []CollectorInv
  <1>1. CollectorInit => CollectorInv
    <2> SUFFICES ASSUME CollectorInit PROVE CollectorInv
      OBVIOUS
    <2>1. memory \in Memories
      BY DEF CollectorInit, Memories
    <2>2. <<>> \in Seq(Blocks) /\ IsInjective(<<>>)
      BY DEF IsInjective
    <2>3. \A p : ~ Lies(memory, <<>>, p)
      BY DEF Lies, Range
    <2>4. CopiesOK(memory, <<>>, <<>>, 0) /\ FieldsStay(memory, <<>>)
      BY <2>3 DEF CopiesOK, FieldsStay, Alive
    <2>5. SpacesOK(memory, current, new, made, scan, weak)
      BY <2>1, <2>2, <2>4, OneSpace DEF CollectorInit
    <2>6. RootsOK /\ PhaseOK
      BY <2>3 DEF CollectorInit, RootsOK, PhaseOK, Known, Values, ScanStart
    <2> QED BY <2>5, <2>6 DEF CollectorInv
  <1>2. CollectorInv /\ [CollectorNext]_vars => CollectorInv'
    <2> SUFFICES ASSUME CollectorInv, [CollectorNext]_vars PROVE CollectorInv'
      OBVIOUS
    <2>1. CASE UNCHANGED vars
      BY <2>1 DEF vars, spaceVars, gcVars, CollectorInv, RootsOK, PhaseOK
    <2>2. CASE CollectorNext
      BY <2>2, MakeObjectInv, WriteInv, DropInv, PointerHashStateInv, ReadInv, SetupInv,
         ScavengeRootInv, ScavengeFieldInv, ScavengedObjectInv, ScavengedBlockInv,
         BreakWeakPointerInv, FlipInv DEF CollectorNext
    <2> QED BY <2>1, <2>2
  <1> QED BY <1>1, <1>2, PTL DEF CollectorSpec

(* Between collections no pointer of the program dangles, and no object is *)
(* in the heap twice, however many blocks a collection takes or gives back *)
(* and whatever is shared, cyclic or named by weak pointers.               *)
THEOREM HeapStaysWhole == CollectorSpec => []HeapIsWhole
  <1>1. CollectorInv => HeapIsWhole
    <2> SUFFICES ASSUME CollectorInv, phase = "off"
                 PROVE  /\ \A o \in Objects : ~ Forwarded(o)
                        /\ \A x \in Pointers : x \in Places(current)
                        /\ IsInjective(current)
                        /\ \A p, q \in Places(current) : Deref(p).id = Deref(q).id => p = q
      BY DEF HeapIsWhole
    <2>1. /\ memory \in Memories /\ current \in Seq(Blocks) /\ IsInjective(current)
          /\ CopiesOK(memory, current, <<>>, made) /\ FieldsStay(memory, current)
          /\ \A r \in Roots : Known(memory, current, root[r])
          /\ Known(memory, current, hashState)
          /\ \A p \in Ptrs : Lies(memory, current, p) => ~ Forwarded(Cell(memory, p))
      BY Idle
    <2>2. \A p : p \in Places(current) <=> p \in Ptrs /\ Lies(memory, current, p)
      BY <2>1, PlacesAre
    <2>3. \A p : Deref(p) = Cell(memory, p)
      BY DEF Deref, Cell
    <2>4. \A o \in Objects : \E p \in Ptrs : Lies(memory, current, p) /\ o = Cell(memory, p)
      BY <2>2, <2>3 DEF Objects
    <2>5. \A o \in Objects : ~ Forwarded(o)
      BY <2>1, <2>4
    <2>6. ASSUME NEW o \in Objects, NEW x \in Range(o.fields) PROVE Known(memory, current, x)
      <3>1. PICK p \in Ptrs : Lies(memory, current, p) /\ o = Cell(memory, p)
        BY <2>4
      <3>2. PICK f \in DOMAIN o.fields : x = o.fields[f]
        BY DEF Range
      <3> QED BY <2>1, <3>1, <3>2 DEF FieldsStay
    <2>7. ASSUME NEW x \in Pointers PROVE x \in Places(current)
      <3>1. Known(memory, current, x) /\ x # Nil
        BY <2>1, <2>6 DEF Pointers, IsPtr
      <3> QED BY <2>2, <3>1 DEF Known
    <2>8. \A p, q \in Places(current) : Deref(p).id = Deref(q).id => p = q
      BY <2>1, <2>2, <2>3 DEF CopiesOK, Alive
    <2> QED BY <2>1, <2>5, <2>7, <2>8
  <1> QED BY <1>1, CollectorInvariance, PTL

-----------------------------------------------------------------------------
(***************************************************************************)
(* What the program sees, also in the middle of a collection.              *)
(***************************************************************************)

(* The object at p, which may have been moved, and the name of a value. *)
IdIn(m, p) == IF Forwarded(Cell(m, p)) THEN Cell(m, Cell(m, p).to).id ELSE Cell(m, p).id
NameIn(m, x) == IF x = Nil THEN Nil ELSE IdIn(m, x)

Rec(m, o) ==
  [kind |-> o.kind, ok |-> o.ok, fields |-> [f \in DOMAIN o.fields |-> NameIn(m, o.fields[f])]]

Copies(m, n) == {Cell(m, p).id : p \in {q \in Ptrs : Lies(m, n, q)}}

LEMMA NilIsNoId == Nil \notin Nat
  BY CollectorAssumption

(* Whatever is named is an object that is there. *)
LEMMA NamedIsAlive ==
  ASSUME NEW m, NEW c, NEW n, NEW k, NEW sc, NEW w, SpacesOK(m, c, n, k, sc, w),
         NEW x \in Ptrs, Lies(m, c, x) \/ Lies(m, n, x)
  PROVE  /\ \E p \in Ptrs : Alive(m, c, n, p) /\ IdIn(m, x) = Cell(m, p).id
         /\ Lies(m, n, x) => IdIn(m, x) = Cell(m, x).id /\ Alive(m, c, n, x)
         /\ IdIn(m, x) \in 1..k /\ NameIn(m, x) = IdIn(m, x) /\ NameIn(m, x) # Nil
  <1>1. m \in Memories /\ CopiesOK(m, c, n, k) /\ k \in Nat /\ x # Nil
    BY SpacesParts, PtrParts
  <1>2. CASE Forwarded(Cell(m, x))
    <2>1. Lies(m, c, x)
      BY <1>1, <1>2 DEF CopiesOK
    <2>2. Lies(m, n, Cell(m, x).to) /\ Cell(m, x).to \in Ptrs
      BY <1>1, <1>2, <2>1, CellParts DEF CopiesOK, Lies
    <2>3. Alive(m, c, n, Cell(m, x).to)
      BY <1>1, <2>2 DEF CopiesOK, Alive
    <2>4. Cell(m, Cell(m, x).to).id \in 1..k
      BY <1>1, <2>2, <2>3 DEF CopiesOK, WellMade
    <2>5. ~ Lies(m, n, x)
      BY <1>1, <1>2 DEF CopiesOK
    <2>6. IdIn(m, x) = Cell(m, Cell(m, x).to).id
      BY <1>2 DEF IdIn
    <2>7. IdIn(m, x) \in Nat
      BY <1>1, <2>4, <2>6
    <2> QED BY <1>1, <2>2, <2>3, <2>4, <2>5, <2>6, <2>7, NilIsNoId DEF NameIn
  <1>3. CASE ~ Forwarded(Cell(m, x))
    <2>1. Alive(m, c, n, x) /\ IdIn(m, x) = Cell(m, x).id
      BY <1>3 DEF Alive, IdIn
    <2>2. Cell(m, x).id \in 1..k
      BY <1>1, <2>1 DEF CopiesOK, WellMade
    <2>3. IdIn(m, x) \in Nat
      BY <1>1, <2>1, <2>2
    <2> QED BY <1>1, <2>1, <2>2, <2>3, NilIsNoId DEF NameIn
  <1> QED BY <1>2, <1>3

(* Scavenging a value changes no name, and copies what the value names. *)
LEMMA ScavengeKeepsNames ==
  ASSUME SpacesOK(memory, current, new, made, scan, weak),
         NEW x, Known(memory, current, x),
         NEW g \in Scavenge(x)
  PROVE  LET m == g.memory  n == g.space
         IN /\ \A y : Known(memory, current, y) \/ Known(memory, new, y)
                        => NameIn(m, y) = NameIn(memory, y)
            /\ NameIn(m, g.value) = NameIn(memory, x)
            /\ \A p \in Ptrs : Alive(m, current, n, p) =>
                 \E q \in Ptrs : Alive(memory, current, new, q) /\ Cell(m, p) = Cell(memory, q)
            /\ Copies(m, n) \subseteq Copies(memory, new) \cup ({NameIn(memory, x)} \ {Nil})
  <1> DEFINE m == g.memory
             n == g.space
             v == g.value
  <1>1. /\ memory \in Memories /\ Apart(current, new) /\ current \in Seq(Blocks)
        /\ new \in Seq(Blocks) /\ CopiesOK(memory, current, new, made)
        /\ ScanOK(memory, new, scan)
    BY SpacesParts
  <1>2. CASE x = Nil
    <2>1. m = memory /\ n = new /\ v = Nil
      BY <1>2 DEF Scavenge, IsPtr
    <2> QED BY <1>2, <2>1 DEF NameIn
  <1>3. ASSUME x # Nil PROVE x \in Ptrs /\ Lies(memory, current, x) /\ Deref(x) = Cell(memory, x)
    BY <1>3 DEF Known, Deref, Cell
  <1>4. CASE x # Nil /\ Forwarded(Deref(x))
    <2>1. m = memory /\ n = new /\ v = Cell(memory, x).to
      BY <1>3, <1>4 DEF Scavenge, IsPtr
    <2>2. Lies(memory, new, v) /\ v \in Ptrs
      BY <1>1, <1>3, <1>4, <2>1, CellParts DEF CopiesOK, Lies
    <2>3. NameIn(memory, v) = Cell(memory, v).id
      BY <2>2, NamedIsAlive
    <2>4. NameIn(memory, x) = Cell(memory, v).id
      BY <1>3, <1>4, <2>1 DEF NameIn, IdIn
    <2> QED BY <2>1, <2>3, <2>4
  <1>5. CASE x # Nil /\ ~ Forwarded(Deref(x))
    <2>1. /\ v \in Ptrs /\ ~ Lies(memory, current, v) /\ ~ Lies(memory, new, v)
          /\ \A p \in Ptrs : Lies(m, n, p) <=> Lies(memory, new, p) \/ p = v
          /\ \A p \in Ptrs : Lies(m, current, p) <=> Lies(memory, current, p)
          /\ \A p \in Ptrs : (Lies(memory, new, p) \/ Lies(memory, current, p)) /\ p # x
                               => Cell(m, p) = Cell(memory, p)
          /\ Cell(m, v) = Cell(memory, x)
          /\ Forwarded(Cell(m, x)) /\ Cell(m, x).to = v
      BY <1>1, <1>3, <1>5, Transported
    <2>2. ~ Forwarded(Cell(memory, x)) /\ x \in Ptrs /\ Lies(memory, current, x)
          /\ ~ Lies(memory, new, x)
      BY <1>1, <1>3, <1>5, OnePlace
    <2> HIDE DEF m, n, v
    <2>3. NameIn(memory, x) = Cell(memory, x).id
      BY <1>5, <2>2 DEF NameIn, IdIn
    <2>4. NameIn(m, v) = Cell(memory, x).id
      BY <2>1, <2>2, PtrParts DEF NameIn, IdIn
    <2>5. ASSUME NEW y, Known(memory, current, y) \/ Known(memory, new, y)
          PROVE  NameIn(m, y) = NameIn(memory, y)
      <3>1. CASE y = Nil
        BY <3>1 DEF NameIn
      <3>2. CASE y = x
        <4>1. IdIn(m, x) = Cell(m, v).id
          BY <2>1 DEF IdIn
        <4> QED BY <1>5, <2>1, <2>3, <3>2, <4>1 DEF NameIn
      <3>3. CASE y # Nil /\ y # x
        <4>1. y \in Ptrs /\ (Lies(memory, current, y) \/ Lies(memory, new, y))
          BY <2>5, <3>3 DEF Known
        <4>2. Cell(m, y) = Cell(memory, y)
          BY <2>1, <3>3, <4>1
        <4>3. CASE Forwarded(Cell(memory, y))
          <5>1. Lies(memory, current, y)
            BY <1>1, <4>1, <4>3 DEF CopiesOK
          <5> DEFINE t == Cell(memory, y).to
          <5>2. t \in Ptrs /\ Lies(memory, new, t)
            BY <1>1, <4>1, <4>3, <5>1, CellParts DEF CopiesOK, Lies
          <5>3. t # x
            BY <2>2, <5>2
          <5>4. Cell(m, t) = Cell(memory, t)
            BY <2>1, <5>2, <5>3
          <5> QED BY <3>3, <4>2, <4>3, <5>4 DEF NameIn, IdIn
        <4>4. CASE ~ Forwarded(Cell(memory, y))
          BY <3>3, <4>2, <4>4 DEF NameIn, IdIn
        <4> QED BY <4>3, <4>4
      <3> QED BY <3>1, <3>2, <3>3
    <2>6. ASSUME NEW p \in Ptrs, Alive(m, current, n, p)
          PROVE  \E q \in Ptrs : Alive(memory, current, new, q) /\ Cell(m, p) = Cell(memory, q)
      <3>1. CASE p = v
        BY <2>1, <2>2, <3>1 DEF Alive
      <3>2. CASE p # v
        <4>1. Lies(memory, current, p) \/ Lies(memory, new, p)
          BY <2>1, <2>6, <3>2 DEF Alive
        <4>2. p # x
          BY <2>1, <2>6 DEF Alive
        <4>3. Cell(m, p) = Cell(memory, p)
          BY <2>1, <4>1, <4>2
        <4> QED BY <2>6, <4>1, <4>3 DEF Alive
      <3> QED BY <3>1, <3>2
    <2>7. ASSUME NEW i \in Copies(m, n) PROVE i \in Copies(memory, new) \cup ({NameIn(memory, x)} \ {Nil})
      <3>1. PICK p \in Ptrs : Lies(m, n, p) /\ i = Cell(m, p).id
        BY <2>7 DEF Copies
      <3>2. CASE p = v
        BY <1>3, <1>5, <2>1, <2>3, <3>1, <3>2, NamedIsAlive
      <3>3. CASE p # v
        <4>1. Lies(memory, new, p) /\ p # x
          BY <2>1, <2>2, <3>1, <3>3
        <4>2. Cell(m, p) = Cell(memory, p)
          BY <2>1, <4>1
        <4> QED BY <3>1, <4>1, <4>2 DEF Copies
      <3> QED BY <3>2, <3>3
    <2>8. NameIn(m, v) = NameIn(memory, x)
      BY <2>3, <2>4
    <2> QED BY <2>5, <2>6, <2>7, <2>8 DEF m, n, v
  <1> QED BY <1>2, <1>4, <1>5

(* An object is written, and remains the object that it is. *)
LEMMA WritingKeepsNames ==
  ASSUME NEW m \in Memories, NEW a \in Ptrs, a.slot <= Len(m[a.block]), ~ Forwarded(Cell(m, a)),
         NEW o \in Objs, o.id = Cell(m, a).id
  PROVE  /\ \A s \in Seq(Blocks) : \A y : Known(m, s, y) =>
              NameIn(Put(m, a, o), y) = NameIn(m, y)
         /\ \A n \in Seq(Blocks) : Copies(Put(m, a, o), n) = Copies(m, n)
         /\ \A c, n \in Seq(Blocks) : \A p \in Ptrs :
              Alive(Put(m, a, o), c, n, p) <=> Alive(m, c, n, p)
  <1> DEFINE q == Put(m, a, o)
  <1>1. /\ Cell(q, a) = o /\ ~ Forwarded(o)
        /\ \A p \in Ptrs : p # a => Cell(q, p) = Cell(m, p)
        /\ \A s \in Seq(Blocks), p \in Ptrs : Lies(q, s, p) <=> Lies(m, s, p)
    BY PutCell, ObjParts
  <1> HIDE DEF q
  <1>2. \A p \in Ptrs : Forwarded(Cell(q, p)) <=> Forwarded(Cell(m, p))
    BY <1>1
  <1>3. \A p \in Ptrs : Forwarded(Cell(m, p)) => Cell(q, p) = Cell(m, p)
    BY <1>1
  <1>4. \A p \in Ptrs : Cell(q, p).id = Cell(m, p).id
    BY <1>1
  <1>5. ASSUME NEW s \in Seq(Blocks), NEW y, Known(m, s, y) PROVE NameIn(q, y) = NameIn(m, y)
    <2>1. CASE y = Nil
      BY <2>1 DEF NameIn
    <2>2. CASE y # Nil
      <3>1. y \in Ptrs /\ y.slot <= Len(m[y.block])
        BY <1>5, <2>2 DEF Known, Lies
      <3>2. Forwarded(Cell(m, y)) => Cell(m, y).to \in Ptrs
        BY <3>1, CellParts
      <3> QED BY <1>2, <1>3, <1>4, <2>2, <3>1, <3>2 DEF NameIn, IdIn
    <2> QED BY <2>1, <2>2
  <1>6. \A n \in Seq(Blocks) : Copies(q, n) = Copies(m, n)
    BY <1>1, <1>4 DEF Copies
  <1>7. \A c, n \in Seq(Blocks) : \A p \in Ptrs : Alive(q, c, n, p) <=> Alive(m, c, n, p)
    BY <1>1, <1>2 DEF Alive
  <1> QED BY <1>5, <1>6, <1>7 DEF q

-----------------------------------------------------------------------------
(***************************************************************************)
(* What HeapPromise sees, and what it keeps in a collection.               *)
(***************************************************************************)
Names(v) == DOMAIN v.objects \cup {Nil}

WholeView(v) ==
  /\ DOMAIN v.objects \subseteq Ids
  /\ v.objects \in [DOMAIN v.objects -> [kind : Kinds, ok : BOOLEAN, fields : Seq(Names(v))]]
  /\ v.root \in [Roots -> Names(v)]
  /\ v.state \in Names(v)
  /\ v.state # Nil => v.objects[v.state].kind = "state"

(* What an object keeps alive: a weak pointer nothing, until it is broken. *)
FieldsOf(o) == {o.fields[f] : f \in DOMAIN o.fields} \ {Nil}
Holds(v, i) ==
  IF v.objects[i].kind = "weak" /\ v.objects[i].ok THEN {} ELSE FieldsOf(v.objects[i])

Closed(v, S) == \A i \in S : Holds(v, i) \subseteq S

LEMMA HeldIsThere ==
  ASSUME NEW v, WholeView(v), NEW i \in DOMAIN v.objects
  PROVE  /\ v.objects[i] \in [kind : Kinds, ok : BOOLEAN, fields : Seq(Names(v))]
         /\ FieldsOf(v.objects[i]) \subseteq DOMAIN v.objects
         /\ Holds(v, i) \subseteq DOMAIN v.objects
         /\ i \in Nat /\ i # Nil
  <1>1. v.objects[i] \in [kind : Kinds, ok : BOOLEAN, fields : Seq(Names(v))]
    BY DEF WholeView
  <1> DEFINE s == v.objects[i].fields
  <1>2. s \in Seq(Names(v))
    BY <1>1
  <1> HIDE DEF s
  <1>3. \A f \in DOMAIN s : s[f] \in Names(v)
    BY <1>2
  <1>4. FieldsOf(v.objects[i]) \subseteq DOMAIN v.objects
    BY <1>3 DEF FieldsOf, Names, s
  <1>5. i \in Nat
    BY CollectorAssumption DEF WholeView, Ids
  <1> QED BY <1>1, <1>4, <1>5, NilIsNoId DEF Holds

(* A chain of sets that grows at each step has n members after n of them.  *)
LEMMA GrowingChain ==
  ASSUME NEW n \in Nat, NEW S, IsFiniteSet(S), NEW g, \A i \in 0..n : g[i] \subseteq S,
         \A i \in 1..n : g[i - 1] \subseteq g[i] /\ g[i - 1] # g[i]
  PROVE  Cardinality(g[n]) >= n
  <1> DEFINE T == {k \in Nat : k <= n /\ ~ (Cardinality(g[k]) >= k)}
  <1>1. \A i \in 0..n : IsFiniteSet(g[i]) /\ Cardinality(g[i]) \in Nat
    BY FS_Subset, FS_CardinalityType
  <1>2. ASSUME T # {} PROVE FALSE
    <2>1. PICK k \in T : \A j \in T : k <= j
      <3>1. T \in SUBSET Nat
        OBVIOUS
      <3> QED BY <1>2, <3>1, LeastNat
    <2>2. k \in 0..n /\ k # 0
      BY <1>1, <2>1
    <2>3. k - 1 \in 0..n /\ k \in 1..n /\ k - 1 \in Nat
      BY <2>2
    <2>4. Cardinality(g[k - 1]) >= k - 1
      BY <2>1, <2>3
    <2>5. Cardinality(g[k - 1]) < Cardinality(g[k])
      BY <1>1, <2>3, FS_Subset
    <2>6. Cardinality(g[k]) \in Nat /\ Cardinality(g[k - 1]) \in Nat
      BY <1>1, <2>2, <2>3
    <2> QED BY <2>1, <2>2, <2>4, <2>5, <2>6
  <1> QED BY <1>1, <1>2

LEMMA KeptRuns ==
  ASSUME WholeView(Seen), NEW from, from \subseteq Names(Seen)
  PROVE  \E g : /\ g \in [0..MaxObjects -> SUBSET DOMAIN Seen.objects]
                /\ g[0] = from \ {Nil}
                /\ \A n \in 1..MaxObjects :
                     g[n] = g[n - 1] \cup UNION {Holds(Seen, i) : i \in g[n - 1]}
                /\ Promise!Kept(from) = g[MaxObjects]
  <1> DEFINE N == MaxObjects
             S == SUBSET DOMAIN Seen.objects
             a == from \ {Nil}
             F == [x \in (1..N) \X S |-> x[2] \cup UNION {Holds(Seen, i) : i \in x[2]}]
             g == CHOOSE g : g = [n \in 0..N |->
                    IF n = 0 THEN a ELSE g[n - 1] \cup UNION {Holds(Seen, i) : i \in g[n - 1]}]
  <1>1. Cardinality(Ids) = N /\ N \in Nat
    BY CollectorAssumption, FS_Interval DEF Ids
  <1>2. a \in S
    BY DEF Names
  <1>3. \A k \in 1..N, s \in S : s \cup UNION {Holds(Seen, i) : i \in s} \in S
    BY HeldIsThere
  <1>4. F \in [(1..N) \X S -> S]
    BY <1>3
  <1>5. \A k \in 1..N, s \in S : F[<<k, s>>] = s \cup UNION {Holds(Seen, i) : i \in s}
    OBVIOUS
  <1> HIDE DEF F
  <1>6. PICK h \in [0..N -> S] : Follows(h, N, a, F)
    <2> HIDE DEF N, S, a
    <2> QED BY <1>1, <1>2, <1>4, RecursionExists
  <1>7. /\ h[0] = a /\ \A i \in 1..N : h[i] = F[<<i, h[i - 1]>>]
    <2> HIDE DEF N, S, a
    <2>1. h = [i \in 0..N |-> IF i = 0 THEN a ELSE F[<<i, h[i - 1]>>]]
      BY <1>6 DEF Follows
    <2>2. h[0] = a
      BY <1>1, <2>1
    <2>3. ASSUME NEW m \in 1..N
          PROVE  h[m] = F[<<m, h[m - 1]>>]
      <3>1. m \in 0..N /\ m # 0
        BY <1>1
      <3> QED BY <2>1, <3>1
    <2> QED BY <2>2, <2>3
  <1>8. h = [n \in 0..N |->
               IF n = 0 THEN a ELSE h[n - 1] \cup UNION {Holds(Seen, i) : i \in h[n - 1]}]
    <2> HIDE DEF S, a
    <2>1. ASSUME NEW n \in 0..N
          PROVE  h[n] = IF n = 0 THEN a
                        ELSE h[n - 1] \cup UNION {Holds(Seen, i) : i \in h[n - 1]}
      <3>1. CASE n = 0
        BY <1>7, <3>1
      <3>2. CASE n # 0
        <4>1. n \in 1..N /\ n - 1 \in 0..N
          BY <1>1, <3>2
        <4>2. h[n - 1] \in S
          BY <1>6, <4>1
        <4> QED BY <1>5, <1>7, <3>2, <4>1, <4>2
      <3> QED BY <3>1, <3>2
    <2> HIDE DEF N
    <2> QED BY <1>6, <2>1
  <1>9. g = [n \in 0..N |->
               IF n = 0 THEN a ELSE g[n - 1] \cup UNION {Holds(Seen, i) : i \in g[n - 1]}]
    BY <1>8
  <1>10. Promise!Kept(from) = g[N]
    <2>1. Promise!Cardinality(Ids) = Cardinality(Ids)
      BY DEF Promise!Cardinality, Cardinality, Promise!IsFiniteSet
    <2> QED BY <1>1, <2>1 DEF Promise!Kept, Promise!Refs, Holds, FieldsOf
  <1> HIDE DEF g
  <1>11. g[0] = a
    BY <1>1, <1>9
  <1>12. ASSUME NEW n \in 1..N
         PROVE  g[n] = g[n - 1] \cup UNION {Holds(Seen, i) : i \in g[n - 1]}
    <2>1. n \in 0..N /\ n # 0
      BY <1>1
    <2> HIDE DEF a
    <2> QED BY <1>9, <2>1
  <1> DEFINE T == {n \in Nat : n <= N /\ g[n] \notin S}
  <1>13. ASSUME T # {} PROVE FALSE
    <2>1. PICK n \in T : \A j \in T : n <= j
      <3>1. T \in SUBSET Nat
        OBVIOUS
      <3> QED BY <1>13, <3>1, LeastNat
    <2>2. n # 0
      BY <1>2, <1>11, <2>1
    <2>3. n \in 1..N /\ n - 1 \in Nat /\ n - 1 <= N
      BY <1>1, <2>1, <2>2
    <2>4. g[n - 1] \in S
      BY <2>1, <2>3
    <2> QED BY <1>3, <1>12, <2>1, <2>3, <2>4
  <1>14. \A n \in 0..N : g[n] \in S
    BY <1>1, <1>13
  <1>15. g \in [0..N -> S]
    <2> HIDE DEF S, a, N
    <2>1. DOMAIN g = 0..N /\ g = [n \in 0..N |-> g[n]]
      BY <1>9
    <2> QED BY <1>14, <2>1
  <1> QED BY <1>10, <1>11, <1>12, <1>15

(* What is kept are the objects that the roots reach: the least closed set *)
(* around them.                                                            *)
LEMMA KeptIs ==
  ASSUME WholeView(Seen), NEW from, from \subseteq Names(Seen)
  PROVE  LET K == Promise!Kept(from)
         IN /\ K \subseteq DOMAIN Seen.objects /\ from \ {Nil} \subseteq K
            /\ Closed(Seen, K)
            /\ \A S : Closed(Seen, S) /\ from \ {Nil} \subseteq S => K \subseteq S
  <1> DEFINE N == MaxObjects
             D == DOMAIN Seen.objects
             More(s) == s \cup UNION {Holds(Seen, i) : i \in s}
  <1>1. PICK g : /\ g \in [0..N -> SUBSET D]
                 /\ g[0] = from \ {Nil}
                 /\ \A n \in 1..N : g[n] = More(g[n - 1])
                 /\ Promise!Kept(from) = g[N]
    BY KeptRuns
  <1>2. N \in Nat /\ IsFiniteSet(Ids) /\ Cardinality(Ids) = N /\ D \subseteq Ids
    BY CollectorAssumption, FS_Interval DEF Ids, WholeView
  <1>3. ASSUME NEW k \in 0..N, More(g[k]) = g[k] PROVE g[N] = g[k]
    <2> DEFINE T == {n \in Nat : n >= k /\ n <= N /\ g[n] # g[k]}
    <2>1. ASSUME T # {} PROVE FALSE
      <3>1. PICK n \in T : \A j \in T : n <= j
        <4>1. T \in SUBSET Nat
          OBVIOUS
        <4> QED BY <2>1, <4>1, LeastNat
      <3>2. n # k /\ n \in 1..N /\ n - 1 \in Nat /\ n - 1 >= k /\ n - 1 <= N
        BY <1>2, <3>1
      <3>3. g[n - 1] = g[k]
        BY <3>1, <3>2
      <3>4. g[n] = More(g[n - 1])
        BY <1>1, <3>2
      <3> HIDE DEF More
      <3> QED BY <1>3, <3>1, <3>3, <3>4
    <2> QED BY <1>2, <2>1
  <1>4. \A k \in 1..N : g[k - 1] \subseteq g[k]
    BY <1>1
  <1>5. More(g[N]) = g[N]
    <2>1. CASE \E k \in 1..N : g[k - 1] = g[k]
      <3>1. PICK k \in 1..N : g[k - 1] = g[k]
        BY <2>1
      <3>2. k - 1 \in 0..N /\ More(g[k - 1]) = g[k - 1]
        <4>1. k - 1 \in 0..N
          BY <1>2
        <4>2. g[k] = More(g[k - 1])
          BY <1>1
        <4> HIDE DEF More
        <4> QED BY <3>1, <4>1, <4>2
      <3>3. g[N] = g[k - 1]
        BY <1>3, <3>2
      <3> HIDE DEF More
      <3> QED BY <3>2, <3>3
    <2>2. CASE \A k \in 1..N : g[k - 1] # g[k]
      <3>1. \A k \in 0..N : g[k] \subseteq Ids
        BY <1>1, <1>2
      <3>2. Cardinality(g[N]) >= N
        <4> HIDE DEF More, N, D
        <4> QED BY <1>2, <1>4, <2>2, <3>1, GrowingChain
      <3>3. g[N] = Ids
        <4>1. g[N] \subseteq Ids
          BY <1>2, <3>1
        <4>2. Cardinality(g[N]) <= Cardinality(Ids) /\ Cardinality(g[N]) \in Nat
          BY <1>2, <4>1, FS_Subset, FS_CardinalityType
        <4>3. Cardinality(g[N]) = Cardinality(Ids)
          BY <1>2, <3>2, <4>2
        <4> QED BY <1>2, <4>1, <4>3, FS_Subset
      <3>4. g[N] \in SUBSET D
        BY <1>1, <1>2
      <3>5. More(g[N]) \subseteq D
        BY <3>4, HeldIsThere
      <3> QED BY <1>2, <3>3, <3>5
    <2> QED BY <2>1, <2>2
  <1>6. g[N] \subseteq D
    BY <1>1, <1>2
  <1>7. \A k \in 0..N : from \ {Nil} \subseteq g[k]
    <2> DEFINE T == {n \in Nat : n <= N /\ ~ (from \ {Nil} \subseteq g[n])}
    <2>1. ASSUME T # {} PROVE FALSE
      <3>1. PICK n \in T : \A j \in T : n <= j
        <4>1. T \in SUBSET Nat
          OBVIOUS
        <4> QED BY <2>1, <4>1, LeastNat
      <3>2. n # 0
        BY <1>1, <3>1
      <3>3. n \in 1..N /\ n - 1 \in Nat /\ n - 1 <= N
        BY <1>2, <3>1, <3>2
      <3> QED BY <1>4, <3>1, <3>3
    <2> QED BY <1>2, <2>1
  <1>8. ASSUME NEW S, Closed(Seen, S), from \ {Nil} \subseteq S PROVE g[N] \subseteq S
    <2> DEFINE T == {n \in Nat : n <= N /\ ~ (g[n] \subseteq S)}
    <2>1. ASSUME T # {} PROVE FALSE
      <3>1. PICK n \in T : \A j \in T : n <= j
        <4>1. T \in SUBSET Nat
          OBVIOUS
        <4> QED BY <2>1, <4>1, LeastNat
      <3>2. n # 0
        BY <1>1, <1>8, <3>1
      <3>3. n \in 1..N /\ n - 1 \in Nat /\ n - 1 <= N
        BY <1>2, <3>1, <3>2
      <3>4. g[n - 1] \subseteq S
        BY <3>1, <3>3
      <3>5. More(g[n - 1]) \subseteq S
        BY <1>8, <3>4 DEF Closed
      <3>6. g[n] = More(g[n - 1])
        BY <1>1, <3>3
      <3> HIDE DEF More
      <3> QED BY <3>1, <3>5, <3>6
    <2> QED BY <1>2, <2>1
  <1>9. Closed(Seen, g[N])
    BY <1>5 DEF Closed
  <1>10. from \ {Nil} \subseteq g[N]
    BY <1>2, <1>7
  <1> HIDE DEF D, N
  <1> QED BY <1>1, <1>6, <1>8, <1>9, <1>10 DEF D

-----------------------------------------------------------------------------
(***************************************************************************)
(* The collection under way, against what the program saw when it began.   *)
(***************************************************************************)

(* What becomes of an object that is kept, and of a weak pointer to what   *)
(* is not.                                                                 *)
Survivor(v, i) == [v.objects[i] EXCEPT !.ok = @ /\ i # v.state]
Lost == [kind |-> "weak", ok |-> FALSE, fields |-> <<Nil>>]

Tells(m, v, o) == o.id \in DOMAIN v.objects /\ Rec(m, o) = Survivor(v, o.id)
Breaks(m, n, v, o) ==
  /\ o.id \in DOMAIN v.objects /\ v.objects[o.id].kind = "weak" /\ v.objects[o.id].ok
  /\ FieldsOf(v.objects[o.id]) \ Copies(m, n) # {}
  /\ Rec(m, o) = Lost

Contents(m, c, n, v, ph) ==
  \A p \in Ptrs : Alive(m, c, n, p) =>
    Tells(m, v, Cell(m, p)) \/ (ph = "weak" /\ Lies(m, n, p) /\ Breaks(m, n, v, Cell(m, p)))

RootsNamed(m, rt, v) == \A r \in Roots : NameIn(m, rt[r]) = v.root[r]

(* Only what the roots reach is copied. *)
FromRoots(v) == {v.root[r] : r \in Roots}
Reaches(v, X) == \A S : Closed(v, S) /\ FromRoots(v) \ {Nil} \subseteq S => X \subseteq S

Collecting(m, c, n, w, rt, v, ph) ==
  /\ WholeView(v) /\ RootsNamed(m, rt, v)
  /\ Contents(m, c, n, v, ph)
  /\ Reaches(v, Copies(m, n))
  /\ \A p \in Range(w) : Cell(m, p).ok

FaithfulInv ==
  /\ made <= MaxObjects
  /\ hashState # Nil => Cell(memory, hashState).kind = "state"
  /\ phase # "off" => Collecting(memory, current, new, weak, root, before, phase)

LEMMA FieldsKnown ==
  ASSUME NEW m, NEW c, NEW n, NEW k, NEW sc, NEW w, SpacesOK(m, c, n, k, sc, w),
         NEW p \in Ptrs, Alive(m, c, n, p)
  PROVE  /\ Cell(m, p) \in Objs /\ WellMade(Cell(m, p), k)
         /\ \A f \in DOMAIN Cell(m, p).fields :
              Known(m, c, Cell(m, p).fields[f]) \/ Known(m, n, Cell(m, p).fields[f])
  <1>1. m \in Memories /\ CopiesOK(m, c, n, k) /\ FieldsStay(m, c) /\ FieldsMove(m, c, n, sc, w)
    BY SpacesParts
  <1>2. Cell(m, p) \in Objs
    BY <1>1, CellParts DEF Alive, Lies
  <1>3. WellMade(Cell(m, p), k)
    BY <1>1 DEF CopiesOK
  <1> QED BY <1>1, <1>2, <1>3 DEF Alive, FieldsStay, FieldsMove

(* An object is told the same as long as what it names is called the same. *)
LEMMA RecStays ==
  ASSUME NEW m, NEW m2, NEW o, \A f \in DOMAIN o.fields : NameIn(m2, o.fields[f]) = NameIn(m, o.fields[f])
  PROVE  Rec(m2, o) = Rec(m, o)
  BY DEF Rec

LEMMA RecParts ==
  ASSUME NEW m, NEW o
  PROVE  /\ Rec(m, o).kind = o.kind /\ Rec(m, o).ok = o.ok
         /\ DOMAIN Rec(m, o).fields = DOMAIN o.fields
         /\ \A f \in DOMAIN o.fields : Rec(m, o).fields[f] = NameIn(m, o.fields[f])
  BY DEF Rec

LEMMA SurvivorParts ==
  ASSUME NEW v, WholeView(v), NEW i \in DOMAIN v.objects
  PROVE  /\ Survivor(v, i).kind = v.objects[i].kind
         /\ Survivor(v, i).fields = v.objects[i].fields
         /\ Survivor(v, i).ok = (v.objects[i].ok /\ i # v.state)
         /\ v.objects[i].kind # "state" => Survivor(v, i).ok = v.objects[i].ok
  <1>1. v.objects[i] \in [kind : Kinds, ok : BOOLEAN, fields : Seq(Names(v))]
    BY HeldIsThere
  <1>2. v.state = i => v.objects[i].kind = "state"
    BY HeldIsThere DEF WholeView
  <1> QED BY <1>1, <1>2 DEF Survivor

(* An object that tells what the program saw holds what it held. *)
LEMMA ToldHolds ==
  ASSUME NEW v, WholeView(v), NEW m, NEW o, Tells(m, v, o)
  PROVE  /\ o.id \in DOMAIN v.objects /\ o.kind = v.objects[o.id].kind
         /\ DOMAIN o.fields = DOMAIN v.objects[o.id].fields
         /\ \A f \in DOMAIN o.fields : NameIn(m, o.fields[f]) = v.objects[o.id].fields[f]
         /\ o.kind = "weak" => o.ok = v.objects[o.id].ok
         /\ FieldsOf(v.objects[o.id]) = {NameIn(m, o.fields[f]) : f \in DOMAIN o.fields} \ {Nil}
  <1>1. o.id \in DOMAIN v.objects /\ Rec(m, o) = Survivor(v, o.id)
    BY DEF Tells
  <1>2. /\ o.kind = v.objects[o.id].kind
        /\ DOMAIN o.fields = DOMAIN v.objects[o.id].fields
        /\ \A f \in DOMAIN o.fields : NameIn(m, o.fields[f]) = v.objects[o.id].fields[f]
        /\ o.ok = Survivor(v, o.id).ok
    BY <1>1, RecParts, SurvivorParts
  <1>3. o.kind = "weak" => o.ok = v.objects[o.id].ok
    BY <1>1, <1>2, SurvivorParts
  <1>4. FieldsOf(v.objects[o.id]) = {NameIn(m, o.fields[f]) : f \in DOMAIN o.fields} \ {Nil}
    BY <1>2 DEF FieldsOf
  <1> QED BY <1>1, <1>2, <1>3, <1>4

-----------------------------------------------------------------------------
(* What the roots reach is scavenged. *)
LEMMA ScavengeKeepsContents ==
  ASSUME SpacesOK(memory, current, new, made, scan, weak),
         NEW v, NEW ph, ph # "weak",
         Collecting(memory, current, new, weak, root, v, ph),
         NEW x, Known(memory, current, x), Reaches(v, {NameIn(memory, x)} \ {Nil}),
         NEW g \in Scavenge(x)
  PROVE  /\ \A ph2 : Contents(g.memory, current, g.space, v, ph2)
         /\ Reaches(v, Copies(g.memory, g.space))
         /\ \A p \in Range(weak) : Cell(g.memory, p).ok
         /\ \A y : Known(memory, current, y) \/ Known(memory, new, y)
                     => NameIn(g.memory, y) = NameIn(memory, y)
         /\ NameIn(g.memory, g.value) = NameIn(memory, x)
  <1> DEFINE m == g.memory
             n == g.space
  <1>1. /\ \A y : Known(memory, current, y) \/ Known(memory, new, y)
                    => NameIn(m, y) = NameIn(memory, y)
        /\ NameIn(m, g.value) = NameIn(memory, x)
        /\ \A p \in Ptrs : Alive(m, current, n, p) =>
             \E q \in Ptrs : Alive(memory, current, new, q) /\ Cell(m, p) = Cell(memory, q)
        /\ Copies(m, n) \subseteq Copies(memory, new) \cup ({NameIn(memory, x)} \ {Nil})
    BY ScavengeKeepsNames
  <1> HIDE DEF m, n
  <1>2. ASSUME NEW p \in Ptrs, Alive(m, current, n, p) PROVE Tells(m, v, Cell(m, p))
    <2>1. PICK q \in Ptrs : Alive(memory, current, new, q) /\ Cell(m, p) = Cell(memory, q)
      BY <1>1, <1>2
    <2>2. Tells(memory, v, Cell(memory, q))
      BY <2>1 DEF Collecting, Contents
    <2> DEFINE o == Cell(memory, q)
    <2>3. \A f \in DOMAIN o.fields :
            Known(memory, current, o.fields[f]) \/ Known(memory, new, o.fields[f])
      BY <2>1, FieldsKnown
    <2> HIDE DEF o
    <2>4. Rec(m, o) = Rec(memory, o)
      BY <1>1, <2>3, RecStays
    <2>5. Tells(m, v, o)
      BY <2>2, <2>4 DEF Tells, o
    <2> QED BY <2>1, <2>5 DEF o
  <1>3. \A ph2 : Contents(m, current, n, v, ph2)
    BY <1>2 DEF Contents
  <1>4. Reaches(v, Copies(m, n))
    <2>1. Reaches(v, Copies(memory, new))
      BY DEF Collecting
    <2> QED BY <1>1, <2>1 DEF Reaches
  <1>5. ASSUME NEW p \in Range(weak) PROVE Cell(m, p).ok
    <2>1. p \in Ptrs /\ Lies(memory, new, p)
      BY SpacesParts DEF WeakOK, Range
    <2>2. Cell(m, p) = Cell(memory, p)
      BY <2>1, Scavenged DEF m
    <2> QED BY <2>2 DEF Collecting
  <1> QED BY <1>1, <1>3, <1>4, <1>5 DEF m, n

LEMMA FaithfulIn ==
  ASSUME CollectorInv, FaithfulInv, phase # "off"
  PROVE  /\ SpacesOK(memory, current, new, made, scan, weak)
         /\ Collecting(memory, current, new, weak, root, before, phase)
         /\ hashState = Nil /\ made <= MaxObjects
         /\ root \in [Roots -> Values]
         /\ phase # "roots" => todo = {}
         /\ \A r \in Roots : IF r \in todo THEN Known(memory, current, root[r])
                                            ELSE Known(memory, new, root[r])
  BY DEF CollectorInv, RootsOK, PhaseOK, FaithfulInv

LEMMA ScavengeRootFaithful ==
  ASSUME CollectorInv, FaithfulInv, ScavengeRoot
  PROVE  FaithfulInv'
  <1>0. phase = "roots" /\ phase' \in {"scan", "roots"}
    BY DEF ScavengeRoot
  <1>1. PICK r \in todo : \E g \in Scavenge(root[r]) :
             /\ memory' = g.memory /\ new' = g.space
             /\ root' = [root EXCEPT ![r] = g.value]
    BY DEF ScavengeRoot
  <1>2. PICK g \in Scavenge(root[r]) :
             /\ memory' = g.memory /\ new' = g.space
             /\ root' = [root EXCEPT ![r] = g.value]
    BY <1>1
  <1>3. UNCHANGED <<current, scan, weak, hashState, made, collections, before>>
    BY DEF ScavengeRoot
  <1>4. /\ SpacesOK(memory, current, new, made, scan, weak)
        /\ Collecting(memory, current, new, weak, root, before, phase)
        /\ root \in [Roots -> Values] /\ hashState = Nil /\ made <= MaxObjects
        /\ \A s \in Roots : IF s \in todo THEN Known(memory, current, root[s])
                                           ELSE Known(memory, new, root[s])
    BY <1>0, FaithfulIn
  <1>5. r \in Roots /\ Known(memory, current, root[r])
    BY <1>4 DEF CollectorInv, RootsOK
  <1>6. NameIn(memory, root[r]) = before.root[r]
    BY <1>4, <1>5 DEF Collecting, RootsNamed
  <1>7. Reaches(before, {NameIn(memory, root[r])} \ {Nil})
    BY <1>5, <1>6 DEF Reaches, FromRoots
  <1>8. /\ \A ph2 : Contents(g.memory, current, g.space, before, ph2)
        /\ Reaches(before, Copies(g.memory, g.space))
        /\ \A p \in Range(weak) : Cell(g.memory, p).ok
        /\ \A y : Known(memory, current, y) \/ Known(memory, new, y)
                    => NameIn(g.memory, y) = NameIn(memory, y)
        /\ NameIn(g.memory, g.value) = NameIn(memory, root[r])
    BY <1>0, <1>4, <1>5, <1>7, ScavengeKeepsContents
  <1>9. RootsNamed(g.memory, root', before)
    <2> SUFFICES ASSUME NEW s \in Roots PROVE NameIn(g.memory, root'[s]) = before.root[s]
      BY DEF RootsNamed
    <2>1. NameIn(memory, root[s]) = before.root[s]
      BY <1>4 DEF Collecting, RootsNamed
    <2>2. CASE s = r
      BY <1>2, <1>4, <1>5, <1>6, <1>8, <2>2
    <2>3. CASE s # r
      <3>1. root'[s] = root[s]
        BY <1>2, <1>4, <2>3
      <3>2. NameIn(g.memory, root[s]) = NameIn(memory, root[s])
        BY <1>4, <1>8
      <3> QED BY <2>1, <3>1, <3>2
    <2> QED BY <2>2, <2>3
  <1>10. Collecting(g.memory, current, g.space, weak, root', before, phase')
    BY <1>4, <1>8, <1>9 DEF Collecting
  <1> QED BY <1>2, <1>3, <1>4, <1>10 DEF FaithfulInv

(* An object of the new space is written without changing what it tells.   *)
LEMMA WriteKeepsContents ==
  ASSUME SpacesOK(memory, current, new, made, scan, weak),
         NEW m \in Memories, NEW n \in Seq(Blocks), NEW k, NEW sc,
         SpacesOK(m, current, n, k, sc, weak),
         NEW v, NEW ph, Contents(m, current, n, v, ph), Reaches(v, Copies(m, n)),
         \A p \in Range(weak) : Cell(m, p).ok,
         NEW a \in Ptrs, Lies(m, n, a), NEW o \in Objs, o.id = Cell(m, a).id,
         NEW w2, Range(w2) \subseteq Range(weak), a \notin Range(w2),
         NEW ph2, ph = "weak" => ph2 = "weak",
         \/ Tells(Put(m, a, o), v, o)
         \/ ph2 = "weak" /\ Breaks(Put(m, a, o), n, v, o)
  PROVE  /\ Contents(Put(m, a, o), current, n, v, ph2)
         /\ Reaches(v, Copies(Put(m, a, o), n))
         /\ \A p \in Range(w2) : Cell(Put(m, a, o), p).ok
         /\ \A y : Known(m, current, y) \/ Known(m, n, y) => NameIn(Put(m, a, o), y) = NameIn(m, y)
  <1> DEFINE q == Put(m, a, o)
  <1>1. ~ Forwarded(Cell(m, a)) /\ a.slot <= Len(m[a.block]) /\ current \in Seq(Blocks)
        /\ Alive(m, current, n, a)
    BY SpacesParts DEF CopiesOK, Lies, Alive
  <1>2. /\ \A s \in Seq(Blocks) : \A y : Known(m, s, y) => NameIn(q, y) = NameIn(m, y)
        /\ Copies(q, n) = Copies(m, n)
        /\ \A p \in Ptrs : Alive(q, current, n, p) <=> Alive(m, current, n, p)
    BY <1>1, WritingKeepsNames
  <1>3. /\ Cell(q, a) = o
        /\ \A p \in Ptrs : p # a => Cell(q, p) = Cell(m, p)
        /\ \A s \in Seq(Blocks), p \in Ptrs : Lies(q, s, p) <=> Lies(m, s, p)
    <2>1. a.slot <= Len(m[a.block]) /\ o \in Cells
      BY <1>1, ObjParts
    <2> QED BY <2>1, PutCell
  <1> HIDE DEF q
  <1>4. ASSUME NEW p \in Ptrs, Alive(q, current, n, p)
        PROVE  Tells(q, v, Cell(q, p)) \/ (ph2 = "weak" /\ Lies(q, n, p) /\ Breaks(q, n, v, Cell(q, p)))
    <2>1. CASE p = a
      BY <1>3, <2>1 DEF q
    <2>2. CASE p # a
      <3> DEFINE u == Cell(m, p)
      <3>1. Cell(q, p) = u /\ Alive(m, current, n, p)
        BY <1>2, <1>3, <1>4, <2>2
      <3>2. \A f \in DOMAIN u.fields : Known(m, current, u.fields[f]) \/ Known(m, n, u.fields[f])
        BY <3>1, FieldsKnown
      <3>3. Tells(m, v, u) \/ (ph = "weak" /\ Lies(m, n, p) /\ Breaks(m, n, v, u))
        BY <3>1 DEF Contents
      <3> HIDE DEF u
      <3>4. Rec(q, u) = Rec(m, u)
        BY <1>1, <1>2, <3>2, RecStays
      <3>5. Tells(m, v, u) => Tells(q, v, u)
        BY <3>4 DEF Tells
      <3>6. Breaks(m, n, v, u) => Breaks(q, n, v, u)
        BY <1>2, <3>4 DEF Breaks
      <3> QED BY <1>3, <3>1, <3>3, <3>5, <3>6
    <2> QED BY <2>1, <2>2
  <1>5. Contents(q, current, n, v, ph2)
    BY <1>4 DEF Contents
  <1>6. Reaches(v, Copies(q, n))
    BY <1>2
  <1>7. ASSUME NEW p \in Range(w2) PROVE Cell(q, p).ok
    <2>1. p \in Ptrs /\ p # a /\ p \in Range(weak)
      <3>1. WeakOK(m, n, sc, weak)
        BY SpacesParts
      <3>2. \A i \in DOMAIN weak : weak[i] \in Ptrs
        BY <3>1 DEF WeakOK
      <3>3. \A u \in Range(weak) : u \in Ptrs
        BY <3>2 DEF Range
      <3> QED BY <3>3
    <2> QED BY <1>3, <2>1
  <1>8. \A y : Known(m, current, y) \/ Known(m, n, y) => NameIn(q, y) = NameIn(m, y)
    BY <1>1, <1>2
  <1> QED BY <1>5, <1>6, <1>7, <1>8 DEF q

-----------------------------------------------------------------------------
(* Two objects whose fields are called the same tell the same. *)
LEMMA RecSame ==
  ASSUME NEW m, NEW m2, NEW c, NEW o, o.kind = c.kind, o.ok = c.ok,
         DOMAIN o.fields = DOMAIN c.fields,
         \A h \in DOMAIN c.fields : NameIn(m2, o.fields[h]) = NameIn(m, c.fields[h])
  PROVE  Rec(m2, o) = Rec(m, c)
  BY DEF Rec

(* What the program saw of an object that is copied keeps its fields.      *)
LEMMA HeldIsReached ==
  ASSUME NEW v, WholeView(v), NEW m, NEW n, Reaches(v, Copies(m, n)),
         NEW p \in Ptrs, Lies(m, n, p), Tells(m, v, Cell(m, p)),
         NEW f \in Followed(Cell(m, p)), Cell(m, p).kind = "weak" => f = 1
  PROVE  Reaches(v, {NameIn(m, Cell(m, p).fields[f])} \ {Nil})
  <1> DEFINE c == Cell(m, p)  y == NameIn(m, c.fields[f])
  <1>1. /\ c.id \in DOMAIN v.objects /\ c.kind = v.objects[c.id].kind
        /\ c.kind = "weak" => c.ok = v.objects[c.id].ok
        /\ FieldsOf(v.objects[c.id]) = {NameIn(m, c.fields[h]) : h \in DOMAIN c.fields} \ {Nil}
    BY ToldHolds
  <1>2. f \in DOMAIN c.fields
    BY DEF Followed
  <1>3. c.id \in Copies(m, n)
    BY DEF Copies
  <1>4. CASE c.kind = "weak" /\ c.ok
    <2>1. c.fields[f] = Nil
      BY <1>4 DEF Followed, IsPtr
    <2>2. y = Nil
      BY <2>1 DEF NameIn
    <2> QED BY <2>2 DEF Reaches
  <1>5. CASE ~ (c.kind = "weak" /\ c.ok)
    <2>1. Holds(v, c.id) = FieldsOf(v.objects[c.id])
      BY <1>1, <1>5 DEF Holds
    <2>2. {y} \ {Nil} \subseteq Holds(v, c.id)
      BY <1>1, <1>2, <2>1
    <2> HIDE DEF y, c
    <2> SUFFICES ASSUME NEW S, Closed(v, S), FromRoots(v) \ {Nil} \subseteq S
                 PROVE  {y} \ {Nil} \subseteq S
      BY DEF Reaches, y, c
    <2>3. c.id \in S
      BY <1>3 DEF Reaches
    <2>4. Holds(v, c.id) \subseteq S
      BY <2>3 DEF Closed
    <2> QED BY <2>2, <2>4
  <1> QED BY <1>4, <1>5

LEMMA ScavengeFieldFaithful ==
  ASSUME CollectorInv, FaithfulInv, ScavengeField
  PROVE  FaithfulInv'
  <1> DEFINE p == NextCopy  f == scan.fields + 1  c == Cell(memory, p)  x == c.fields[f]
  <1>1. /\ phase = "scan" /\ new # <<>> /\ scan.slot < Len(memory[new[scan.block]])
        /\ f \in Followed(c)
        /\ UNCHANGED <<current, phase, todo, weak, root, hashState, made, collections, before>>
    BY DEF ScavengeField, ObjectThere, Deref, Cell
  <1>2. PICK g \in Scavenge(x) :
          /\ memory' = [g.memory EXCEPT ![p.block][p.slot].fields[f] = g.value]
          /\ new' = g.space
    BY DEF ScavengeField, Deref, Cell
  <1> DEFINE m1 == g.memory  n1 == g.space  v == g.value
  <1>3. memory' = WithField(m1, p, f, v) /\ new' = n1
    BY <1>2 DEF WithField
  <1>4. /\ SpacesOK(memory, current, new, made, scan, weak)
        /\ Collecting(memory, current, new, weak, root, before, phase)
        /\ hashState = Nil /\ made <= MaxObjects /\ todo = {}
        /\ \A r \in Roots : Known(memory, new, root[r])
    BY <1>1, FaithfulIn
  <1>5. p = NextIn(new, scan)
    BY DEF NextCopy, NextIn
  <1> HIDE DEF p
  <1>6. /\ p \in Ptrs /\ Lies(memory, new, p) /\ Alive(memory, current, new, p)
        /\ c \in Objs /\ WellMade(c, made) /\ p \notin Range(weak)
        /\ scan.fields \in Nat
        /\ \A h : Done(new, scan, p, h) <=> h <= scan.fields
    BY <1>1, <1>4, <1>5, ScanPlace
  <1>7. f \in Nat \ {0} /\ ~ (f <= scan.fields)
    BY <1>6
  <1>8. f \in DOMAIN c.fields
    BY <1>1 DEF Followed
  <1>9. c.kind = "weak" => f = 1
    BY <1>6, <1>8, ObjParts DEF WellMade
  <1> HIDE DEF f
  <1>10. Known(memory, current, x)
    <2>1. FieldsMove(memory, current, new, scan, weak)
      BY <1>4, SpacesParts
    <2> QED BY <1>6, <1>7, <1>8, <2>1 DEF FieldsMove
  <1>11. Tells(memory, before, c)
    BY <1>1, <1>4, <1>6 DEF Collecting, Contents
  <1>12. Reaches(before, {NameIn(memory, x)} \ {Nil})
    BY <1>1, <1>4, <1>6, <1>9, <1>11, HeldIsReached DEF Collecting
  <1> HIDE DEF x
  <1>13. /\ \A ph2 : Contents(m1, current, n1, before, ph2)
         /\ Reaches(before, Copies(m1, n1))
         /\ \A q \in Range(weak) : Cell(m1, q).ok
         /\ \A y : Known(memory, current, y) \/ Known(memory, new, y)
                     => NameIn(m1, y) = NameIn(memory, y)
         /\ NameIn(m1, v) = NameIn(memory, x)
    BY <1>1, <1>2, <1>4, <1>10, <1>12, ScavengeKeepsContents
  <1>14. /\ SpacesOK(m1, current, n1, made, scan, weak)
         /\ Known(m1, n1, v)
         /\ \A y : Known(memory, current, y) => Known(m1, current, y)
         /\ \A y : Known(memory, new, y) => Known(m1, n1, y)
         /\ Lies(m1, n1, p) /\ Cell(m1, p) = c
    BY <1>1, <1>4, <1>6, <1>10, Scavenged
  <1> HIDE DEF m1, n1, v
  <1>15. m1 \in Memories /\ n1 \in Seq(Blocks) /\ current \in Seq(Blocks) /\ CopiesOK(m1, current, n1, made)
    BY <1>14, SpacesParts
  <1>16. v \in Values /\ ~ Forwarded(Cell(m1, p)) /\ p.slot <= Len(m1[p.block])
    BY <1>6, <1>14, <1>15 DEF Known, Values, CopiesOK, Lies
  <1>17. PICK o \in Objs :
           /\ WithField(m1, p, f, v) = Put(m1, p, o)
           /\ o.id = c.id /\ o.kind = c.kind /\ o.ok = c.ok
           /\ DOMAIN o.fields = DOMAIN c.fields
           /\ o.fields[f] = v
           /\ \A h \in DOMAIN c.fields : h # f => o.fields[h] = c.fields[h]
    BY <1>6, <1>8, <1>14, <1>15, <1>16, PutField
  <1> DEFINE m2 == Put(m1, p, o)
  <1>18. \A s \in Seq(Blocks) : \A y : Known(m1, s, y) => NameIn(m2, y) = NameIn(m1, y)
    BY <1>6, <1>14, <1>15, <1>16, <1>17, WritingKeepsNames
  <1>19. \A h \in DOMAIN c.fields :
           Known(memory, current, c.fields[h]) \/ Known(memory, new, c.fields[h])
    BY <1>4, <1>6, FieldsKnown
  <1> HIDE DEF c
  <1>20. ASSUME NEW h \in DOMAIN c.fields
         PROVE  NameIn(m2, o.fields[h]) = NameIn(memory, c.fields[h])
    <2> HIDE DEF m2
    <2>1. CASE h = f
      <3>1. NameIn(m2, v) = NameIn(m1, v)
        BY <1>14, <1>15, <1>18
      <3> QED BY <1>13, <1>17, <2>1, <3>1 DEF x
    <2>2. CASE h # f
      <3> DEFINE y == c.fields[h]
      <3>1. Known(memory, current, y) \/ Known(memory, new, y)
        BY <1>19
      <3>2. o.fields[h] = y
        BY <1>17, <2>2
      <3> HIDE DEF y
      <3>3. Known(m1, current, y) \/ Known(m1, n1, y)
        BY <1>14, <3>1
      <3>4. NameIn(m2, y) = NameIn(m1, y)
        BY <1>15, <1>18, <3>3
      <3> QED BY <1>13, <3>1, <3>2, <3>4 DEF y
    <2> QED BY <2>1, <2>2
  <1>21. Rec(m2, o) = Rec(memory, c)
    <2> HIDE DEF m2
    <2> QED BY <1>17, <1>20, RecSame
  <1>22. Tells(Put(m1, p, o), before, o)
    BY <1>11, <1>17, <1>21 DEF Tells
  <1>23. /\ Contents(Put(m1, p, o), current, n1, before, phase)
         /\ Reaches(before, Copies(Put(m1, p, o), n1))
         /\ \A q \in Range(weak) : Cell(Put(m1, p, o), q).ok
         /\ \A y : Known(m1, current, y) \/ Known(m1, n1, y)
                     => NameIn(Put(m1, p, o), y) = NameIn(m1, y)
    <2>1. Contents(m1, current, n1, before, phase)
      BY <1>13
    <2> QED BY ZenonT(60), <1>4, <1>6, <1>13, <1>14, <1>15, <1>17, <1>22, <2>1, WriteKeepsContents
  <1>24. RootsNamed(m2, root, before)
    <2> SUFFICES ASSUME NEW r \in Roots PROVE NameIn(m2, root[r]) = before.root[r]
      BY DEF RootsNamed
    <2>1. NameIn(memory, root[r]) = before.root[r] /\ Known(memory, new, root[r])
      BY <1>4 DEF Collecting, RootsNamed
    <2>2. NameIn(m1, root[r]) = before.root[r] /\ Known(m1, n1, root[r])
      BY <1>13, <1>14, <2>1
    <2> QED BY <1>15, <1>18, <2>2
  <1>25. Collecting(m2, current, n1, weak, root, before, phase)
    BY <1>4, <1>23, <1>24 DEF Collecting
  <1>26. memory' = m2 /\ new' = n1
    BY <1>3, <1>17
  <1> HIDE DEF m2
  <1> QED BY <1>1, <1>4, <1>25, <1>26 DEF FaithfulInv

(* A copy is passed: a weak pointer that keeps its object is put on the list. *)
LEMMA ScavengedObjectFaithful ==
  ASSUME CollectorInv, FaithfulInv, ScavengedObject
  PROVE  FaithfulInv'
  <1> DEFINE p == NextCopy  c == Cell(memory, p)
  <1>1. /\ phase = "scan" /\ new # <<>> /\ scan.slot < Len(memory[new[scan.block]])
        /\ UNCHANGED <<memory, current, new, phase, todo, root, hashState, made, before>>
        /\ weak' = IF c.kind = "weak" /\ Followed(c) = {} THEN <<p>> \o weak ELSE weak
    BY DEF ScavengedObject, ObjectThere, Deref, Cell, spaceVars
  <1>2. /\ SpacesOK(memory, current, new, made, scan, weak)
        /\ Collecting(memory, current, new, weak, root, before, phase)
        /\ hashState = Nil /\ made <= MaxObjects
    BY <1>1, FaithfulIn
  <1>3. p = NextIn(new, scan)
    BY DEF NextCopy, NextIn
  <1> HIDE DEF p
  <1>4. p \in Ptrs /\ c \in Objs /\ WellMade(c, made)
    BY <1>1, <1>2, <1>3, ScanPlace
  <1>5. c.kind = "weak" /\ Followed(c) = {} => c.ok
    <2>1. c.kind = "weak" => 1 \in DOMAIN c.fields
      BY <1>4, ObjParts DEF WellMade
    <2> QED BY <2>1 DEF Followed
  <1>6. \A q \in Range(weak) : Cell(memory, q).ok
    BY <1>2 DEF Collecting
  <1>7. weak \in Seq(Ptrs)
    BY <1>2, SpacesParts DEF WeakOK
  <1>8. ASSUME NEW q \in Range(weak') PROVE Cell(memory, q).ok
    <2>1. CASE c.kind = "weak" /\ Followed(c) = {}
      <3>1. weak' = <<p>> \o weak
        BY <1>1, <2>1
      <3>2. PICK i \in DOMAIN (<<p>> \o weak) : q = (<<p>> \o weak)[i]
        BY <1>8, <3>1 DEF Range
      <3>3. q = p \/ q \in Range(weak)
        BY <1>4, <1>7, <3>2 DEF Range
      <3> QED BY <1>5, <1>6, <2>1, <3>3
    <2>2. CASE ~ (c.kind = "weak" /\ Followed(c) = {})
      BY <1>1, <1>6, <1>8, <2>2
    <2> QED BY <2>1, <2>2
  <1>9. Collecting(memory, current, new, weak', root, before, phase)
    BY <1>2, <1>8 DEF Collecting
  <1> QED BY <1>1, <1>2, <1>9 DEF FaithfulInv

LEMMA ScavengedBlockFaithful ==
  ASSUME CollectorInv, FaithfulInv, ScavengedBlock
  PROVE  FaithfulInv'
  <1>1. /\ phase = "scan"
        /\ UNCHANGED <<memory, current, new, weak, todo, root, hashState, made, before>>
    BY DEF ScavengedBlock, spaceVars
  <1>2. /\ Collecting(memory, current, new, weak, root, before, phase)
        /\ hashState = Nil /\ made <= MaxObjects
    BY <1>1, FaithfulIn
  <1>3. Contents(memory, current, new, before, phase')
    BY <1>1, <1>2 DEF Collecting, Contents
  <1>4. Collecting(memory, current, new, weak, root, before, phase')
    BY <1>2, <1>3 DEF Collecting
  <1> QED BY <1>1, <1>2, <1>4 DEF FaithfulInv

(* What is not moved when the scan is over is not kept by the roots. *)
LEMMA BreakWeakPointerFaithful ==
  ASSUME CollectorInv, FaithfulInv, BreakWeakPointer
  PROVE  FaithfulInv'
  <1> DEFINE a == Head(weak)  c == Cell(memory, a)  x == c.fields[1]
  <1>1. /\ phase = "weak" /\ weak' = Tail(weak)
        /\ UNCHANGED <<current, new, phase, todo, scan, root, hashState, made, before>>
        /\ SpacesOK(memory, current, new, made, scan, weak)
        /\ a \in Range(weak) /\ a \in Ptrs
        /\ weak' \in Seq(Ptrs) /\ Range(weak') = Range(weak) \ {a}
        /\ Lies(memory, new, a) /\ c.kind = "weak"
        /\ ~ Lies(memory, current, a) /\ Alive(memory, current, new, a)
        /\ a.slot <= Len(memory[a.block]) /\ c \in Objs
        /\ x \in Ptrs /\ Lies(memory, current, x)
        /\ Forwarded(Cell(memory, x)) =>
             Cell(memory, x).to \in Ptrs /\ Lies(memory, new, Cell(memory, x).to)
    BY WeakPointerWritten
  <1>2. PICK o \in Objs :
          /\ memory' = Put(memory, a, o)
          /\ o.id = c.id /\ o.kind = c.kind
          /\ DOMAIN c.fields = {1} /\ DOMAIN o.fields = {1}
          /\ Len(o.fields) = Len(c.fields)
          /\ IF Forwarded(Cell(memory, x)) THEN o.ok = c.ok /\ o.fields[1] = Cell(memory, x).to
                                           ELSE o.ok = FALSE /\ o.fields[1] = Nil
    BY WeakPointerWritten
  <1> HIDE DEF a, x
  <1>3. /\ Collecting(memory, current, new, weak, root, before, phase)
        /\ hashState = Nil /\ made <= MaxObjects
        /\ \A r \in Roots : Known(memory, new, root[r])
    BY <1>1, FaithfulIn
  <1>4. memory \in Memories /\ new \in Seq(Blocks) /\ current \in Seq(Blocks)
        /\ CopiesOK(memory, current, new, made)
    BY <1>1, SpacesParts
  <1>5. ~ Forwarded(c)
    BY <1>1 DEF Alive
  <1> DEFINE m2 == Put(memory, a, o)
  <1>6. /\ \A s \in Seq(Blocks) : \A y : Known(memory, s, y) => NameIn(m2, y) = NameIn(memory, y)
        /\ Copies(m2, new) = Copies(memory, new)
    BY <1>1, <1>2, <1>4, <1>5, WritingKeepsNames
  <1>7. WholeView(before)
    BY <1>3 DEF Collecting
  <1>8. x = c.fields[1]
    BY DEF x
  (* A weak pointer on the list is not looked at yet. *)
  <1>9. Tells(memory, before, c)
    <2>1. c.ok
      BY <1>1, <1>3 DEF Collecting
    <2>2. Rec(memory, c).ok = c.ok
      BY DEF Rec
    <2>3. c.ok = TRUE /\ Lost.ok = FALSE
      BY <1>1, <2>1, ObjParts DEF Lost
    <2>4. Rec(memory, c) # Lost
      BY <2>2, <2>3
    <2>5. ~ Breaks(memory, new, before, c)
      BY <2>4 DEF Breaks
    <2> QED BY <1>1, <1>3, <2>5 DEF Collecting, Contents
  <1> HIDE DEF c
  <1>10. Tells(m2, before, o) \/ Breaks(m2, new, before, o)
    <2> HIDE DEF m2
    <2>1. CASE Forwarded(Cell(memory, x))
      <3> DEFINE t == Cell(memory, x).to
      <3>1. t \in Ptrs /\ Lies(memory, new, t)
        BY <1>1, <2>1
      <3>2. NameIn(memory, x) = Cell(memory, t).id
        BY <1>1, <2>1, PtrParts DEF NameIn, IdIn
      <3>3. NameIn(memory, t) = Cell(memory, t).id
        BY <1>1, <3>1, NamedIsAlive
      <3>4. NameIn(m2, t) = NameIn(memory, t)
        BY <1>4, <1>6, <3>1 DEF Known
      <3>5. o.fields[1] = t /\ o.ok = c.ok
        BY <1>2, <2>1
      <3>6. Rec(m2, o) = Rec(memory, c)
        <4>1. \A h \in DOMAIN c.fields : NameIn(m2, o.fields[h]) = NameIn(memory, c.fields[h])
          BY <1>2, <1>8, <3>2, <3>3, <3>4, <3>5
        <4> QED BY <1>2, <3>5, <4>1, RecSame
      <3> QED BY <1>2, <1>9, <3>6 DEF Tells
    <2>2. CASE ~ Forwarded(Cell(memory, x))
      <3> DEFINE i == NameIn(memory, x)
      <3>1. Rec(m2, o) = Lost
        <4>1. o.fields = <<Nil>>
          <5> DEFINE s == o.fields
          <5>1. s \in Seq(Values) /\ DOMAIN s = {1} /\ s[1] = Nil
            BY <1>2, <2>2, ObjParts
          <5> HIDE DEF s
          <5>2. s = <<Nil>>
            BY <5>1
          <5> QED BY <5>2 DEF s
        <4>2. [f \in DOMAIN <<Nil>> |-> NameIn(m2, <<Nil>>[f])] = <<Nil>>
          BY DEF NameIn
        <4> QED BY <1>1, <1>2, <2>2, <4>1, <4>2 DEF Rec, Lost
      <3>2. i = Cell(memory, x).id /\ i # Nil /\ Alive(memory, current, new, x)
        BY <1>1, <2>2, NamedIsAlive, PtrParts DEF NameIn, IdIn, Alive
      <3>3. i \notin Copies(memory, new)
        <4> SUFFICES ASSUME NEW q \in Ptrs, Lies(memory, new, q), Cell(memory, q).id = i PROVE FALSE
          BY DEF Copies
        <4>1. Alive(memory, current, new, q)
          BY <1>4 DEF CopiesOK, Alive
        <4>2. q = x
          BY <1>1, <1>4, <3>2, <4>1 DEF CopiesOK
        <4> QED BY <1>1, <1>4, <4>2, SpacesParts, OnePlace
      <3>4. /\ c.id \in DOMAIN before.objects /\ before.objects[c.id].kind = "weak"
            /\ before.objects[c.id].ok
        <4>1. c.id \in DOMAIN before.objects /\ before.objects[c.id].kind = c.kind
          BY <1>7, <1>9, ToldHolds
        <4>2. c.kind = "weak"
          BY <1>1 DEF c
        <4>3. c.ok
          BY <1>1, <1>3 DEF Collecting, c
        <4>4. before.objects[c.id].ok
          BY <1>7, <1>9, <4>2, <4>3, ToldHolds
        <4> QED BY <4>1, <4>2, <4>4
      <3>5. i \in FieldsOf(before.objects[c.id])
        <4> DEFINE held == before.objects[c.id].fields
        <4>1. 1 \in DOMAIN c.fields /\ c.fields[1] = x
          BY <1>2 DEF x
        <4>2. 1 \in DOMAIN held /\ held[1] = i
          <5>1. /\ DOMAIN c.fields = DOMAIN held
                /\ \A f \in DOMAIN c.fields : NameIn(memory, c.fields[f]) = held[f]
            BY <1>7, <1>9, ToldHolds
          <5> HIDE DEF held
          <5> QED BY <4>1, <5>1
        <4> QED BY <3>2, <4>2 DEF FieldsOf
      <3> QED BY <1>2, <1>6, <3>1, <3>3, <3>4, <3>5 DEF Breaks
    <2> QED BY <2>1, <2>2
  <1>11. /\ Contents(Put(memory, a, o), current, new, before, phase)
         /\ Reaches(before, Copies(Put(memory, a, o), new))
         /\ \A q \in Range(weak') : Cell(Put(memory, a, o), q).ok
         /\ \A y : Known(memory, current, y) \/ Known(memory, new, y)
                     => NameIn(Put(memory, a, o), y) = NameIn(memory, y)
    <2>1. Contents(memory, current, new, before, phase) /\ Reaches(before, Copies(memory, new))
          /\ \A q \in Range(weak) : Cell(memory, q).ok
      BY <1>3 DEF Collecting
    <2>2. o.id = Cell(memory, a).id
      BY <1>2 DEF c
    <2>3. Range(weak') \subseteq Range(weak) /\ a \notin Range(weak')
      BY <1>1
    <2>4. \/ Tells(Put(memory, a, o), before, o)
          \/ phase = "weak" /\ Breaks(Put(memory, a, o), new, before, o)
      BY <1>1, <1>10
    <2> QED BY SMTT(60), <1>1, <1>4, <2>1, <2>2, <2>3, <2>4, WriteKeepsContents
  <1>12. RootsNamed(m2, root, before)
    <2> SUFFICES ASSUME NEW r \in Roots PROVE NameIn(m2, root[r]) = before.root[r]
      BY DEF RootsNamed
    <2>1. NameIn(memory, root[r]) = before.root[r] /\ Known(memory, new, root[r])
      BY <1>3 DEF Collecting, RootsNamed
    <2> QED BY <1>4, <1>6, <2>1
  <1>13. Collecting(m2, current, new, weak', root, before, phase)
    BY <1>7, <1>11, <1>12 DEF Collecting
  <1>14. memory' = m2
    BY <1>2
  <1> HIDE DEF m2
  <1> QED BY <1>1, <1>3, <1>13, <1>14 DEF FaithfulInv

-----------------------------------------------------------------------------
(***************************************************************************)
(* Between collections the program sees what lies in the one space.        *)
(***************************************************************************)
LyingIn(m, c) == {p \in Ptrs : Lies(m, c, p)}
ObjectsIn(m, c) ==
  [i \in Copies(m, c) |-> Rec(m, CHOOSE o \in {Cell(m, p) : p \in LyingIn(m, c)} : o.id = i)]
RootsIn(m, rt) == [r \in Roots |-> NameIn(m, rt[r])]

Shows(v, m, c, rt, hs) ==
  v.root = RootsIn(m, rt) /\ v.objects = ObjectsIn(m, c) /\ v.state = NameIn(m, hs)

(* One space, where nothing is forwarded. *)
Settled(m, c, k) ==
  /\ m \in Memories /\ c \in Seq(Blocks) /\ k \in Nat
  /\ FieldsStay(m, c)
  /\ \A p \in Ptrs : Lies(m, c, p) => ~ Forwarded(Cell(m, p)) /\ WellMade(Cell(m, p), k)
  /\ \A p, q \in Ptrs :
       Lies(m, c, p) /\ Lies(m, c, q) /\ Cell(m, p).id = Cell(m, q).id => p = q

SeenInv ==
  phase = "off" =>
    Shows(Seen, memory, current, root, hashState) /\ Settled(memory, current, made)

LEMMA IdleSettled ==
  ASSUME CollectorInv, phase = "off"
  PROVE  /\ Settled(memory, current, made)
         /\ \A r \in Roots : Known(memory, current, root[r])
         /\ Known(memory, current, hashState) /\ root \in [Roots -> Values]
         /\ new = <<>> /\ weak = <<>>
  <1>1. /\ memory \in Memories /\ current \in Seq(Blocks) /\ made \in Nat
        /\ CopiesOK(memory, current, <<>>, made) /\ FieldsStay(memory, current)
        /\ root \in [Roots -> Values] /\ \A r \in Roots : Known(memory, current, root[r])
        /\ Known(memory, current, hashState)
        /\ \A p \in Ptrs : Lies(memory, current, p) => ~ Forwarded(Cell(memory, p))
        /\ new = <<>> /\ weak = <<>>
    BY Idle
  <1>2. \A p \in Ptrs : Lies(memory, current, p) => Alive(memory, current, <<>>, p)
    BY <1>1 DEF Alive
  <1> QED BY <1>1, <1>2 DEF Settled, CopiesOK

LEMMA SettledParts ==
  ASSUME NEW m, NEW c, NEW k, Settled(m, c, k)
  PROVE  /\ m \in Memories /\ c \in Seq(Blocks) /\ k \in Nat
         /\ \A p \in LyingIn(m, c) :
              /\ p \in Ptrs /\ Lies(m, c, p) /\ p.slot <= Len(m[p.block])
              /\ Cell(m, p) \in Objs /\ ~ Forwarded(Cell(m, p))
              /\ WellMade(Cell(m, p), k) /\ Cell(m, p).id \in 1..k
              /\ Cell(m, p).id \in Copies(m, c)
              /\ NameIn(m, p) = Cell(m, p).id /\ p # Nil /\ Cell(m, p).id # Nil
              /\ ObjectsIn(m, c)[Cell(m, p).id] = Rec(m, Cell(m, p))
              /\ \A f \in DOMAIN Cell(m, p).fields : Known(m, c, Cell(m, p).fields[f])
         /\ DOMAIN ObjectsIn(m, c) = Copies(m, c)
         /\ ObjectsIn(m, c) = [i \in Copies(m, c) |-> ObjectsIn(m, c)[i]]
         /\ \A i \in Copies(m, c) : \E p \in LyingIn(m, c) : Cell(m, p).id = i
         /\ Copies(m, c) \subseteq 1..k
         /\ \A x : Known(m, c, x) => x = Nil \/ x \in LyingIn(m, c)
         /\ \A x : Known(m, c, x) => NameIn(m, x) \in Copies(m, c) \cup {Nil}
         /\ \A x : Known(m, c, x) => (NameIn(m, x) = Nil <=> x = Nil)
  <1>1. /\ m \in Memories /\ c \in Seq(Blocks) /\ k \in Nat
        /\ FieldsStay(m, c)
        /\ \A p \in Ptrs : Lies(m, c, p) => ~ Forwarded(Cell(m, p)) /\ WellMade(Cell(m, p), k)
        /\ \A p, q \in Ptrs :
             Lies(m, c, p) /\ Lies(m, c, q) /\ Cell(m, p).id = Cell(m, q).id => p = q
    BY DEF Settled
  <1>2. ASSUME NEW p \in LyingIn(m, c)
        PROVE  /\ p \in Ptrs /\ Lies(m, c, p) /\ p.slot <= Len(m[p.block])
               /\ Cell(m, p) \in Objs /\ ~ Forwarded(Cell(m, p))
               /\ WellMade(Cell(m, p), k) /\ Cell(m, p).id \in 1..k
               /\ Cell(m, p).id \in Copies(m, c)
               /\ NameIn(m, p) = Cell(m, p).id /\ p # Nil /\ Cell(m, p).id # Nil
    <2>1. p \in Ptrs /\ Lies(m, c, p) /\ p.slot <= Len(m[p.block])
      BY DEF LyingIn, Lies
    <2>2. ~ Forwarded(Cell(m, p)) /\ WellMade(Cell(m, p), k)
      BY <1>1, <2>1
    <2>3. Cell(m, p).id \in 1..k
      BY <2>2 DEF WellMade
    <2>4. Cell(m, p).id \in Copies(m, c)
      BY <2>1 DEF Copies
    <2>5. Cell(m, p).id # Nil
      BY <1>1, <2>3, NilIsNoId
    <2>6. Cell(m, p) \in Objs
      BY <1>1, <2>1, <2>2, CellParts
    <2> QED BY <2>1, <2>2, <2>3, <2>4, <2>5, <2>6, PtrParts DEF NameIn, IdIn
  <1>3. ASSUME NEW p \in LyingIn(m, c)
        PROVE  ObjectsIn(m, c)[Cell(m, p).id] = Rec(m, Cell(m, p))
    <2> DEFINE C == {Cell(m, q) : q \in LyingIn(m, c)}  o == Cell(m, p)
    <2>1. o \in C
      OBVIOUS
    <2>2. \A q \in LyingIn(m, c) : Cell(m, q).id = o.id => Cell(m, q) = o
      BY <1>1, <1>2
    <2>3. \A u \in C : u.id = o.id => u = o
      BY <2>2
    <2>4. o.id \in Copies(m, c)
      BY <1>2
    <2>5. ObjectsIn(m, c)[o.id] = Rec(m, CHOOSE u \in C : u.id = o.id)
      BY <2>4 DEF ObjectsIn
    <2> HIDE DEF C, o
    <2>6. (CHOOSE u \in C : u.id = o.id) = o
      BY <2>1, <2>3
    <2>7. ObjectsIn(m, c)[o.id] = Rec(m, o)
      BY <2>5, <2>6
    <2> QED BY <2>7 DEF o
  <1>4. \A p \in LyingIn(m, c) :
          \A f \in DOMAIN Cell(m, p).fields : Known(m, c, Cell(m, p).fields[f])
    BY <1>1, <1>2 DEF FieldsStay
  <1>5. DOMAIN ObjectsIn(m, c) = Copies(m, c)
        /\ ObjectsIn(m, c) = [i \in Copies(m, c) |-> ObjectsIn(m, c)[i]]
    BY DEF ObjectsIn
  <1>6. \A i \in Copies(m, c) : \E p \in LyingIn(m, c) : Cell(m, p).id = i
    BY DEF Copies, LyingIn
  <1>7. Copies(m, c) \subseteq 1..k
    BY <1>2, <1>6
  <1>8. \A x : Known(m, c, x) => x = Nil \/ x \in LyingIn(m, c)
    BY DEF Known, LyingIn
  <1>9. \A x : Known(m, c, x) => NameIn(m, x) \in Copies(m, c) \cup {Nil}
    BY <1>2, <1>8 DEF NameIn
  <1>10. \A x : Known(m, c, x) => (NameIn(m, x) = Nil <=> x = Nil)
    BY <1>2, <1>8 DEF NameIn
  <1> QED BY <1>1, <1>2, <1>3, <1>4, <1>5, <1>6, <1>7, <1>8, <1>9, <1>10

LEMMA ViewShows ==
  ASSUME CollectorInv
  PROVE  SeenInv
  <1> SUFFICES ASSUME phase = "off" PROVE Shows(View, memory, current, root, hashState)
    BY IdleSettled DEF SeenInv, Seen
  <1>1. /\ Settled(memory, current, made)
        /\ \A r \in Roots : Known(memory, current, root[r])
        /\ Known(memory, current, hashState)
    BY IdleSettled
  <1>2. \A p : Deref(p) = Cell(memory, p)
    BY DEF Deref, Cell
  <1>3. \A x : Known(memory, current, x) => Name(x) = NameIn(memory, x)
    <2> SUFFICES ASSUME NEW x, Known(memory, current, x) PROVE Name(x) = NameIn(memory, x)
      OBVIOUS
    <2>1. CASE x = Nil
      BY <2>1 DEF Name, NameIn, IsPtr
    <2>2. CASE x # Nil
      <3>1. x \in LyingIn(memory, current)
        BY <2>2 DEF Known, LyingIn
      <3>2. NameIn(memory, x) = Cell(memory, x).id
        BY <1>1, <3>1, SettledParts
      <3> QED BY <1>2, <2>2, <3>2 DEF Name, IsPtr
    <2> QED BY <2>1, <2>2
  <1>4. Places(current) = LyingIn(memory, current)
    BY <1>1, PlacesAre, SettledParts DEF LyingIn
  <1> DEFINE C == {Cell(memory, p) : p \in LyingIn(memory, current)}
  <1>5. Objects = C
    BY <1>2, <1>4 DEF Objects
  <1>6. {o.id : o \in C} = Copies(memory, current)
    BY DEF Copies, LyingIn
  <1>7. ASSUME NEW o \in C
        PROVE  [kind |-> o.kind, ok |-> o.ok, fields |-> [f \in DOMAIN o.fields |-> Name(o.fields[f])]]
                 = Rec(memory, o)
    <2>1. \A f \in DOMAIN o.fields : Known(memory, current, o.fields[f])
      BY <1>1, SettledParts
    <2>2. \A f \in DOMAIN o.fields : Name(o.fields[f]) = NameIn(memory, o.fields[f])
      BY <1>3, <2>1
    <2> QED BY <2>2 DEF Rec
  <1>8. \A i \in Copies(memory, current) : (CHOOSE o \in C : o.id = i) \in C
    <2> SUFFICES ASSUME NEW i \in Copies(memory, current)
                 PROVE  (CHOOSE o \in C : o.id = i) \in C
      OBVIOUS
    <2>1. \E o \in C : o.id = i
      BY DEF Copies, LyingIn
    <2> HIDE DEF C
    <2> QED BY <2>1
  <1>9. View.objects = ObjectsIn(memory, current)
    <2> DEFINE T(o) == [kind |-> o.kind, ok |-> o.ok,
                        fields |-> [f \in DOMAIN o.fields |-> Name(o.fields[f])]]
               pick(i) == CHOOSE o \in C : o.id = i
    <2>1. View.objects = [i \in Copies(memory, current) |-> T(pick(i))]
      BY <1>5, <1>6 DEF View
    <2>2. \A i \in Copies(memory, current) : T(pick(i)) = Rec(memory, pick(i))
      BY <1>7, <1>8
    <2> HIDE DEF T, C
    <2>3. View.objects = [i \in Copies(memory, current) |-> Rec(memory, pick(i))]
      BY <2>1, <2>2
    <2> QED BY <2>3 DEF ObjectsIn, C
  <1>10. View.root = RootsIn(memory, root)
    BY <1>1, <1>3 DEF View, RootsIn
  <1>11. View.state = NameIn(memory, hashState)
    BY <1>1, <1>3 DEF View
  <1> QED BY <1>9, <1>10, <1>11 DEF Shows

(* What is shown is a heap. *)
LEMMA ShownIsWhole ==
  ASSUME NEW m, NEW c, NEW k, Settled(m, c, k), k <= MaxObjects,
         NEW rt, \A r \in Roots : Known(m, c, rt[r]),
         NEW hs, Known(m, c, hs), hs # Nil => Cell(m, hs).kind = "state",
         NEW v, Shows(v, m, c, rt, hs)
  PROVE  WholeView(v)
  <1> DEFINE D == Copies(m, c)
  <1>1. v.root = RootsIn(m, rt) /\ v.objects = ObjectsIn(m, c) /\ v.state = NameIn(m, hs)
    BY DEF Shows
  <1>2. DOMAIN v.objects = D /\ v.objects = [i \in D |-> v.objects[i]]
    BY <1>1, SettledParts
  <1>3. D \subseteq Ids
    <2>1. D \subseteq 1..k /\ k \in Nat
      BY SettledParts
    <2> QED BY <2>1, CollectorAssumption DEF Ids
  <1>4. Names(v) = D \cup {Nil}
    BY <1>2 DEF Names
  <1>5. ASSUME NEW i \in D
        PROVE  v.objects[i] \in [kind : Kinds, ok : BOOLEAN, fields : Seq(Names(v))]
    <2>1. PICK p \in LyingIn(m, c) : Cell(m, p).id = i
      BY SettledParts
    <2> DEFINE o == Cell(m, p)
    <2>2. o \in Objs /\ v.objects[i] = Rec(m, o)
          /\ \A f \in DOMAIN o.fields : Known(m, c, o.fields[f])
      BY <1>1, <2>1, SettledParts
    <2> HIDE DEF o
    <2> DEFINE s == [f \in DOMAIN o.fields |-> NameIn(m, o.fields[f])]
    <2>3. \A f \in DOMAIN o.fields : NameIn(m, o.fields[f]) \in Names(v)
      BY <1>4, <2>2, SettledParts
    <2>4. DOMAIN o.fields = 1..Len(o.fields) /\ Len(o.fields) \in Nat
          /\ o.kind \in Kinds /\ o.ok \in BOOLEAN
      BY <2>2, ObjParts
    <2>5. s \in Seq(Names(v))
      BY <2>3, <2>4
    <2>6. Rec(m, o) = [kind |-> o.kind, ok |-> o.ok, fields |-> s]
      BY DEF Rec
    <2> HIDE DEF s
    <2> QED BY <2>2, <2>4, <2>5, <2>6
  <1>6. v.root \in [Roots -> Names(v)]
    <2>1. \A r \in Roots : NameIn(m, rt[r]) \in Names(v)
      BY <1>4, SettledParts
    <2> QED BY <1>1, <2>1 DEF RootsIn
  <1>7. v.state \in Names(v)
    BY <1>1, <1>4, SettledParts
  <1>8. v.state # Nil => v.objects[v.state].kind = "state"
    <2> SUFFICES ASSUME v.state # Nil PROVE v.objects[v.state].kind = "state"
      OBVIOUS
    <2>1. hs # Nil
      BY <1>1 DEF NameIn
    <2>2. hs \in LyingIn(m, c)
      BY <2>1, SettledParts
    <2>3. v.objects[v.state] = Rec(m, Cell(m, hs))
      BY <1>1, <2>2, SettledParts
    <2> QED BY <2>1, <2>3 DEF Rec
  <1> HIDE DEF D
  <1>9. v.objects \in [DOMAIN v.objects -> [kind : Kinds, ok : BOOLEAN, fields : Seq(Names(v))]]
    BY <1>2, <1>5
  <1> QED BY <1>2, <1>3, <1>6, <1>7, <1>8, <1>9 DEF WholeView

-----------------------------------------------------------------------------
(***************************************************************************)
(* What the program does, it does to the heap that it sees.                *)
(***************************************************************************)

(* When only the roots change. *)
LEMMA SameHeapSeen ==
  ASSUME CollectorInv, FaithfulInv, SeenInv, SeenInv', phase = "off",
         memory' = memory, current' = current, phase' = phase, hashState' = hashState,
         made' = made
  PROVE  /\ FaithfulInv'
         /\ Seen.objects = ObjectsIn(memory, current) /\ Seen.root = RootsIn(memory, root)
         /\ Seen.state = NameIn(memory, hashState)
         /\ Seen'.objects = Seen.objects /\ Seen'.state = Seen.state
         /\ Seen'.root = RootsIn(memory, root')
  <1>1. FaithfulInv'
    BY DEF FaithfulInv
  <1>2. Shows(Seen, memory, current, root, hashState)
    BY DEF SeenInv
  <1>3. Shows(Seen', memory, current, root', hashState)
    BY DEF SeenInv
  <1> QED BY <1>1, <1>2, <1>3 DEF Shows

LEMMA ReadSeen ==
  ASSUME CollectorInv, FaithfulInv, SeenInv, SeenInv',
         NEW r \in Roots, NEW from \in Roots, Read(r, from)
  PROVE  FaithfulInv' /\ Promise!Read(r, from)
  <1> DEFINE a == root[from]  c == Cell(memory, a)
  <1>1. PICK f \in DOMAIN c.fields : root' = [root EXCEPT ![r] = c.fields[f]]
    BY DEF Read, Deref, Cell
  <1>2. /\ phase = "off" /\ a # Nil
        /\ memory' = memory /\ current' = current /\ phase' = phase /\ hashState' = hashState
        /\ made' = made
    BY DEF Read, IsPtr, spaceVars, gcVars
  <1>3. /\ Settled(memory, current, made) /\ root \in [Roots -> Values]
        /\ \A s \in Roots : Known(memory, current, root[s])
    BY <1>2, IdleSettled
  <1>4. /\ FaithfulInv'
        /\ Seen.objects = ObjectsIn(memory, current) /\ Seen.root = RootsIn(memory, root)
        /\ Seen'.objects = Seen.objects /\ Seen'.state = Seen.state
        /\ Seen'.root = RootsIn(memory, root')
    BY <1>2, SameHeapSeen
  <1>5. a \in LyingIn(memory, current)
    BY <1>2, <1>3, SettledParts
  <1>6. /\ NameIn(memory, a) = c.id /\ c.id # Nil
        /\ ObjectsIn(memory, current)[c.id] = Rec(memory, c)
    BY <1>3, <1>5, SettledParts
  <1>7. Seen.root[from] = c.id
    BY <1>4, <1>6 DEF RootsIn
  <1>8. /\ DOMAIN Seen.objects[c.id].fields = DOMAIN c.fields
        /\ Seen.objects[c.id].fields[f] = NameIn(memory, c.fields[f])
    BY <1>4, <1>6 DEF Rec
  <1> DEFINE x == c.fields[f]
  <1>9. Seen'.root = [Seen.root EXCEPT ![r] = NameIn(memory, x)]
    <2>1. root' = [root EXCEPT ![r] = x]
      BY <1>1
    <2> HIDE DEF x
    <2>2. RootsIn(memory, root') = [RootsIn(memory, root) EXCEPT ![r] = NameIn(memory, x)]
      BY <1>3, <2>1 DEF RootsIn
    <2> QED BY <1>4, <2>2
  <1> HIDE DEF a, c
  <1>10. Promise!Read(r, from)
    <2>1. Seen.root[from] # Nil
      BY <1>6, <1>7
    <2>2. f \in DOMAIN Seen.objects[Seen.root[from]].fields
      BY <1>1, <1>7, <1>8
    <2>3. Seen'.root = [Seen.root EXCEPT ![r] = Seen.objects[Seen.root[from]].fields[f]]
      BY <1>7, <1>8, <1>9
    <2>4. Seen'.objects = Seen.objects /\ Seen'.state = Seen.state /\ made' = made
      BY <1>2, <1>4
    <2> QED BY <2>1, <2>2, <2>3, <2>4 DEF Promise!Read
  <1> QED BY <1>4, <1>10

LEMMA DropSeen ==
  ASSUME CollectorInv, FaithfulInv, SeenInv, SeenInv', NEW r \in Roots, Drop(r)
  PROVE  FaithfulInv' /\ Promise!Drop(r)
  <1>1. /\ phase = "off" /\ root' = [root EXCEPT ![r] = Nil]
        /\ memory' = memory /\ current' = current /\ phase' = phase /\ hashState' = hashState
        /\ made' = made
    BY DEF Drop, spaceVars, gcVars
  <1>2. root \in [Roots -> Values]
    BY <1>1, IdleSettled
  <1>3. /\ FaithfulInv'
        /\ Seen.root = RootsIn(memory, root)
        /\ Seen'.objects = Seen.objects /\ Seen'.state = Seen.state
        /\ Seen'.root = RootsIn(memory, root')
    BY <1>1, SameHeapSeen
  <1>4. NameIn(memory, Nil) = Nil
    BY DEF NameIn
  <1>5. Seen'.root = [Seen.root EXCEPT ![r] = Nil]
    <2>1. RootsIn(memory, root') = [RootsIn(memory, root) EXCEPT ![r] = NameIn(memory, Nil)]
      BY <1>1, <1>2 DEF RootsIn
    <2> QED BY <1>3, <1>4, <2>1
  <1> QED BY <1>1, <1>3, <1>5 DEF Promise!Drop

LEMMA WriteSeen ==
  ASSUME CollectorInv, FaithfulInv, SeenInv, SeenInv', NEW r \in Roots, Write(r)
  PROVE  FaithfulInv' /\ Promise!Write(r)
  <1> DEFINE a == root[r]  c == Cell(memory, a)
  <1>1. PICK f \in 1..Fields, x \in Held :
          memory' = [memory EXCEPT ![root[r].block][root[r].slot].fields[f] = x]
    BY DEF Write
  <1>2. /\ phase = "off" /\ a # Nil /\ c.kind = "plain"
        /\ current' = current /\ phase' = phase /\ hashState' = hashState
        /\ made' = made /\ root' = root
    BY DEF Write, IsPtr, Deref, Cell, gcVars
  <1>3. /\ Settled(memory, current, made) /\ root \in [Roots -> Values]
        /\ \A s \in Roots : Known(memory, current, root[s])
        /\ Known(memory, current, hashState)
    BY <1>2, IdleSettled
  <1>4. a \in LyingIn(memory, current)
    BY <1>2, <1>3, SettledParts
  <1>5. /\ a \in Ptrs /\ Lies(memory, current, a) /\ a.slot <= Len(memory[a.block])
        /\ c \in Objs /\ ~ Forwarded(c) /\ WellMade(c, made)
        /\ NameIn(memory, a) = c.id /\ c.id # Nil /\ c.id \in Copies(memory, current)
        /\ ObjectsIn(memory, current)[c.id] = Rec(memory, c)
        /\ \A h \in DOMAIN c.fields : Known(memory, current, c.fields[h])
    BY <1>3, <1>4, SettledParts
  <1>6. f \in DOMAIN c.fields
    BY <1>2, <1>5, ObjParts DEF WellMade
  <1>7. x \in Values /\ Known(memory, current, x)
    BY <1>2, Idle DEF Held, Known, Values
  <1>8. memory \in Memories /\ current \in Seq(Blocks)
    BY <1>3, SettledParts
  <1>9. memory' = WithField(memory, a, f, x)
    BY <1>1 DEF WithField
  <1>10. PICK o \in Objs :
           /\ WithField(memory, a, f, x) = Put(memory, a, o)
           /\ o.id = c.id /\ o.kind = c.kind /\ o.ok = c.ok
           /\ DOMAIN o.fields = DOMAIN c.fields
           /\ o.fields[f] = x
           /\ \A g \in DOMAIN c.fields : g # f => o.fields[g] = c.fields[g]
    BY <1>5, <1>6, <1>7, <1>8, PutField
  <1> HIDE DEF a, c
  <1> DEFINE m2 == Put(memory, a, o)
  <1>11. /\ Cell(m2, a) = o
         /\ \A p \in Ptrs : p # a => Cell(m2, p) = Cell(memory, p)
         /\ \A p \in Ptrs : Lies(m2, current, p) <=> Lies(memory, current, p)
    <2>1. o \in Cells
      BY ObjParts
    <2> QED BY <1>5, <1>8, <2>1, PutCell
  <1>12. /\ \A y : Known(memory, current, y) => NameIn(m2, y) = NameIn(memory, y)
         /\ Copies(m2, current) = Copies(memory, current)
    BY <1>5, <1>8, <1>10, WritingKeepsNames DEF c
  <1>13. memory' = m2
    BY <1>9, <1>10
  <1> HIDE DEF m2
  <1>14. Shows(Seen, memory, current, root, hashState)
    BY <1>2 DEF SeenInv
  <1>15. Shows(Seen', m2, current, root, hashState)
    BY <1>2, <1>13 DEF SeenInv
  <1>16. Settled(m2, current, made)
    BY <1>2, <1>13 DEF SeenInv
  (* What the program sees changes in the one field. *)
  <1> DEFINE i == c.id  y == NameIn(memory, x)  v == ObjectsIn(memory, current)
             w == ObjectsIn(m2, current)
  <1>17. v[i] = Rec(memory, c) /\ w[i] = Rec(m2, o)
    <2>1. a \in LyingIn(m2, current)
      BY <1>5, <1>11 DEF LyingIn
    <2> QED BY <1>5, <1>10, <1>11, <1>16, <2>1, SettledParts
  <1>18. Rec(m2, o) = [Rec(memory, c) EXCEPT !.fields = [@ EXCEPT ![f] = y]]
    <2>1. \A h \in DOMAIN c.fields : NameIn(m2, o.fields[h]) = IF h = f THEN y ELSE NameIn(memory, c.fields[h])
      BY <1>5, <1>7, <1>10, <1>12
    <2> HIDE DEF y
    <2> DEFINE s == [h \in DOMAIN c.fields |-> NameIn(memory, c.fields[h])]
    <2>2. [h \in DOMAIN o.fields |-> NameIn(m2, o.fields[h])] = [s EXCEPT ![f] = y]
      BY <1>10, <2>1
    <2>3. Rec(memory, c) = [kind |-> c.kind, ok |-> c.ok, fields |-> s]
      BY DEF Rec
    <2>4. Rec(m2, o) = [kind |-> c.kind, ok |-> c.ok, fields |-> [s EXCEPT ![f] = y]]
      BY <1>10, <2>2 DEF Rec
    <2> HIDE DEF s
    <2> QED BY <2>3, <2>4
  <1>19. \A j \in Copies(memory, current) : j # i => w[j] = v[j]
    <2> SUFFICES ASSUME NEW j \in Copies(memory, current), j # i PROVE w[j] = v[j]
      OBVIOUS
    <2>1. PICK p \in LyingIn(memory, current) : Cell(memory, p).id = j
      BY <1>3, SettledParts
    <2> DEFINE u == Cell(memory, p)
    <2>2. p # a /\ p \in Ptrs
      BY <2>1 DEF c, LyingIn
    <2>3. Cell(m2, p) = u /\ p \in LyingIn(m2, current)
      BY <1>11, <2>1, <2>2 DEF LyingIn
    <2>4. v[j] = Rec(memory, u) /\ w[j] = Rec(m2, u)
          /\ \A h \in DOMAIN u.fields : Known(memory, current, u.fields[h])
      BY <1>3, <1>16, <2>1, <2>3, SettledParts
    <2> HIDE DEF u, v, w
    <2>5. Rec(m2, u) = Rec(memory, u)
      BY <1>12, <2>4, RecStays
    <2> QED BY <2>4, <2>5
  <1>20. DOMAIN v = Copies(memory, current) /\ DOMAIN w = DOMAIN v
         /\ v = [j \in DOMAIN v |-> v[j]] /\ w = [j \in DOMAIN w |-> w[j]]
    BY <1>3, <1>12, <1>16, SettledParts
  <1>21. w = [v EXCEPT ![i].fields[f] = y]
    <2>1. i \in DOMAIN v
      BY <1>5, <1>20
    <2>2. w[i] = [v[i] EXCEPT !.fields = [@ EXCEPT ![f] = y]]
      BY <1>17, <1>18
    <2>3. \A j \in DOMAIN v : j # i => w[j] = v[j]
      BY <1>19, <1>20
    <2> HIDE DEF v, w, i, y
    <2> DEFINE z == [v[i] EXCEPT !.fields = [@ EXCEPT ![f] = y]]
    <2>4. w[i] = z
      BY <2>2
    <2>5. [v EXCEPT ![i].fields[f] = y] = [v EXCEPT ![i] = z]
      OBVIOUS
    <2> HIDE DEF z
    <2>6. w = [v EXCEPT ![i] = z]
      BY <1>20, <2>1, <2>3, <2>4
    <2> QED BY <2>5, <2>6
  <1>22. RootsIn(m2, root) = RootsIn(memory, root) /\ NameIn(m2, hashState) = NameIn(memory, hashState)
    BY <1>3, <1>12 DEF RootsIn
  <1>23. y \in Promise!Held
    <2>1. x = Nil \/ \E s \in Roots : x = root[s]
      BY DEF Held
    <2>2. x = Nil => y = Nil
      BY DEF NameIn
    <2>3. \A s \in Roots : Seen.root[s] = NameIn(memory, root[s])
      BY <1>14 DEF Shows, RootsIn
    <2> QED BY <2>1, <2>2, <2>3 DEF Promise!Held
  <1>24. Promise!Write(r)
    <2>1. Seen.root[r] = i /\ i # Nil
      BY <1>5, <1>14 DEF Shows, RootsIn, a
    <2>2. Seen.objects = v /\ Seen'.objects = w
      BY <1>14, <1>15 DEF Shows
    <2>3. Seen.objects[i].kind = "plain"
      BY <1>2, <1>17, <2>2 DEF Rec
    <2>4. Seen'.root = Seen.root /\ Seen'.state = Seen.state /\ made' = made
      BY <1>2, <1>14, <1>15, <1>22 DEF Shows
    <2>5. Seen'.objects = [Seen.objects EXCEPT ![Seen.root[r]].fields[f] = y]
      BY <1>21, <2>1, <2>2
    <2> HIDE DEF v, w, i, y
    <2> QED BY <1>23, <2>1, <2>3, <2>4, <2>5 DEF Promise!Write
  <1>25. FaithfulInv'
    <2>1. made <= MaxObjects /\ (hashState # Nil => Cell(memory, hashState).kind = "state")
      BY DEF FaithfulInv
    <2>2. hashState # Nil => Cell(m2, hashState).kind = Cell(memory, hashState).kind
      <3>1. hashState # Nil => hashState \in Ptrs
        BY <1>3 DEF Known
      <3> QED BY <1>10, <1>11, <3>1 DEF c
    <2> QED BY <1>2, <1>13, <2>1, <2>2 DEF FaithfulInv
  <1> QED BY <1>24, <1>25

(* An object is made. *)
LEMMA AllocSeen ==
  ASSUME CollectorInv, FaithfulInv, SeenInv, SeenInv',
         NEW r \in Roots, NEW kind \in Kinds, NEW fields \in Seq(Values),
         Alloc(r, kind, fields),
         \A f \in DOMAIN fields : Known(memory, current, fields[f]),
         \/ hashState' = hashState
         \/ kind = "state" /\ hashState' = root'[r],
         NEW names, names = [f \in DOMAIN fields |-> NameIn(memory, fields[f])]
  PROVE  /\ FaithfulInv' /\ Promise!Make(r, kind, names)
         /\ hashState' = hashState => Seen'.state = Seen.state
         /\ hashState' = root'[r] => Seen'.state = made'
         /\ (Seen.state = Nil <=> hashState = Nil)
  <1> DEFINE o == Object(made', kind, fields)
  <1>1. /\ phase = "off" /\ made' = made + 1 /\ made < MaxObjects /\ phase' = "off"
        /\ new' = new
    BY DEF Alloc, gcVars
  <1>2. /\ Settled(memory, current, made) /\ root \in [Roots -> Values]
        /\ \A s \in Roots : Known(memory, current, root[s])
        /\ Known(memory, current, hashState)
        /\ memory \in Memories /\ Apart(current, new) /\ made \in Nat /\ current \in Seq(Blocks)
    BY <1>1, IdleSettled, Idle
  <1>3. made' \in Nat /\ made' \notin 1..made
    BY <1>1, <1>2
  <1>4. o \in Objs /\ o.id = made' /\ o.kind = kind /\ o.fields = fields /\ o.ok = TRUE
    BY <1>3, ObjMade DEF Object
  <1>5. o \in Cells /\ ~ Forwarded(o)
    BY <1>4, ObjParts
  <1> HIDE DEF o
  <1>6. PICK g \in RawAlloc(current, o) :
          memory' = g.memory /\ current' = g.space /\ root' = [root EXCEPT ![r] = Placed(g)]
    BY DEF Alloc, o
  <1> DEFINE v == Placed(g)
  <1>7. /\ v \in Ptrs /\ Cell(memory', v) = o
        /\ ~ Lies(memory, current, v)
        /\ \A p \in Ptrs : Lies(memory', current', p) <=> Lies(memory, current, p) \/ p = v
        /\ \A p \in Ptrs : Lies(memory, current, p) => Cell(memory', p) = Cell(memory, p)
    <2>1. /\ Placed(g) \in Ptrs /\ Cell(g.memory, Placed(g)) = o
          /\ ~ Lies(memory, current, Placed(g))
          /\ \A p \in Ptrs : Lies(g.memory, g.space, p) <=> Lies(memory, current, p) \/ p = Placed(g)
          /\ \A p \in Ptrs : Lies(memory, current, p) \/ Lies(memory, new, p)
                               => Cell(g.memory, p) = Cell(memory, p)
      <3>1. memory \in Memories /\ Apart(current, new) /\ o \in Cells
            /\ g \in RawAlloc(current, o)
        BY <1>2, <1>5
      <3> QED BY <3>1, RawAllocPlaces
    <2>2. memory' = g.memory /\ current' = g.space
      BY <1>6
    <2> QED BY <2>1, <2>2
  <1>8. root' = [root EXCEPT ![r] = v] /\ root'[r] = v
    BY <1>2, <1>6
  <1> HIDE DEF v
  <1>9. \A y : Known(memory, current, y) => NameIn(memory', y) = NameIn(memory, y) /\ y # v
    <2> SUFFICES ASSUME NEW y, Known(memory, current, y)
                 PROVE  NameIn(memory', y) = NameIn(memory, y) /\ y # v
      OBVIOUS
    <2>1. CASE y = Nil
      BY <1>7, <2>1, PtrParts DEF NameIn
    <2>2. CASE y # Nil
      <3>1. y \in Ptrs /\ Lies(memory, current, y) /\ ~ Forwarded(Cell(memory, y))
        BY <1>2, <2>2 DEF Known, Settled
      <3> QED BY <1>7, <3>1 DEF NameIn, IdIn
    <2> QED BY <2>1, <2>2
  <1>10. NameIn(memory', v) = made' /\ made' # Nil
    <2>1. made' # Nil
      BY <1>3, NilIsNoId
    <2> QED BY <1>4, <1>5, <1>7, <2>1, PtrParts DEF NameIn, IdIn
  <1>11. Settled(memory', current', made') /\ Shows(Seen', memory', current', root', hashState')
    BY <1>1 DEF SeenInv
  <1>12. Shows(Seen, memory, current, root, hashState)
    BY <1>1 DEF SeenInv
  <1> DEFINE A == ObjectsIn(memory, current)  B == ObjectsIn(memory', current')
             D == Copies(memory, current)
  <1>13. Copies(memory', current') = D \cup {made'}
    <2>1. ASSUME NEW i \in Copies(memory', current') PROVE i \in D \cup {made'}
      <3>1. PICK p \in Ptrs : Lies(memory', current', p) /\ i = Cell(memory', p).id
        BY <2>1 DEF Copies
      <3>2. CASE p = v
        BY <1>4, <1>7, <3>1, <3>2
      <3>3. CASE p # v
        BY <1>7, <3>1, <3>3 DEF Copies
      <3> QED BY <3>2, <3>3
    <2>2. ASSUME NEW i \in D PROVE i \in Copies(memory', current')
      <3>1. PICK p \in Ptrs : Lies(memory, current, p) /\ i = Cell(memory, p).id
        BY <2>2 DEF Copies
      <3> QED BY <1>7, <3>1 DEF Copies
    <2>3. made' \in Copies(memory', current')
      BY <1>4, <1>7 DEF Copies
    <2> QED BY <2>1, <2>2, <2>3
  <1>14. made' \notin D
    <2>1. D \subseteq 1..made
      BY <1>2, SettledParts
    <2> QED BY <1>3, <2>1
  <1>15. B[made'] = Promise!Object(kind, names)
    <2>1. v \in LyingIn(memory', current')
      BY <1>7 DEF LyingIn
    <2>2. B[made'] = Rec(memory', o)
      BY <1>4, <1>7, <1>11, <2>1, SettledParts
    <2>3. \A f \in DOMAIN fields : NameIn(memory', fields[f]) = NameIn(memory, fields[f])
      BY <1>9
    <2>4. [f \in DOMAIN fields |-> NameIn(memory', fields[f])] = names
      BY <2>3
    <2> HIDE DEF B
    <2> QED BY <1>4, <2>2, <2>4 DEF Rec, Promise!Object
  <1>16. ASSUME NEW i \in D PROVE B[i] = A[i]
    <2>1. PICK p \in LyingIn(memory, current) : Cell(memory, p).id = i
      BY <1>2, SettledParts
    <2> DEFINE u == Cell(memory, p)
    <2>2. Cell(memory', p) = u /\ p \in LyingIn(memory', current')
      BY <1>7, <2>1 DEF LyingIn
    <2>3. A[i] = Rec(memory, u) /\ \A h \in DOMAIN u.fields : Known(memory, current, u.fields[h])
      BY <1>2, <2>1, SettledParts
    <2>4. B[i] = Rec(memory', u)
      BY <1>11, <2>1, <2>2, SettledParts
    <2> HIDE DEF u, A, B
    <2>5. Rec(memory', u) = Rec(memory, u)
      BY <1>9, <2>3, RecStays
    <2> QED BY <2>3, <2>4, <2>5
  <1>17. DOMAIN A = D /\ B = [i \in D \cup {made'} |-> B[i]]
    <2>1. DOMAIN A = D
      BY <1>2, SettledParts
    <2>2. B = [i \in Copies(memory', current') |-> B[i]]
      BY <1>11, SettledParts
    <2> HIDE DEF A, B, D
    <2> QED BY <1>13, <2>1, <2>2
  <1>18. B = [i \in DOMAIN A \cup {made'} |->
                IF i = made' THEN Promise!Object(kind, names) ELSE A[i]]
    <2> HIDE DEF A, B, D
    <2> QED BY <1>14, <1>15, <1>16, <1>17
  <1>19. RootsIn(memory', root') = [RootsIn(memory, root) EXCEPT ![r] = made']
    BY <1>2, <1>8, <1>9, <1>10 DEF RootsIn
  <1>20. made + 1 \in Ids
    BY <1>1, <1>2, CollectorAssumption DEF Ids
  <1>21. Promise!Make(r, kind, names)
    <2>1. Seen.objects = A /\ Seen'.objects = B
          /\ Seen'.root = [Seen.root EXCEPT ![r] = made']
      BY <1>11, <1>12, <1>19 DEF Shows
    <2> HIDE DEF A, B
    <2> QED BY <1>1, <1>18, <1>20, <2>1 DEF Promise!Make
  <1>22. Seen.state = NameIn(memory, hashState) /\ Seen'.state = NameIn(memory', hashState')
    BY <1>11, <1>12 DEF Shows
  <1>24. /\ hashState' = hashState => Seen'.state = Seen.state
         /\ hashState' = root'[r] => Seen'.state = made'
    BY <1>2, <1>8, <1>9, <1>10, <1>22
  <1>25. Seen.state = Nil <=> hashState = Nil
    BY <1>2, <1>22, SettledParts
  <1>26. FaithfulInv'
    <2>1. made' <= MaxObjects
      BY <1>1, <1>2, CollectorAssumption
    <2>2. hashState' # Nil => Cell(memory', hashState').kind = "state"
      <3>1. CASE hashState' = hashState
        BY <1>2, <1>7, <3>1 DEF FaithfulInv, Known
      <3>2. CASE hashState' # hashState
        BY <1>4, <1>7, <1>8, <3>2
      <3> QED BY <3>1, <3>2
    <2> QED BY <1>1, <2>1, <2>2 DEF FaithfulInv
  <1> QED BY <1>21, <1>24, <1>25, <1>26

LEMMA MakeObjectSeen ==
  ASSUME CollectorInv, FaithfulInv, SeenInv, SeenInv', NEW r \in Roots, MakeObject(r)
  PROVE  FaithfulInv' /\ Promise!Allocate(r)
  <1>1. phase = "off" /\ hashState' = hashState
    BY DEF MakeObject, Alloc
  <1>2. \A x \in Held : x \in Values /\ Known(memory, current, x)
    BY <1>1, Idle DEF Held, Known, Values
  <1>3. ASSUME NEW x \in Held PROVE NameIn(memory, x) \in Promise!Held
    <2>1. x = Nil \/ \E s \in Roots : x = root[s]
      BY DEF Held
    <2>2. x = Nil => NameIn(memory, x) = Nil
      BY DEF NameIn
    <2>3. \A s \in Roots : Seen.root[s] = NameIn(memory, root[s])
      BY <1>1 DEF SeenInv, Shows, RootsIn
    <2> QED BY <2>1, <2>2, <2>3 DEF Promise!Held
  <1>4. ASSUME NEW x \in Held, Alloc(r, "plain", [f \in 1..Fields |-> x])
        PROVE  FaithfulInv' /\ Promise!Allocate(r)
    <2> DEFINE s == [f \in 1..Fields |-> x]  y == NameIn(memory, x)
               n == [f \in DOMAIN s |-> NameIn(memory, s[f])]
    <2>1. Fields \in Nat
      BY CollectorAssumption
    <2>2. s \in Seq(Values) /\ DOMAIN s = 1..Fields /\ \A f \in 1..Fields : s[f] = x
      BY <1>2, <2>1
    <2>3. Alloc(r, "plain", s)
      BY <1>4
    <2>4. n = [f \in 1..Fields |-> y]
      OBVIOUS
    <2>5. "plain" \in Kinds
      BY DEF Kinds
    <2> HIDE DEF s
    <2>6. \A f \in DOMAIN s : Known(memory, current, s[f])
      BY <1>2, <2>2
    <2>7. \A names : names = n =>
            FaithfulInv' /\ Promise!Make(r, "plain", names) /\ Seen'.state = Seen.state
      BY <1>1, <2>2, <2>3, <2>5, <2>6, AllocSeen
    <2> HIDE DEF n
    <2>8. Promise!Make(r, "plain", [f \in 1..Fields |-> y])
      BY <2>4, <2>7
    <2>9. y \in Promise!Held
      BY <1>3
    <2> HIDE DEF y
    <2> QED BY <2>7, <2>8, <2>9 DEF Promise!Allocate
  <1>5. ASSUME NEW x \in Held, Alloc(r, "weak", <<x>>)
        PROVE  FaithfulInv' /\ Promise!Allocate(r)
    <2> DEFINE y == NameIn(memory, x)  n == [f \in DOMAIN <<x>> |-> NameIn(memory, <<x>>[f])]
    <2>1. <<x>> \in Seq(Values) /\ \A f \in DOMAIN <<x>> : Known(memory, current, <<x>>[f])
      BY <1>2
    <2>2. "weak" \in Kinds
      BY DEF Kinds
    <2>3. n = <<y>>
      OBVIOUS
    <2>4. \A names : names = n =>
            FaithfulInv' /\ Promise!Make(r, "weak", names) /\ Seen'.state = Seen.state
      BY <1>1, <1>5, <2>1, <2>2, AllocSeen
    <2> HIDE DEF n
    <2>5. Promise!Make(r, "weak", <<y>>)
      BY <2>3, <2>4
    <2>6. y \in Promise!Held
      BY <1>3
    <2> HIDE DEF y
    <2> QED BY <2>4, <2>5, <2>6 DEF Promise!Allocate
  <1> QED BY <1>4, <1>5 DEF MakeObject

LEMMA PointerHashStateSeen ==
  ASSUME CollectorInv, FaithfulInv, SeenInv, SeenInv', NEW r \in Roots, PointerHashState(r)
  PROVE  FaithfulInv' /\ Promise!PointerHash(r)
  <1>1. phase = "off"
    BY DEF PointerHashState
  <1>2. /\ Settled(memory, current, made) /\ root \in [Roots -> Values]
        /\ Known(memory, current, hashState)
    BY <1>1, IdleSettled
  <1>3. CASE IsPtr(hashState)
    <2>1. /\ root' = [root EXCEPT ![r] = hashState]
          /\ memory' = memory /\ current' = current /\ phase' = phase
          /\ hashState' = hashState /\ made' = made
      BY <1>3 DEF PointerHashState, spaceVars, gcVars
    <2>2. /\ FaithfulInv'
          /\ Seen.root = RootsIn(memory, root) /\ Seen.state = NameIn(memory, hashState)
          /\ Seen'.objects = Seen.objects /\ Seen'.state = Seen.state
          /\ Seen'.root = RootsIn(memory, root')
      BY <1>1, <2>1, SameHeapSeen
    <2>3. Seen'.root = [Seen.root EXCEPT ![r] = Seen.state]
      <3>1. RootsIn(memory, root') = [RootsIn(memory, root) EXCEPT ![r] = NameIn(memory, hashState)]
        BY <1>2, <2>1 DEF RootsIn
      <3> QED BY <2>2, <3>1
    <2>4. Seen.state # Nil
      BY <1>2, <1>3, <2>2, SettledParts DEF IsPtr
    <2> QED BY <2>1, <2>2, <2>3, <2>4 DEF Promise!PointerHash
  <1>4. CASE ~ IsPtr(hashState)
    <2> DEFINE n == [f \in DOMAIN <<>> |-> NameIn(memory, <<>>[f])]
    <2>1. Alloc(r, "state", <<>>) /\ hashState' = root'[r] /\ hashState = Nil
      BY <1>4 DEF PointerHashState, IsPtr
    <2>2. <<>> \in Seq(Values) /\ "state" \in Kinds /\ DOMAIN <<>> = {}
      BY DEF Kinds
    <2>3. n = <<>>
      BY <2>2
    <2>4. \A names : names = n =>
            /\ FaithfulInv' /\ Promise!Make(r, "state", names)
            /\ Seen'.state = made'
            /\ (Seen.state = Nil <=> hashState = Nil)
      BY <2>1, <2>2, AllocSeen
    <2> HIDE DEF n
    <2>5. /\ FaithfulInv' /\ Promise!Make(r, "state", <<>>)
          /\ Seen'.state = made' /\ Seen.state = Nil
      BY <2>1, <2>3, <2>4
    <2> QED BY <2>5 DEF Promise!PointerHash
  <1> QED BY <1>3, <1>4

-----------------------------------------------------------------------------
(***************************************************************************)
(* A collection, which the program sees nothing of before it is over.      *)
(***************************************************************************)
LEMMA SetupSeen ==
  ASSUME CollectorInv, FaithfulInv, SeenInv, Setup
  PROVE  FaithfulInv' /\ Seen' = Seen /\ made' = made
  <1> DEFINE a == hashState  c == Cell(memory, a)  v == Seen
  <1>1. /\ phase = "off" /\ phase' = "roots" /\ weak' = <<>> /\ hashState' = Nil
        /\ current' = current /\ new' = new /\ root' = root /\ made' = made
        /\ before' = View
        /\ IF hashState # Nil
             THEN memory' = [memory EXCEPT ![hashState.block][hashState.slot].ok = FALSE]
             ELSE memory' = memory
    BY DEF Setup, IsPtr
  <1>2. /\ Settled(memory, current, made)
        /\ \A r \in Roots : Known(memory, current, root[r])
        /\ Known(memory, current, hashState) /\ new = <<>>
    BY <1>1, IdleSettled
  <1>3. before' = v /\ Seen' = v
    BY <1>1 DEF Seen
  <1>4. Shows(v, memory, current, root, hashState)
    BY <1>1 DEF SeenInv
  <1> HIDE DEF v
  <1>5. made <= MaxObjects /\ (hashState # Nil => Cell(memory, hashState).kind = "state")
    BY DEF FaithfulInv
  <1>6. WholeView(v)
    BY <1>2, <1>4, <1>5, ShownIsWhole
  <1>7. \A m, p : ~ Lies(m, <<>>, p)
    BY DEF Lies, Range
  <1>8. memory \in Memories /\ current \in Seq(Blocks)
    BY <1>2, SettledParts
  (* Nothing but the hash state is changed, which the next one replaces. *)
  <1>9. /\ \A y : Known(memory, current, y) => NameIn(memory', y) = NameIn(memory, y)
        /\ \A p \in Ptrs : Lies(memory', current, p) => p \in LyingIn(memory, current)
        /\ \A p \in Ptrs : p # a => Cell(memory', p) = Cell(memory, p)
        /\ a # Nil => /\ Cell(memory', a).id = c.id /\ Cell(memory', a).kind = c.kind
                      /\ Cell(memory', a).fields = c.fields /\ Cell(memory', a).ok = FALSE
    <2>1. CASE a = Nil
      BY <1>1, <2>1 DEF LyingIn
    <2>2. CASE a # Nil
      <3>1. a \in LyingIn(memory, current)
        BY <1>2, <2>2, SettledParts
      <3>2. /\ a \in Ptrs /\ a.slot <= Len(memory[a.block]) /\ c \in Objs /\ ~ Forwarded(c)
        BY <1>2, <3>1, SettledParts
      <3> DEFINE o == [c EXCEPT !.ok = FALSE]
      <3>3. memory' = Put(memory, a, o)
        BY <1>1, <2>2 DEF Put, Cell
      <3>4. o \in Objs /\ o.id = c.id /\ o.kind = c.kind /\ o.fields = c.fields /\ o.ok = FALSE
        BY <3>2 DEF Objs
      <3> HIDE DEF o, c, a
      <3>5. \A y : Known(memory, current, y) => NameIn(Put(memory, a, o), y) = NameIn(memory, y)
        BY <1>8, <3>2, <3>4, WritingKeepsNames DEF c
      <3>6. /\ Cell(Put(memory, a, o), a) = o
            /\ \A p \in Ptrs : p # a => Cell(Put(memory, a, o), p) = Cell(memory, p)
            /\ \A p \in Ptrs : Lies(Put(memory, a, o), current, p) <=> Lies(memory, current, p)
        <4>1. o \in Cells
          BY <3>4, ObjParts
        <4> QED BY <1>8, <3>2, <4>1, PutCell
      <3> QED BY <3>3, <3>4, <3>5, <3>6 DEF LyingIn
    <2> QED BY <2>1, <2>2
  <1>10. RootsNamed(memory', root, v)
    BY <1>2, <1>4, <1>9 DEF RootsNamed, Shows, RootsIn
  <1>11. ASSUME NEW p \in Ptrs, Lies(memory', current, p)
         PROVE  Tells(memory', v, Cell(memory', p))
    <2> DEFINE u == Cell(memory, p)  w == Cell(memory', p)  i == u.id
    <2>1. p \in LyingIn(memory, current)
      BY <1>9, <1>11
    <2>2. /\ i \in Copies(memory, current) /\ u \in Objs
          /\ ObjectsIn(memory, current)[i] = Rec(memory, u)
          /\ \A h \in DOMAIN u.fields : Known(memory, current, u.fields[h])
          /\ NameIn(memory, p) = i /\ p # Nil
      BY <1>2, <2>1, SettledParts
    <2>3. i \in DOMAIN v.objects /\ v.objects[i] = Rec(memory, u)
      BY <1>2, <1>4, <2>2, SettledParts DEF Shows
    <2>4. w.id = i /\ w.kind = u.kind /\ w.fields = u.fields
      BY <1>9, <2>2
    <2>5. i = v.state <=> p = a
      <3>1. v.state = NameIn(memory, a)
        BY <1>4 DEF Shows
      <3>2. CASE a = Nil
        BY <2>2, <3>1, <3>2, SettledParts, <1>2, <2>1 DEF NameIn
      <3>3. CASE a # Nil
        <4>1. a \in LyingIn(memory, current)
          BY <1>2, <3>3, SettledParts
        <4>2. NameIn(memory, a) = c.id
          BY <1>2, <4>1, SettledParts
        <4>3. c.id = i => p = a
          BY <1>2, <2>1, <4>1 DEF Settled, LyingIn
        <4> QED BY <2>2, <3>1, <4>2, <4>3
      <3> QED BY <3>2, <3>3
    <2>6. w.ok = (u.ok /\ i # v.state)
      <3>1. CASE p = a
        BY <1>9, <2>2, <2>5, <3>1
      <3>2. CASE p # a
        <4>1. w = u /\ u.ok \in BOOLEAN
          BY <1>9, <2>2, <3>2, ObjParts
        <4> QED BY <2>5, <3>2, <4>1
      <3> QED BY <3>1, <3>2
    <2> HIDE DEF w, u
    <2>7. Rec(memory', w) = [kind |-> u.kind, ok |-> u.ok /\ i # v.state,
                             fields |-> [h \in DOMAIN u.fields |-> NameIn(memory, u.fields[h])]]
      <3>1. \A h \in DOMAIN u.fields : NameIn(memory', u.fields[h]) = NameIn(memory, u.fields[h])
        BY <1>9, <2>2
      <3> QED BY <2>4, <2>6, <3>1 DEF Rec
    <2>8. Survivor(v, i) = [kind |-> u.kind, ok |-> u.ok /\ i # v.state,
                            fields |-> [h \in DOMAIN u.fields |-> NameIn(memory, u.fields[h])]]
      BY <2>3 DEF Survivor, Rec
    <2> QED BY <2>3, <2>4, <2>7, <2>8 DEF Tells, w
  <1>12. Contents(memory', current, <<>>, v, "roots")
    BY <1>7, <1>11 DEF Contents, Alive
  <1>13. Reaches(v, Copies(memory', <<>>))
    BY <1>7 DEF Reaches, Copies
  <1>14. Range(<<>>) = {}
    BY DEF Range
  <1>15. Collecting(memory', current, <<>>, <<>>, root, v, "roots")
    BY <1>6, <1>10, <1>12, <1>13, <1>14 DEF Collecting
  <1>16. FaithfulInv'
    BY <1>1, <1>2, <1>3, <1>5, <1>15 DEF FaithfulInv
  <1> QED BY <1>1, <1>3, <1>16 DEF v

(* What the collector does before the spaces change places. *)
LEMMA CollectionSeen ==
  ASSUME CollectorInv, FaithfulInv,
         \/ ScavengeRoot \/ ScavengeField \/ ScavengedObject \/ ScavengedBlock
         \/ BreakWeakPointer
  PROVE  FaithfulInv' /\ Seen' = Seen /\ made' = made
  <1>1. FaithfulInv'
    BY ScavengeRootFaithful, ScavengeFieldFaithful, ScavengedObjectFaithful,
       ScavengedBlockFaithful, BreakWeakPointerFaithful
  <1>2. phase # "off" /\ phase' # "off" /\ before' = before /\ made' = made
    BY DEF ScavengeRoot, ScavengeField, ScavengedObject, ScavengedBlock, BreakWeakPointer
  <1> QED BY <1>1, <1>2 DEF Seen

(* When the scan is over, the copies are what the roots reach. *)
LEMMA CopiesAreKept ==
  ASSUME CollectorInv, FaithfulInv, phase = "weak", weak = <<>>
  PROVE  /\ Promise!Kept({Seen.root[r] : r \in Roots}) = Copies(memory, new)
         /\ Copies(memory, new) \subseteq DOMAIN before.objects
         /\ \A p \in Ptrs : Lies(memory, new, p) =>
              \A f \in DOMAIN Cell(memory, p).fields :
                /\ Known(memory, new, Cell(memory, p).fields[f])
                /\ NameIn(memory, Cell(memory, p).fields[f]) \in Copies(memory, new) \cup {Nil}
  <1> DEFINE C == Copies(memory, new)
  <1>1. /\ SpacesOK(memory, current, new, made, scan, weak)
        /\ Collecting(memory, current, new, weak, root, before, phase)
        /\ \A r \in Roots : Known(memory, new, root[r])
    BY FaithfulIn
  <1>2. \A p \in Ptrs : Lies(memory, new, p) => Scanned(new, scan, p)
    BY DEF CollectorInv, PhaseOK
  <1>3. FieldsMove(memory, current, new, scan, weak) /\ CopiesOK(memory, current, new, made)
    BY <1>1, SpacesParts
  <1>4. WholeView(before) /\ RootsNamed(memory, root, before)
        /\ Contents(memory, current, new, before, phase) /\ Reaches(before, C)
    BY <1>1 DEF Collecting
  <1>5. Seen = before
    BY DEF Seen
  <1>6. \A y : Known(memory, new, y) => NameIn(memory, y) \in C \cup {Nil}
    <2> SUFFICES ASSUME NEW y, Known(memory, new, y) PROVE NameIn(memory, y) \in C \cup {Nil}
      OBVIOUS
    <2>1. CASE y = Nil
      BY <2>1 DEF NameIn
    <2>2. CASE y # Nil
      <3>1. y \in Ptrs /\ Lies(memory, new, y)
        BY <2>2 DEF Known
      <3>2. NameIn(memory, y) = Cell(memory, y).id
        BY <1>1, <3>1, NamedIsAlive
      <3> QED BY <3>1, <3>2 DEF Copies
    <2> QED BY <2>1, <2>2
  <1>7. ASSUME NEW p \in Ptrs, Lies(memory, new, p), NEW f \in DOMAIN Cell(memory, p).fields
        PROVE  Known(memory, new, Cell(memory, p).fields[f])
    <2>1. Done(new, scan, p, f)
      BY <1>2, <1>7 DEF Done
    <2>2. p \notin Range(weak)
      BY DEF Range
    <2> QED BY <1>3, <1>7, <2>1, <2>2 DEF FieldsMove
  <1>8. ASSUME NEW p \in Ptrs, Lies(memory, new, p)
        PROVE  /\ Cell(memory, p).id \in DOMAIN before.objects
               /\ Holds(before, Cell(memory, p).id) \subseteq C
    <2> DEFINE o == Cell(memory, p)
    <2>1. Alive(memory, current, new, p)
      BY <1>3, <1>8 DEF CopiesOK, Alive
    <2>2. Tells(memory, before, o) \/ Breaks(memory, new, before, o)
      BY <1>4, <2>1 DEF Contents
    <2>3. \A f \in DOMAIN o.fields : NameIn(memory, o.fields[f]) \in C \cup {Nil}
      BY <1>6, <1>7, <1>8
    <2> HIDE DEF o
    <2>4. CASE Tells(memory, before, o)
      <3>1. o.id \in DOMAIN before.objects
        BY <2>4 DEF Tells
      <3>2. FieldsOf(before.objects[o.id]) = {NameIn(memory, o.fields[f]) : f \in DOMAIN o.fields} \ {Nil}
        BY <1>4, <2>4, ToldHolds
      <3>3. FieldsOf(before.objects[o.id]) \subseteq C
        BY <2>3, <3>2
      <3> QED BY <3>1, <3>3 DEF Holds, o
    <2>5. CASE Breaks(memory, new, before, o)
      <3>1. o.id \in DOMAIN before.objects /\ before.objects[o.id].kind = "weak"
            /\ before.objects[o.id].ok
        BY <2>5 DEF Breaks
      <3>2. Holds(before, o.id) = {}
        BY <3>1 DEF Holds
      <3> QED BY <3>1, <3>2 DEF o
    <2> QED BY <2>2, <2>4, <2>5
  <1>9. Closed(before, C) /\ C \subseteq DOMAIN before.objects
    BY <1>8 DEF Closed, Copies
  <1> DEFINE from == {Seen.root[r] : r \in Roots}
  <1>10. from = FromRoots(before)
    BY <1>5 DEF FromRoots
  <1>11. from \subseteq C \cup {Nil}
    BY <1>1, <1>4, <1>6, <1>10 DEF RootsNamed, FromRoots
  <1>12. from \subseteq Names(Seen)
    BY <1>5, <1>9, <1>11 DEF Names
  <1>13. /\ from \ {Nil} \subseteq Promise!Kept(from)
         /\ Closed(before, Promise!Kept(from))
         /\ \A S : Closed(before, S) /\ from \ {Nil} \subseteq S => Promise!Kept(from) \subseteq S
    <2> HIDE DEF from
    <2>1. WholeView(Seen)
      BY <1>4, <1>5
    <2>2. /\ from \ {Nil} \subseteq Promise!Kept(from)
          /\ Closed(Seen, Promise!Kept(from))
          /\ \A S : Closed(Seen, S) /\ from \ {Nil} \subseteq S => Promise!Kept(from) \subseteq S
      BY <1>12, <2>1, KeptIs
    <2> QED BY <1>5, <2>2
  <1>14. Promise!Kept(from) = C
    <2> HIDE DEF from, C
    <2>1. Promise!Kept(from) \subseteq C
      BY <1>9, <1>11, <1>13
    <2>2. C \subseteq Promise!Kept(from)
      BY <1>4, <1>10, <1>13 DEF Reaches
    <2> QED BY <2>1, <2>2
  <1> QED BY <1>6, <1>7, <1>9, <1>14

LEMMA FlipSeen ==
  ASSUME CollectorInv, FaithfulInv, SeenInv', Flip
  PROVE  FaithfulInv' /\ Promise!Collect
  <1> DEFINE C == Copies(memory, new)
  <1>1. /\ phase = "weak" /\ weak = <<>>
        /\ memory' = [b \in Blocks |-> IF b \in Range(current) THEN <<>> ELSE memory[b]]
        /\ current' = new /\ phase' = "off" /\ root' = root /\ hashState' = hashState
        /\ made' = made
    BY DEF Flip
  <1>2. /\ SpacesOK(memory, current, new, made, scan, weak)
        /\ Collecting(memory, current, new, weak, root, before, phase)
        /\ hashState = Nil /\ made <= MaxObjects
        /\ \A r \in Roots : Known(memory, new, root[r])
    BY <1>1, FaithfulIn
  <1>3. memory \in Memories /\ new \in Seq(Blocks) /\ Apart(current, new)
        /\ CopiesOK(memory, current, new, made)
    BY <1>2, SpacesParts
  <1>4. /\ Promise!Kept({Seen.root[r] : r \in Roots}) = C
        /\ C \subseteq DOMAIN before.objects
        /\ \A p \in Ptrs : Lies(memory, new, p) =>
             \A f \in DOMAIN Cell(memory, p).fields :
               /\ Known(memory, new, Cell(memory, p).fields[f])
               /\ NameIn(memory, Cell(memory, p).fields[f]) \in C \cup {Nil}
    BY <1>1, CopiesAreKept
  <1>5. Seen = before
    BY <1>1 DEF Seen
  <1>6. Shows(Seen', memory', new, root, Nil) /\ Settled(memory', new, made)
    BY <1>1, <1>2 DEF SeenInv
  <1>7. \A b \in Range(new) : memory'[b] = memory[b]
    BY <1>1, <1>3, SpaceParts DEF Apart
  <1>8. \A p : Lies(memory', new, p) <=> Lies(memory, new, p)
    BY <1>7 DEF Lies
  <1>9. \A p : Lies(memory, new, p) => Cell(memory', p) = Cell(memory, p)
    BY <1>7 DEF Lies, Cell
  <1>10. \A y : Known(memory, new, y) => NameIn(memory', y) = NameIn(memory, y)
    <2> SUFFICES ASSUME NEW y, Known(memory, new, y) PROVE NameIn(memory', y) = NameIn(memory, y)
      OBVIOUS
    <2>1. CASE y = Nil
      BY <2>1 DEF NameIn
    <2>2. CASE y # Nil
      <3>1. y \in Ptrs /\ Lies(memory, new, y)
        BY <2>2 DEF Known
      <3>2. ~ Forwarded(Cell(memory, y)) /\ Cell(memory', y) = Cell(memory, y)
        BY <1>3, <1>9, <3>1 DEF CopiesOK
      <3> QED BY <2>2, <3>2 DEF NameIn, IdIn
    <2> QED BY <2>1, <2>2
  <1>11. Copies(memory', new) = C
    BY <1>8, <1>9 DEF Copies
  <1> DEFINE v == Seen  w == ObjectsIn(memory', new)
             broken(i) == v.objects[i].kind = "weak" /\ Promise!Refs(v.objects[i]) \ C # {}
  <1>12. WholeView(v) /\ RootsNamed(memory, root, v)
         /\ Contents(memory, current, new, v, phase)
    BY <1>2, <1>5 DEF Collecting
  <1> HIDE DEF C
  <1>13. ASSUME NEW i \in C
         PROVE  w[i] = IF broken(i) THEN [v.objects[i] EXCEPT !.fields = <<Nil>>, !.ok = FALSE]
                       ELSE [v.objects[i] EXCEPT !.ok = @ /\ i # v.state]
    <2>1. PICK p \in Ptrs : Lies(memory, new, p) /\ i = Cell(memory, p).id
      BY DEF C, Copies
    <2> DEFINE o == Cell(memory, p)
    <2>2. Alive(memory, current, new, p)
      BY <1>3, <2>1 DEF CopiesOK, Alive
    <2>3. Tells(memory, v, o) \/ Breaks(memory, new, v, o)
      BY <1>12, <2>2 DEF Contents
    <2>4. p \in LyingIn(memory', new) /\ Cell(memory', p) = o
      BY <1>8, <1>9, <2>1 DEF LyingIn
    <2>5. w[i] = Rec(memory', o)
      BY <1>6, <2>1, <2>4, SettledParts
    <2>6. \A f \in DOMAIN o.fields :
            /\ NameIn(memory', o.fields[f]) = NameIn(memory, o.fields[f])
            /\ NameIn(memory, o.fields[f]) \in C \cup {Nil}
      BY <1>4, <1>10, <2>1
    <2>7. i = o.id
      BY <2>1
    <2> HIDE DEF o, w, v
    <2>8. w[i] = Rec(memory, o)
      BY <2>5, <2>6, RecStays
    <2>9. CASE Tells(memory, v, o)
      <3>1. w[i] = Survivor(v, i)
        BY <2>7, <2>8, <2>9 DEF Tells
      <3>2. FieldsOf(v.objects[i]) = {NameIn(memory, o.fields[f]) : f \in DOMAIN o.fields} \ {Nil}
        BY <1>12, <2>7, <2>9, ToldHolds
      <3>3. FieldsOf(v.objects[i]) \subseteq C
        BY <2>6, <3>2
      <3>4. ~ broken(i)
        BY <3>3 DEF Promise!Refs, FieldsOf
      <3> HIDE DEF broken
      <3> QED BY <3>1, <3>4 DEF Survivor
    <2>10. CASE Breaks(memory, new, v, o)
      <3>1. i \in DOMAIN v.objects /\ v.objects[i].kind = "weak"
            /\ FieldsOf(v.objects[i]) \ C # {} /\ w[i] = Lost
        BY <2>7, <2>8, <2>10 DEF Breaks, C
      <3>2. broken(i)
        BY <3>1 DEF Promise!Refs, FieldsOf
      <3> HIDE DEF broken
      <3>3. v.objects[i] \in [kind : Kinds, ok : BOOLEAN, fields : Seq(Names(v))]
        BY <1>12, <3>1, HeldIsThere
      <3>4. [v.objects[i] EXCEPT !.fields = <<Nil>>, !.ok = FALSE] = Lost
        <4> DEFINE z == v.objects[i]  y == [z EXCEPT !.fields = <<Nil>>, !.ok = FALSE]
        <4>1. z \in [kind : Kinds, ok : BOOLEAN, fields : Seq(Names(v))] /\ z.kind = "weak"
          BY <3>1, <3>3
        <4> HIDE DEF z
        <4>2. /\ y \in [kind : Kinds, ok : BOOLEAN, fields : {<<Nil>>}]
              /\ y.kind = "weak" /\ y.ok = FALSE /\ y.fields = <<Nil>>
          BY <4>1
        <4> HIDE DEF y
        <4>3. y = [kind |-> y.kind, ok |-> y.ok, fields |-> y.fields]
          BY <4>2
        <4> QED BY <4>2, <4>3 DEF y, z, Lost
      <3> QED BY <3>1, <3>2, <3>4
    <2> QED BY <2>3, <2>9, <2>10
  <1>14. w = [i \in C |-> w[i]]
    BY <1>6, <1>11, SettledParts
  <1>15. w = [i \in C |-> IF broken(i) THEN [v.objects[i] EXCEPT !.fields = <<Nil>>, !.ok = FALSE]
                          ELSE [v.objects[i] EXCEPT !.ok = @ /\ i # v.state]]
    <2> HIDE DEF w, v, broken
    <2> QED BY <1>13, <1>14
  <1>16. Seen'.root = v.root
    <2>1. v.root \in [Roots -> Names(v)]
      BY <1>12 DEF WholeView
    <2>2. \A r \in Roots : NameIn(memory', root[r]) = v.root[r]
      BY <1>2, <1>10, <1>12 DEF RootsNamed
    <2>3. RootsIn(memory', root) = [r \in Roots |-> v.root[r]]
      BY <2>2 DEF RootsIn
    <2>4. Seen'.root = RootsIn(memory', root)
      BY <1>6 DEF Shows
    <2> HIDE DEF v
    <2> QED BY <2>1, <2>3, <2>4
  <1>17. Seen'.state = Nil /\ Seen'.objects = w
    BY <1>6 DEF Shows, NameIn
  <1>18. Promise!Collect
    <2> HIDE DEF w
    <2>1. Seen'.objects = [i \in C |->
             IF Seen.objects[i].kind = "weak" /\ Promise!Refs(Seen.objects[i]) \ C # {}
               THEN [Seen.objects[i] EXCEPT !.fields = <<Nil>>, !.ok = FALSE]
               ELSE [Seen.objects[i] EXCEPT !.ok = @ /\ i # Seen.state]]
      BY <1>15, <1>17
    <2> HIDE DEF v, broken
    <2> QED BY <1>1, <1>4, <1>5, <1>16, <1>17, <2>1 DEF Promise!Collect, v
  <1>19. FaithfulInv'
    BY <1>1, <1>2 DEF FaithfulInv
  <1> QED BY <1>18, <1>19

-----------------------------------------------------------------------------
(* One step: what the program sees makes one of the steps it was promised, *)
(* or none.                                                                *)
LEMMA StepSeen ==
  ASSUME CollectorInv, FaithfulInv, SeenInv, SeenInv', [CollectorNext]_vars
  PROVE  FaithfulInv' /\ [Promise!PromiseNext]_(Promise!heapVars)
  <1>1. CASE UNCHANGED vars
    <2>1. UNCHANGED <<memory, current, new, weak, root, hashState, before, phase, made, scan>>
      BY <1>1 DEF vars, spaceVars, gcVars
    <2>2. FaithfulInv'
      BY <2>1 DEF FaithfulInv
    <2>3. Seen' = Seen
      BY <2>1 DEF Seen, View, Name, Deref, Objects, Places
    <2> QED BY <2>1, <2>2, <2>3 DEF Promise!heapVars
  <1>2. CASE \/ Setup
             \/ ScavengeRoot \/ ScavengeField \/ ScavengedObject \/ ScavengedBlock
             \/ BreakWeakPointer
    <2>1. FaithfulInv' /\ Seen' = Seen /\ made' = made
      BY <1>2, SetupSeen, CollectionSeen
    <2> QED BY <2>1 DEF Promise!heapVars
  <1>3. CASE Flip
    <2>1. FaithfulInv' /\ Promise!Collect
      BY <1>3, FlipSeen
    <2> QED BY <2>1 DEF Promise!PromiseNext
  <1>4. CASE \E r \in Roots : \/ MakeObject(r) \/ Write(r) \/ Drop(r) \/ PointerHashState(r)
                              \/ \E from \in Roots : Read(r, from)
    <2>1. PICK r \in Roots : \/ MakeObject(r) \/ Write(r) \/ Drop(r) \/ PointerHashState(r)
                             \/ \E from \in Roots : Read(r, from)
      BY <1>4
    <2>2. /\ FaithfulInv'
          /\ \/ Promise!Allocate(r) \/ Promise!Write(r) \/ Promise!Drop(r)
             \/ Promise!PointerHash(r) \/ \E from \in Roots : Promise!Read(r, from)
      BY <2>1, MakeObjectSeen, WriteSeen, DropSeen, PointerHashStateSeen, ReadSeen
    <2> QED BY <2>2 DEF Promise!PromiseNext
  <1> QED BY <1>1, <1>2, <1>3, <1>4 DEF CollectorNext

(* To the program a collection happens at once: from beginning to end it   *)
(* sees the heap that it left, and then exactly what its roots reach, with *)
(* the same sharing and the same cycles, the weak pointers to the rest     *)
(* broken, and the hash state ended.                                       *)
THEOREM CollectsInOneStep == CollectorSpec => CollectsAtOnce
  <1>1. CollectorInit => FaithfulInv
    BY CollectorAssumption DEF CollectorInit, FaithfulInv
  <1>2. CollectorInv => SeenInv
    BY ViewShows
  <1>3. CollectorInit /\ SeenInv => Promise!PromiseInit
    <2> SUFFICES ASSUME CollectorInit, SeenInv PROVE Promise!PromiseInit
      OBVIOUS
    <2>1. Shows(Seen, memory, <<>>, root, Nil) /\ root = [r \in Roots |-> Nil] /\ made = 0
      BY DEF CollectorInit, SeenInv
    <2>2. Copies(memory, <<>>) = {}
      BY DEF Copies, Lies, Range
    <2>3. Seen.objects = <<>>
      BY <2>1, <2>2 DEF Shows, ObjectsIn
    <2>4. Seen.root = [r \in Roots |-> Nil] /\ Seen.state = Nil
      BY <2>1 DEF Shows, RootsIn, NameIn
    <2> QED BY <2>1, <2>3, <2>4 DEF Promise!PromiseInit
  <1>4. CollectorInv /\ FaithfulInv /\ SeenInv /\ SeenInv' /\ [CollectorNext]_vars
          => FaithfulInv' /\ [Promise!PromiseNext]_(Promise!heapVars)
    BY StepSeen
  <1> QED BY <1>1, <1>2, <1>3, <1>4, CollectorInvariance, PTL
          DEF CollectorSpec, CollectsAtOnce, Promise!PromiseSpec
=============================================================================
