----------------------- MODULE MindyBreakpointsProofs -----------------------
(***************************************************************************)
(* Proofs about MindyBreakpoints, for any threads, components and bounds.  *)
(***************************************************************************)
EXTENDS MindyBreakpoints, QueueLemmas, FiniteSetTheorems

Entries == [id : Nat, comp : Components \cup {NoComponent}, pc : Nat, orig : Instructions]
Bytes == Instructions \cup {"BREAKPOINT"}

Marked(entries, c, pc) == \E e \in Range(entries) : e.comp = c /\ e.pc = pc

(* The table agrees with the components that are in the heap. *)
TableOK(entries, bytes, n) ==
  /\ entries \in Seq(Entries) /\ IsQueue(entries)
  /\ \A e \in Range(entries) :
       /\ e.id < n
       /\ ~ Broken(e) =>
            /\ bytes[e.comp] # <<>>
            /\ e.pc \in DOMAIN Original[e.comp] /\ e.orig = Original[e.comp][e.pc]
  /\ \A e, f \in Range(entries) :
       e.id = f.id \/ (~ Broken(e) /\ e.comp = f.comp /\ e.pc = f.pc) => e = f

(* The bytes agree with the table. *)
CodeOK(entries, bytes) ==
  /\ bytes \in [Components -> Seq(Bytes)]
  /\ \A c \in Components : bytes[c] # <<>> =>
       /\ Len(bytes[c]) = Len(Original[c])
       /\ \A pc \in DOMAIN Original[c] :
            bytes[c][pc] = IF Marked(entries, c, pc) THEN "BREAKPOINT" ELSE Original[c][pc]

-----------------------------------------------------------------------------
(* The original code. *)
LEMMA OriginalCode ==
  ASSUME NEW c \in Components
  PROVE  /\ Original[c] \in Seq(Instructions) /\ Len(Original[c]) \in Nat
         /\ DOMAIN Original[c] = 1..Len(Original[c])
         /\ 1 \in DOMAIN Original[c]
         /\ \A pc \in DOMAIN Original[c] :
              /\ Original[c][pc] \in Instructions
              /\ Original[c][pc] # "return" => pc + 1 \in DOMAIN Original[c]
  <1>1. /\ Original[c] \in Seq(Instructions) /\ Original[c] # <<>>
        /\ Original[c][Len(Original[c])] = "return"
    BY BreakpointsAssumption DEF Last
  <1> DEFINE q == Original[c]
  <1> HIDE DEF q
  <1>2. /\ Len(q) \in Nat \ {0} /\ DOMAIN q = 1..Len(q)
        /\ \A pc \in 1..Len(q) : q[pc] \in Instructions
    BY <1>1 DEF q
  <1>3. q[Len(q)] = "return"
    BY <1>1 DEF q
  <1>4. \A pc \in 1..Len(q) : q[pc] # "return" => pc + 1 \in 1..Len(q)
    BY <1>2, <1>3
  <1> QED BY <1>1, <1>2, <1>4 DEF q

(* A component in the heap is not a broken pointer. *)
LEMMA NotBroken ==
  ASSUME NEW e, e.comp \in Components
  PROVE  ~ Broken(e)
  BY BreakpointsAssumption DEF Broken

LEMMA FindFinds ==
  ASSUME NEW entries \in Seq(Entries), NEW c, NEW pc
  PROVE  /\ Find(entries, c, pc) \in 0..Len(entries)
         /\ Find(entries, c, pc) # 0 <=> Marked(entries, c, pc)
         /\ Find(entries, c, pc) # 0 =>
              /\ entries[Find(entries, c, pc)] \in Range(entries)
              /\ entries[Find(entries, c, pc)].comp = c
              /\ entries[Find(entries, c, pc)].pc = pc
  <1> DEFINE places == {i \in DOMAIN entries : entries[i].comp = c /\ entries[i].pc = pc}
             First(i) == \A j \in places : i <= j
             k == CHOOSE i \in places : First(i)
  <1>1. DOMAIN entries = 1..Len(entries) /\ Len(entries) \in Nat
    OBVIOUS
  <1>2. Marked(entries, c, pc) <=> places # {}
    BY DEF Marked, Range
  <1>3. Find(entries, c, pc) = IF places = {} THEN 0 ELSE k
    BY DEF Find
  <1>4. CASE places = {}
    BY <1>1, <1>2, <1>3, <1>4
  <1>5. CASE places # {}
    <2>1. places \in SUBSET Nat
      BY <1>1
    <2>2. \E i \in places : First(i)
      <3> HIDE DEF places
      <3> QED BY <1>5, <2>1, LeastNat
    <2>3. k \in places
      <3> HIDE DEF places, First
      <3> QED BY <2>2
    <2> HIDE DEF k
    <2>4. k \in 1..Len(entries) /\ entries[k].comp = c /\ entries[k].pc = pc
      BY <1>1, <2>3
    <2>5. entries[k] \in Range(entries)
      BY <2>4, InQueue
    <2> QED BY <1>1, <1>2, <1>3, <1>5, <2>4, <2>5
  <1> QED BY <1>4, <1>5

-----------------------------------------------------------------------------
(* A table that has lost broken entries at most. *)
Keeps(left, entries) ==
  /\ left \in Seq(Entries) /\ IsQueue(left)
  /\ Range(left) \subseteq Range(entries)
  /\ \A e \in Range(entries) : ~ Broken(e) => e \in Range(left)

LEMMA KeepsOK ==
  ASSUME NEW left, NEW entries, Keeps(left, entries), NEW bytes, NEW n,
         TableOK(entries, bytes, n), CodeOK(entries, bytes)
  PROVE  TableOK(left, bytes, n) /\ CodeOK(left, bytes)
  <1>1. TableOK(left, bytes, n)
    BY DEF TableOK, Keeps
  <1>2. ASSUME NEW c \in Components, NEW pc
        PROVE  Marked(left, c, pc) <=> Marked(entries, c, pc)
    BY NotBroken DEF Marked, Keeps
  <1> QED BY <1>1, <1>2 DEF CodeOK

LEMMA UnbrokenKeeps ==
  ASSUME NEW entries \in Seq(Entries), IsQueue(entries)
  PROVE  /\ Keeps(Unbroken(entries), entries)
         /\ \A e \in Range(Unbroken(entries)) : ~ Broken(e)
  <1> DEFINE K == {e \in Range(entries) : ~ Broken(e)}
             q == SubQueue(entries, K)
  <1>1. q \in Seq(Entries) /\ IsQueue(q) /\ Range(q) = Range(entries) \cap K
    BY SubQueueIsQueue
  <1>2. Unbroken(entries) = q
    BY DEF Unbroken
  <1> HIDE DEF q
  <1> QED BY <1>1, <1>2 DEF Keeps

LEMMA Prefix ==
  ASSUME NEW S, NEW q \in Seq(S), NEW m \in 0..Len(q)
  PROVE  /\ SubSeq(q, 1, m) \in Seq(S) /\ Len(SubSeq(q, 1, m)) = m
         /\ \A i \in 1..m : SubSeq(q, 1, m)[i] = q[i]
  OBVIOUS

(* A part of a table. *)
LEMMA PartOfQueue ==
  ASSUME NEW S, NEW q \in Seq(S), IsQueue(q), NEW m \in 0..Len(q)
  PROVE  /\ SubSeq(q, 1, m) \in Seq(S) /\ IsQueue(SubSeq(q, 1, m))
         /\ SubSeq(q, m + 1, Len(q)) \in Seq(S) /\ IsQueue(SubSeq(q, m + 1, Len(q)))
         /\ Range(SubSeq(q, 1, m)) \cap Range(SubSeq(q, m + 1, Len(q))) = {}
         /\ Range(SubSeq(q, 1, m)) \cup Range(SubSeq(q, m + 1, Len(q))) = Range(q)
  <1> DEFINE n == Len(q)
             a == SubSeq(q, 1, m)
             b == SubSeq(q, m + 1, n)
  <1>1. /\ n \in Nat /\ m \in Nat /\ m <= n /\ DOMAIN q = 1..n
        /\ \A i, j \in 1..n : q[i] = q[j] => i = j
    BY DEF IsQueue, IsInjective
  <1>2. a \in Seq(S) /\ Len(a) = m /\ DOMAIN a = 1..m /\ \A i \in 1..m : a[i] = q[i]
    OBVIOUS
  <1>3. /\ b \in Seq(S) /\ Len(b) = n - m /\ DOMAIN b = 1..(n - m)
        /\ \A i \in 1..(n - m) : b[i] = q[m + i]
    OBVIOUS
  <1> HIDE DEF a, b, n
  <1>4. IsQueue(a)
    BY <1>1, <1>2 DEF IsQueue, IsInjective
  <1>5. IsQueue(b)
    <2>1. ASSUME NEW i \in 1..(n - m), NEW j \in 1..(n - m), b[i] = b[j] PROVE i = j
      <3>1. m + i \in 1..n /\ m + j \in 1..n /\ q[m + i] = q[m + j]
        BY <1>1, <1>3, <2>1
      <3>2. m + i = m + j
        BY <1>1, <3>1
      <3> QED BY <1>1, <3>2
    <2> QED BY <1>3, <2>1 DEF IsQueue, IsInjective
  <1>6. Range(a) \cap Range(b) = {}
    <2>1. ASSUME NEW i \in 1..m, NEW j \in 1..(n - m), a[i] = b[j] PROVE FALSE
      <3>1. i \in 1..n /\ m + j \in 1..n /\ q[i] = q[m + j]
        BY <1>1, <1>2, <1>3, <2>1
      <3>2. i = m + j
        BY <1>1, <3>1
      <3> QED BY <1>1, <3>2
    <2> QED BY <1>2, <1>3, <2>1 DEF Range
  <1>7. Range(a) \subseteq Range(q) /\ Range(b) \subseteq Range(q)
    <2>1. ASSUME NEW i \in 1..m PROVE a[i] \in Range(q)
      <3>1. i \in 1..n /\ a[i] = q[i]
        BY <1>1, <1>2
      <3> QED BY <1>1, <3>1 DEF Range
    <2>2. ASSUME NEW i \in 1..(n - m) PROVE b[i] \in Range(q)
      <3>1. m + i \in 1..n /\ b[i] = q[m + i]
        BY <1>1, <1>3
      <3> QED BY <1>1, <3>1 DEF Range
    <2>3. Range(a) = {a[i] : i \in 1..m} /\ Range(b) = {b[i] : i \in 1..(n - m)}
      BY <1>2, <1>3 DEF Range
    <2> QED BY <2>1, <2>2, <2>3
  <1>8. Range(q) \subseteq Range(a) \cup Range(b)
    <2>1. ASSUME NEW i \in 1..n PROVE q[i] \in Range(a) \cup Range(b)
      <3>1. CASE i <= m
        <4>1. i \in 1..m /\ a[i] = q[i]
          BY <1>1, <1>2, <3>1
        <4> QED BY <1>2, <4>1 DEF Range
      <3>2. CASE ~ (i <= m)
        <4>1. i - m \in 1..(n - m) /\ b[i - m] = q[i]
          BY <1>1, <1>3, <3>2
        <4> QED BY <1>3, <4>1 DEF Range
      <3> QED BY <3>1, <3>2
    <2> QED BY <1>1, <2>1 DEF Range
  <1> QED BY <1>2, <1>3, <1>4, <1>5, <1>6, <1>7, <1>8 DEF n, a, b

LEMMA SearchedKeeps ==
  ASSUME NEW entries \in Seq(Entries), IsQueue(entries), NEW c, NEW pc
  PROVE  Keeps(Searched(entries, c, pc), entries)
  <1> DEFINE n == IF Find(entries, c, pc) = 0 THEN Len(entries) ELSE Find(entries, c, pc)
             a == SubSeq(entries, 1, n)
             b == SubSeq(entries, n + 1, Len(entries))
             u == Unbroken(a)
  <1>1. n \in 0..Len(entries)
    BY FindFinds
  <1>2. Searched(entries, c, pc) = u \o b
    BY DEF Searched
  <1> HIDE DEF n
  <1>3. /\ a \in Seq(Entries) /\ IsQueue(a) /\ b \in Seq(Entries) /\ IsQueue(b)
        /\ Range(a) \cap Range(b) = {} /\ Range(a) \cup Range(b) = Range(entries)
    BY <1>1, PartOfQueue
  <1> HIDE DEF a, b
  <1>4. Keeps(u, a)
    BY <1>3, UnbrokenKeeps
  <1> HIDE DEF u
  <1>5. u \in Seq(Entries) /\ IsQueue(u) /\ Range(u) \cap Range(b) = {}
    BY <1>3, <1>4 DEF Keeps
  <1>6. /\ u \o b \in Seq(Entries) /\ IsQueue(u \o b)
        /\ Range(u \o b) = Range(u) \cup Range(b)
    BY <1>3, <1>5, JoinQueues
  <1>7. /\ Range(u) \cup Range(b) \subseteq Range(entries)
        /\ \A e \in Range(entries) : ~ Broken(e) => e \in Range(u) \cup Range(b)
    BY <1>3, <1>4 DEF Keeps
  <1> DEFINE r == u \o b
  <1>8. r \in Seq(Entries) /\ IsQueue(r) /\ Range(r) = Range(u) \cup Range(b)
    BY <1>6
  <1> HIDE DEF r
  <1>9. Keeps(r, entries)
    BY <1>7, <1>8 DEF Keeps
  <1> QED BY <1>2, <1>9 DEF r

-----------------------------------------------------------------------------
(***************************************************************************)
(* The frames of a thread.                                                 *)
(***************************************************************************)
CodeFrames == [kind : {"code"}, comp : Components, pc : Nat]
Frames == CodeFrames \cup {P!Escape}

IsCode(f) == f.kind = "code"

(* The frame is at an instruction of a component that is in the heap. *)
InHeap(f, bytes) == bytes[f.comp] # <<>> /\ f.pc \in DOMAIN Original[f.comp]

(* The frame is behind a call, to which a frame above it returns. *)
BehindCall(f) == f.pc - 1 \in DOMAIN Original[f.comp] /\ Original[f.comp][f.pc - 1] = "call"

StackOK(s, bytes) ==
  /\ s \in Seq(Frames)
  /\ \A i \in 1..Len(s) :
       /\ IsCode(s[i]) => InHeap(s[i], bytes)
       /\ ~ IsCode(s[i]) => i + 1 \in 1..Len(s) /\ IsCode(s[i + 1])
       /\ IsCode(s[i]) /\ i + 1 \in 1..Len(s) /\ IsCode(s[i + 1]) => BehindCall(s[i])

Escapes(s) == {i \in 1..Len(s) : ~ IsCode(s[i])}

LEMMA KindOfFrame ==
  /\ \A f \in Frames : IsCode(f) <=> f \in CodeFrames
  /\ ~ IsCode(P!Escape)
  /\ \A c \in Components, pc \in Nat :
       /\ P!Frame(c, pc) \in CodeFrames
       /\ P!Frame(c, pc).comp = c /\ P!Frame(c, pc).pc = pc
  BY DEF Frames, CodeFrames, IsCode, P!Escape, P!Frame

LEMMA TopIsCode ==
  ASSUME NEW s, NEW bytes, StackOK(s, bytes), s # <<>>
  PROVE  /\ Len(s) \in Nat \ {0} /\ Last(s) = s[Len(s)]
         /\ s[Len(s)] \in CodeFrames /\ IsCode(s[Len(s)]) /\ InHeap(s[Len(s)], bytes)
         /\ s \in Seq(Frames)
  <1>1. s \in Seq(Frames) /\ Len(s) \in Nat \ {0} /\ s[Len(s)] \in Frames
    BY DEF StackOK
  <1>2. IsCode(s[Len(s)]) /\ InHeap(s[Len(s)], bytes)
    BY <1>1 DEF StackOK
  <1> QED BY <1>1, <1>2, KindOfFrame DEF Last

(* The top frame goes to another of its instructions. *)
LEMMA GoesOK ==
  ASSUME NEW s, NEW bytes, StackOK(s, bytes), s # <<>>,
         NEW pc \in DOMAIN Original[Last(s).comp]
  PROVE  /\ StackOK(P!Goes(s, pc), bytes)
         /\ Len(P!Goes(s, pc)) = Len(s)
         /\ P!Goes(s, pc)[Len(s)].comp = Last(s).comp
         /\ P!Goes(s, pc)[Len(s)].pc = pc
         /\ Escapes(P!Goes(s, pc)) = Escapes(s)
  <1> DEFINE n == Len(s)
             x == [s[n] EXCEPT !.pc = pc]
             r == P!Goes(s, pc)
  <1>1. /\ n \in Nat \ {0} /\ Last(s) = s[n] /\ s[n] \in CodeFrames
        /\ IsCode(s[n]) /\ InHeap(s[n], bytes) /\ s \in Seq(Frames)
    BY TopIsCode
  <1>2. pc \in Nat
    BY <1>1, OriginalCode DEF CodeFrames
  <1>3. x \in CodeFrames /\ x.comp = s[n].comp /\ x.pc = pc
    BY <1>1, <1>2 DEF CodeFrames
  <1>4. IsCode(x) /\ InHeap(x, bytes) /\ x \in Frames
    BY <1>1, <1>3 DEF CodeFrames, IsCode, InHeap, Frames
  <1>5. r = [s EXCEPT ![n] = x]
    BY DEF P!Goes
  <1> HIDE DEF x, r
  <1>6. r \in Seq(Frames) /\ Len(r) = n /\ r[n] = x /\ \A i \in 1..n : i # n => r[i] = s[i]
    BY <1>1, <1>4, <1>5
  <1>7. \A i \in 1..n : IsCode(r[i]) <=> IsCode(s[i])
    BY <1>1, <1>4, <1>6
  <1>8. StackOK(r, bytes)
    <2>1. ASSUME NEW i \in 1..n
          PROVE  /\ IsCode(r[i]) => InHeap(r[i], bytes)
                 /\ ~ IsCode(r[i]) => i + 1 \in 1..n /\ IsCode(r[i + 1])
                 /\ IsCode(r[i]) /\ i + 1 \in 1..n /\ IsCode(r[i + 1]) => BehindCall(r[i])
      <3>1. CASE i = n
        <4>1. r[i] = x /\ i + 1 \notin 1..n
          BY <1>1, <1>6, <3>1
        <4> QED BY <1>4, <4>1
      <3>2. CASE i # n
        <4>1. /\ r[i] = s[i]
              /\ i + 1 \in 1..n => (IsCode(r[i + 1]) <=> IsCode(s[i + 1]))
          BY <1>6, <1>7, <3>2
        <4> QED BY <4>1 DEF StackOK
      <3> QED BY <3>1, <3>2
    <2> QED BY <1>6, <2>1 DEF StackOK
  <1>9. Escapes(r) = Escapes(s)
    BY <1>6, <1>7 DEF Escapes
  <1> QED BY <1>1, <1>3, <1>6, <1>8, <1>9 DEF r

(* A function is called: by the frame that is now behind the call.         *)
LEMMA CalledOK ==
  ASSUME NEW s, NEW bytes, StackOK(s, bytes), s # <<>>, BehindCall(s[Len(s)]),
         NEW c \in Components, bytes[c] # <<>>
  PROVE  /\ StackOK(Append(s, P!Frame(c, 1)), bytes)
         /\ Len(Append(s, P!Frame(c, 1))) = Len(s) + 1
         /\ Append(s, P!Frame(c, 1))[Len(s) + 1].comp = c
         /\ Escapes(Append(s, P!Frame(c, 1))) = Escapes(s)
  <1> DEFINE n == Len(s)
             x == P!Frame(c, 1)
             r == Append(s, x)
  <1>1. n \in Nat \ {0} /\ IsCode(s[n]) /\ s \in Seq(Frames)
    BY TopIsCode
  <1>2. x \in Frames /\ IsCode(x) /\ InHeap(x, bytes) /\ x.comp = c
    <2>1. x \in CodeFrames /\ x.comp = c /\ x.pc = 1
      BY KindOfFrame
    <2>2. x \in Frames
      BY <2>1 DEF Frames
    <2> HIDE DEF x
    <2> QED BY <2>1, <2>2, KindOfFrame, OriginalCode DEF InHeap
  <1> HIDE DEF x
  <1>3. r \in Seq(Frames) /\ Len(r) = n + 1 /\ r[n + 1] = x /\ \A i \in 1..n : r[i] = s[i]
    BY <1>1, <1>2
  <1> HIDE DEF r
  <1>4. StackOK(r, bytes)
    <2>1. ASSUME NEW i \in 1..(n + 1)
          PROVE  /\ IsCode(r[i]) => InHeap(r[i], bytes)
                 /\ ~ IsCode(r[i]) => i + 1 \in 1..(n + 1) /\ IsCode(r[i + 1])
                 /\ IsCode(r[i]) /\ i + 1 \in 1..(n + 1) /\ IsCode(r[i + 1]) => BehindCall(r[i])
      <3>1. CASE i = n + 1
        <4>1. r[i] = x /\ i + 1 \notin 1..(n + 1)
          BY <1>1, <1>3, <3>1
        <4> QED BY <1>2, <4>1
      <3>2. CASE i = n
        <4>1. r[i] = s[n] /\ r[i + 1] = x
          BY <1>1, <1>3, <3>2
        <4> QED BY <1>1, <4>1, TopIsCode
      <3>3. CASE i # n /\ i # n + 1
        <4>1. i \in 1..n /\ i + 1 \in 1..n /\ r[i] = s[i] /\ r[i + 1] = s[i + 1]
          BY <1>1, <1>3, <3>3
        <4> QED BY <4>1 DEF StackOK
      <3> QED BY <3>1, <3>2, <3>3
    <2> QED BY <1>3, <2>1 DEF StackOK
  <1>5. Escapes(r) = Escapes(s)
    <2>1. \A i \in 1..(n + 1) : i \in 1..n \/ i = n + 1
      BY <1>1
    <2>2. \A i \in 1..n : i \in 1..(n + 1)
      BY <1>1
    <2> QED BY <1>2, <1>3, <2>1, <2>2 DEF Escapes
  <1> QED BY <1>2, <1>3, <1>4, <1>5 DEF r, x

(* The frames from the m-th inwards are gone. *)
LEMMA PrefixOK ==
  ASSUME NEW s, NEW bytes, StackOK(s, bytes), NEW m \in 0..Len(s),
         m # 0 => IsCode(s[m])
  PROVE  /\ StackOK(SubSeq(s, 1, m), bytes)
         /\ Len(SubSeq(s, 1, m)) = m
         /\ \A i \in 1..m : SubSeq(s, 1, m)[i] = s[i]
         /\ Escapes(SubSeq(s, 1, m)) = Escapes(s) \cap 1..m
  <1> DEFINE r == SubSeq(s, 1, m)
  <1>1. s \in Seq(Frames) /\ m \in Nat /\ Len(s) \in Nat
    BY DEF StackOK
  <1>2. r \in Seq(Frames) /\ Len(r) = m /\ \A i \in 1..m : r[i] = s[i]
    BY <1>1
  <1> HIDE DEF r
  <1>3. ASSUME NEW i \in 1..m
        PROVE  /\ IsCode(r[i]) => InHeap(r[i], bytes)
               /\ ~ IsCode(r[i]) => i + 1 \in 1..m /\ IsCode(r[i + 1])
               /\ IsCode(r[i]) /\ i + 1 \in 1..m /\ IsCode(r[i + 1]) => BehindCall(r[i])
    <2>1. CASE i = m
      <3>1. IsCode(r[i]) /\ i \in 1..Len(s) /\ r[i] = s[i] /\ i + 1 \notin 1..m
        BY <1>1, <1>2, <2>1
      <3> QED BY <3>1 DEF StackOK
    <2>2. CASE i # m
      <3>1. i \in 1..Len(s) /\ i + 1 \in 1..m /\ i + 1 \in 1..Len(s)
            /\ r[i] = s[i] /\ r[i + 1] = s[i + 1]
        BY <1>1, <1>2, <2>2
      <3> QED BY <3>1 DEF StackOK
    <2> QED BY <2>1, <2>2
  <1>4. StackOK(r, bytes)
    BY <1>2, <1>3 DEF StackOK
  <1>5. Escapes(r) = Escapes(s) \cap 1..m
    <2>1. \A i \in 1..m : i \in 1..Len(s)
      BY <1>1
    <2> QED BY <1>2, <2>1 DEF Escapes
  <1> QED BY <1>2, <1>4, <1>5 DEF r

(* A return: to the frame below, or out of the function that the user      *)
(* called, which takes the escape frame with it.                           *)
LEMMA ReturnedOK ==
  ASSUME NEW s, NEW bytes, StackOK(s, bytes), s # <<>>
  PROVE  /\ StackOK(P!Returned(s), bytes)
         /\ \/ /\ Len(P!Returned(s)) = Len(s) - 1
               /\ Escapes(P!Returned(s)) = Escapes(s)
               /\ P!Returned(s) # <<>> =>
                    /\ BehindCall(Last(P!Returned(s)))
                    /\ InHeap(Last(P!Returned(s)), bytes)
                    /\ Last(P!Returned(s)) \in CodeFrames
            \/ /\ Len(P!Returned(s)) = Len(s) - 2
               /\ Len(s) - 1 \in Escapes(s)
               /\ Escapes(P!Returned(s)) = Escapes(s) \ {Len(s) - 1}
  <1> DEFINE n == Len(s)
             rest == SubSeq(s, 1, n - 1)
             outer == SubSeq(s, 1, n - 2)
             r == P!Returned(s)
  <1>1. /\ n \in Nat \ {0} /\ IsCode(s[n]) /\ s \in Seq(Frames)
        /\ \A i \in 1..n :
             /\ IsCode(s[i]) => InHeap(s[i], bytes)
             /\ ~ IsCode(s[i]) => i + 1 \in 1..n /\ IsCode(s[i + 1])
             /\ IsCode(s[i]) /\ i + 1 \in 1..n /\ IsCode(s[i + 1]) => BehindCall(s[i])
    BY TopIsCode DEF StackOK
  <1>8. n \in Nat \ {0}
    BY <1>1
  <1>2. n - 1 \in 0..n
    <2> HIDE DEF n
    <2> QED BY <1>8
  <1>3. rest \in Seq(Frames) /\ Len(rest) = n - 1 /\ \A i \in 1..(n - 1) : rest[i] = s[i]
    BY <1>1, <1>2, Prefix
  <1>4. r = IF rest # <<>> /\ Last(rest).kind = "escape" THEN Front(rest) ELSE rest
    BY DEF P!Returned, P!Front, P!Last, Front, Last
  <1>5. CASE n = 1
    <2>1. rest = <<>>
      BY <1>3, <1>5
    <2>2. r = <<>> /\ rest = r
      BY <1>4, <2>1
    <2>3. StackOK(rest, bytes) /\ Escapes(rest) = Escapes(s) \cap 1..(n - 1)
      BY <1>2, <1>5, PrefixOK
    <2>4. Escapes(s) \cap 1..(n - 1) = Escapes(s)
      BY <1>1, <1>5 DEF Escapes
    <2> HIDE DEF rest, r
    <2>5. Len(r) = n - 1
      BY <1>5, <2>2
    <2> QED BY <2>2, <2>3, <2>4, <2>5 DEF r
  <1>6. CASE n # 1
    <2>1. n - 1 \in 1..n /\ n - 1 \in 1..(n - 1)
      <3> HIDE DEF n
      <3> QED BY <1>8, <1>6
    <2>2. rest # <<>> /\ Last(rest) = s[n - 1]
      <3>1. Len(rest) # 0 /\ Last(rest) = rest[Len(rest)]
        <4> HIDE DEF rest, n
        <4> QED BY <1>3, <1>8, <1>6 DEF Last
      <3>2. rest[Len(rest)] = s[n - 1]
        BY <1>3, <2>1
      <3> QED BY <3>1, <3>2
    <2>3. s[n - 1] \in Frames
      BY <1>1, <2>1
    <2>4. Last(rest).kind = "escape" <=> ~ IsCode(s[n - 1])
      BY <2>2, <2>3 DEF Frames, CodeFrames, IsCode, P!Escape
    <2>5. CASE IsCode(s[n - 1])
      <3>1. r = rest
        BY <1>4, <2>4, <2>5
      <3>2. StackOK(rest, bytes) /\ Escapes(rest) = Escapes(s) \cap 1..(n - 1)
        BY <1>2, <2>5, PrefixOK
      <3>3. Escapes(s) \cap 1..(n - 1) = Escapes(s)
        <4>1. \A i \in 1..n : i = n \/ i \in 1..(n - 1)
          <5> HIDE DEF n
          <5> QED BY <1>8
        <4> QED BY <1>1, <4>1 DEF Escapes
      <3>4. BehindCall(s[n - 1]) /\ InHeap(s[n - 1], bytes) /\ s[n - 1] \in CodeFrames
        <4>1. n - 1 + 1 \in 1..n /\ n - 1 + 1 = n
          <5> HIDE DEF n
          <5> QED BY <1>8
        <4> QED BY <1>1, <2>1, <2>3, <2>5, <4>1, KindOfFrame
      <3> HIDE DEF rest, r
      <3> QED BY <1>3, <2>2, <3>1, <3>2, <3>3, <3>4 DEF r
    <2>6. CASE ~ IsCode(s[n - 1])
      <3>1. n - 2 \in 0..n /\ n - 2 \in 0..(n - 1)
        <4> HIDE DEF n
        <4> QED BY <1>8, <1>6
      <3>2. r = outer
        <4>1. r = SubSeq(rest, 1, Len(rest) - 1)
          BY <1>4, <2>2, <2>4, <2>6 DEF Front
        <4>2. Len(rest) - 1 = n - 2
          <5> HIDE DEF n, rest
          <5> QED BY <1>8, <1>3
        <4>3. SubSeq(rest, 1, n - 2) = outer
          <5>1. /\ SubSeq(rest, 1, n - 2) \in Seq(Frames) /\ Len(SubSeq(rest, 1, n - 2)) = n - 2
                /\ \A i \in 1..(n - 2) : SubSeq(rest, 1, n - 2)[i] = rest[i]
            <6> HIDE DEF rest
            <6> QED BY <1>3, <3>1
          <5>2. /\ outer \in Seq(Frames) /\ Len(outer) = n - 2
                /\ \A i \in 1..(n - 2) : outer[i] = s[i]
            BY <1>1, <3>1, Prefix
          <5> DEFINE q == SubSeq(rest, 1, n - 2)
          <5> HIDE DEF outer, rest
          <5>3. \A i \in 1..(n - 2) : rest[i] = s[i]
            <6> HIDE DEF n
            <6> QED BY <1>8, <1>3
          <5>4. q \in Seq(Frames) /\ Len(q) = n - 2 /\ \A i \in 1..(n - 2) : q[i] = s[i]
            BY <5>1, <5>3
          <5> HIDE DEF q
          <5>5. q = outer
            BY <5>2, <5>4
          <5> QED BY <5>5 DEF q
        <4> QED BY <4>1, <4>2, <4>3
      <3>3. n - 2 # 0 => IsCode(s[n - 2])
        <4>1. n - 2 # 0 => n - 2 \in 1..n /\ n - 2 + 1 = n - 1
          <5> HIDE DEF n
          <5> QED BY <1>8, <1>6
        <4> QED BY <1>1, <2>6, <4>1
      <3>4. StackOK(outer, bytes) /\ Len(outer) = n - 2 /\ Escapes(outer) = Escapes(s) \cap 1..(n - 2)
        BY <3>1, <3>3, PrefixOK
      <3>5. n - 1 \in Escapes(s)
        BY <2>1, <2>6 DEF Escapes
      <3>6. Escapes(s) \cap 1..(n - 2) = Escapes(s) \ {n - 1}
        <4>1. \A i \in 1..n : i = n \/ i = n - 1 \/ i \in 1..(n - 2)
          <5> HIDE DEF n
          <5> QED BY <1>8
        <4>2. n - 1 \notin 1..(n - 2)
          <5> HIDE DEF n
          <5> QED BY <1>8
        <4> QED BY <1>1, <4>1, <4>2 DEF Escapes
      <3> HIDE DEF outer, r
      <3> QED BY <3>2, <3>4, <3>5, <3>6 DEF r
    <2> QED BY <2>5, <2>6
  <1> QED BY <1>5, <1>6

(* The instruction under the pc is executed. *)
Ends(s, r, op) == op = "return" /\ Len(s) - Len(r) = 2
Back(s, r, op) ==
  r # <<>> /\ ~ Ends(s, r, op) /\ (op = "return" \/ (op = "call" /\ Len(r) = Len(s)))

LEMMA MoveOK ==
  ASSUME NEW s, NEW bytes, StackOK(s, bytes), s # <<>>,
         NEW op, op = Original[Last(s).comp][Last(s).pc],
         NEW r \in P!Moves(s, op),
         Len(r) > Len(s) => bytes[Last(r).comp] # <<>>
  PROVE  /\ StackOK(r, bytes)
         /\ Ends(s, r, op) => /\ Len(s) - 1 \in Escapes(s)
                              /\ Escapes(r) = Escapes(s) \ {Len(s) - 1}
         /\ ~ Ends(s, r, op) => Escapes(r) = Escapes(s)
         /\ Back(s, r, op) => /\ BehindCall(Last(r)) /\ InHeap(Last(r), bytes)
                              /\ Last(r) \in CodeFrames
  <1> DEFINE n == Len(s)
             top == Last(s)
             next == P!Goes(s, top.pc + 1)
             again == P!Goes(s, 1)
  <1>1. /\ n \in Nat \ {0} /\ top = s[n] /\ s \in Seq(Frames)
        /\ top \in CodeFrames /\ top.comp \in Components /\ top.pc \in Nat
        /\ top.pc \in DOMAIN Original[top.comp]
    BY TopIsCode DEF CodeFrames, InHeap
  <1> HIDE DEF top
  <1>2. op \in Instructions /\ (op # "return" => top.pc + 1 \in DOMAIN Original[top.comp])
    BY <1>1, OriginalCode DEF top
  <1>3. op # "return" =>
          /\ StackOK(next, bytes) /\ Len(next) = n /\ Escapes(next) = Escapes(s)
          /\ next[n].comp = top.comp /\ next[n].pc = top.pc + 1
    BY <1>2, GoesOK DEF top
  <1>4. StackOK(again, bytes) /\ Len(again) = n /\ Escapes(again) = Escapes(s)
    <2>1. 1 \in DOMAIN Original[top.comp]
      BY <1>1, OriginalCode
    <2> QED BY <2>1, GoesOK DEF top
  <1> HIDE DEF again
  <1>5. CASE op = "branch"
    <2>1. r \in {next, again}
      BY <1>5 DEF P!Moves, P!Last, Last, top, again
    <2> HIDE DEF next
    <2> QED BY <1>3, <1>4, <1>5, <2>1 DEF Ends, Back
  <1>6. CASE op = "call"
    <2>1. \/ r = next
          \/ \E c \in Components : r = Append(next, P!Frame(c, 1))
      BY <1>6 DEF P!Moves, P!Last, Last, top
    <2> HIDE DEF next
    <2>2. /\ next # <<>> /\ BehindCall(next[n])
          /\ Last(next) = next[n] /\ next[n] \in CodeFrames /\ InHeap(next[n], bytes)
      <3>1. next # <<>>
        BY <1>1, <1>3, <1>6
      <3>2. Last(next) = next[n] /\ next[n] \in CodeFrames /\ InHeap(next[n], bytes)
        BY <1>3, <1>6, <3>1, TopIsCode
      <3>3. next[n].pc - 1 = top.pc /\ next[n].comp = top.comp
        BY <1>1, <1>3, <1>6
      <3>4. BehindCall(next[n])
        BY <1>1, <1>6, <3>3 DEF BehindCall, top
      <3> QED BY <3>1, <3>2, <3>4
    <2>3. CASE r = next
      <3>1. ~ Ends(s, r, op)
        BY <1>6 DEF Ends
      <3> QED BY <1>3, <1>6, <2>2, <2>3, <3>1
    <2>4. ASSUME NEW c \in Components, r = Append(next, P!Frame(c, 1))
          PROVE  StackOK(r, bytes) /\ Escapes(r) = Escapes(s) /\ Len(r) = n + 1
      <3>1. Len(r) = n + 1 /\ Last(r).comp = c
        <4>1. next \in Seq(Frames) /\ P!Frame(c, 1) \in Frames /\ P!Frame(c, 1).comp = c
          BY <1>3, <1>6, KindOfFrame DEF StackOK, Frames
        <4> DEFINE x == P!Frame(c, 1)
        <4> HIDE DEF x
        <4>2. Append(next, x) \in Seq(Frames) /\ Len(Append(next, x)) = n + 1
              /\ Append(next, x)[n + 1] = x
          BY <1>1, <1>3, <1>6, <4>1 DEF x
        <4> QED BY <2>4, <4>1, <4>2 DEF x, Last
      <3>2. bytes[c] # <<>>
        BY <1>1, <3>1
      <3> QED BY <1>3, <1>6, <2>2, <2>4, <3>1, <3>2, CalledOK
    <2>5. CASE r # next
      <3>1. StackOK(r, bytes) /\ Escapes(r) = Escapes(s) /\ Len(r) = n + 1
        BY <2>1, <2>4, <2>5
      <3>2. ~ Ends(s, r, op) /\ ~ Back(s, r, op)
        BY <1>1, <1>6, <3>1 DEF Ends, Back
      <3> QED BY <3>1, <3>2
    <2> QED BY <2>3, <2>5
  <1>7. CASE op = "return"
    <2>1. r = P!Returned(s)
      BY <1>7 DEF P!Moves
    <2>2. /\ StackOK(r, bytes)
          /\ \/ /\ Len(r) = n - 1
                /\ Escapes(r) = Escapes(s)
                /\ r # <<>> => /\ BehindCall(Last(r)) /\ InHeap(Last(r), bytes)
                               /\ Last(r) \in CodeFrames
             \/ /\ Len(r) = n - 2
                /\ n - 1 \in Escapes(s)
                /\ Escapes(r) = Escapes(s) \ {n - 1}
      BY <2>1, ReturnedOK
    <2> QED BY <1>1, <1>7, <2>2 DEF Ends, Back
  <1> QED BY <1>2, <1>5, <1>6, <1>7 DEF Instructions

(* The user calls a function on a thread, wherever it is. *)
LEMMA UserCalledOK ==
  ASSUME NEW s, NEW bytes, StackOK(s, bytes), NEW c \in Components, bytes[c] # <<>>
  PROVE  /\ StackOK(s \o <<P!Escape, P!Frame(c, 1)>>, bytes)
         /\ Escapes(s \o <<P!Escape, P!Frame(c, 1)>>) = Escapes(s) \cup {Len(s) + 1}
  <1> DEFINE n == Len(s)
             x == P!Frame(c, 1)
             y == P!Escape
             r == s \o <<y, x>>
  <1>1. n \in Nat /\ s \in Seq(Frames)
    BY DEF StackOK
  <1>2. x \in Frames /\ IsCode(x) /\ InHeap(x, bytes)
    <2>1. x \in CodeFrames /\ x.comp = c /\ x.pc = 1
      BY KindOfFrame
    <2>2. x \in Frames
      BY <2>1 DEF Frames
    <2> HIDE DEF x
    <2> QED BY <2>1, <2>2, KindOfFrame, OriginalCode DEF InHeap
  <1>3. y \in Frames /\ ~ IsCode(y)
    BY KindOfFrame DEF Frames
  <1> HIDE DEF x, y
  <1>4. /\ r \in Seq(Frames) /\ Len(r) = n + 2 /\ r[n + 1] = y /\ r[n + 2] = x
        /\ \A i \in 1..n : r[i] = s[i]
    BY <1>1, <1>2, <1>3
  <1> HIDE DEF r
  <1>5. ASSUME NEW i \in 1..(n + 2)
        PROVE  /\ IsCode(r[i]) => InHeap(r[i], bytes)
               /\ ~ IsCode(r[i]) => i + 1 \in 1..(n + 2) /\ IsCode(r[i + 1])
               /\ IsCode(r[i]) /\ i + 1 \in 1..(n + 2) /\ IsCode(r[i + 1]) => BehindCall(r[i])
    <2>1. CASE i = n + 2
      <3>1. r[i] = x /\ i + 1 \notin 1..(n + 2)
        BY <1>1, <1>4, <2>1
      <3> QED BY <1>2, <3>1
    <2>2. CASE i = n + 1
      <3>1. r[i] = y /\ r[i + 1] = x /\ i + 1 \in 1..(n + 2)
        BY <1>1, <1>4, <2>2
      <3> QED BY <1>2, <1>3, <3>1
    <2>3. CASE i = n
      <3>1. i \in 1..n /\ i + 1 \notin 1..n /\ r[i] = s[i] /\ r[i + 1] = y
        BY <1>1, <1>4, <2>3
      <3> QED BY <1>3, <3>1 DEF StackOK
    <2>4. CASE i \notin {n, n + 1, n + 2}
      <3>1. i \in 1..n /\ i + 1 \in 1..n /\ r[i] = s[i] /\ r[i + 1] = s[i + 1]
        BY <1>1, <1>4, <2>4
      <3> QED BY <3>1 DEF StackOK
    <2> QED BY <2>1, <2>2, <2>3, <2>4
  <1>6. StackOK(r, bytes)
    BY <1>4, <1>5 DEF StackOK
  <1>7. Escapes(r) = Escapes(s) \cup {n + 1}
    <2>1. \A i \in 1..(n + 2) : i \in 1..n \/ i = n + 1 \/ i = n + 2
      BY <1>1
    <2>2. \A i \in 1..n : i \in 1..(n + 2)
      BY <1>1
    <2>3. n + 1 \in 1..(n + 2)
      BY <1>1
    <2> QED BY <1>2, <1>3, <1>4, <2>1, <2>2, <2>3 DEF Escapes
  <1> QED BY <1>6, <1>7 DEF r, x, y

(* A thread is where its frames are, whatever else comes or goes. *)
LEMMA HeapOK ==
  ASSUME NEW s, NEW bytes, StackOK(s, bytes), NEW after,
         \A i \in 1..Len(s) : IsCode(s[i]) => after[s[i].comp] # <<>>
  PROVE  StackOK(s, after)
  BY DEF StackOK, InHeap

(* The escape frames are counted. *)
LEMMA CountEscapes ==
  ASSUME NEW s \in Seq(Frames)
  PROVE  /\ IsFiniteSet(Escapes(s)) /\ Cardinality(Escapes(s)) \in Nat
         /\ \A i \in Escapes(s) :
              /\ Cardinality(Escapes(s)) # 0
              /\ Cardinality(Escapes(s) \ {i}) = Cardinality(Escapes(s)) - 1
         /\ Cardinality(Escapes(s) \cup {Len(s) + 1}) = Cardinality(Escapes(s)) + 1
  <1> DEFINE E == Escapes(s)
  <1>1. Len(s) \in Nat /\ E \subseteq 1..Len(s)
    BY DEF Escapes
  <1>2. IsFiniteSet(1..Len(s))
    BY <1>1, FS_Interval
  <1>3. IsFiniteSet(E)
    BY <1>1, <1>2, FS_Subset
  <1>4. Len(s) + 1 \notin E
    BY <1>1
  <1> HIDE DEF E
  <1>5. Cardinality(E) \in Nat
    BY <1>3, FS_CardinalityType
  <1>6. ASSUME NEW i \in E
        PROVE  Cardinality(E) # 0 /\ Cardinality(E \ {i}) = Cardinality(E) - 1
    <2>1. E # {}
      BY <1>6
    <2> QED BY <1>3, <2>1, FS_EmptySet, FS_RemoveElement
  <1>7. Cardinality(E \cup {Len(s) + 1}) = Cardinality(E) + 1
    BY <1>3, <1>4, FS_AddElement
  <1> QED BY <1>3, <1>5, <1>6, <1>7 DEF E

-----------------------------------------------------------------------------
(***************************************************************************)
(* The invariant.                                                          *)
(***************************************************************************)
Advances == {"interpret", "skip"}
Saved == {x \in [advance : Advances, reported : BOOLEAN] : x.reported <=> x.advance = "skip"}

(* A thread with frames s, of which the escape frames hold v.  A thread    *)
(* that has nothing to do is nowhere that it could have stopped.           *)
ThreadOK(s, v, a, r, bytes) ==
  /\ StackOK(s, bytes)
  /\ v \in Seq(Saved) /\ Len(v) = Cardinality(Escapes(s))
  /\ a \in Advances /\ r \in BOOLEAN /\ (r <=> a = "skip")
  /\ s = <<>> => ~ r
  /\ 1 \in Escapes(s) => ~ v[Len(v)].reported

ThreadsOK ==
  /\ stack \in [Threads -> Seq(Frames)] /\ saved \in [Threads -> Seq(Saved)]
  /\ advance \in [Threads -> Advances] /\ reported \in [Threads -> BOOLEAN]
  /\ \A t \in Threads : ThreadOK(stack[t], saved[t], advance[t], reported[t], code)

ProgramOK ==
  /\ TableOK(table, code, nextId) /\ CodeOK(table, code)
  /\ bound \subseteq Live /\ nextId \in Nat /\ fault = FALSE

BrkInv == ThreadsOK /\ ProgramOK

(* What is at a place of a component in the heap. *)
LEMMA ByteThere ==
  ASSUME NEW entries, NEW bytes, NEW n, TableOK(entries, bytes, n), CodeOK(entries, bytes),
         NEW c \in Components, bytes[c] # <<>>, NEW pc \in DOMAIN Original[c]
  PROVE  /\ bytes[c][pc] = "BREAKPOINT" <=> Find(entries, c, pc) # 0
         /\ Find(entries, c, pc) # 0 => entries[Find(entries, c, pc)].orig = Original[c][pc]
         /\ Find(entries, c, pc) = 0 => bytes[c][pc] = Original[c][pc]
  <1>1. Original[c][pc] # "BREAKPOINT"
    BY OriginalCode DEF Instructions
  <1>2. bytes[c][pc] = IF Marked(entries, c, pc) THEN "BREAKPOINT" ELSE Original[c][pc]
    BY DEF CodeOK
  <1> DEFINE i == Find(entries, c, pc)
  <1>3. /\ i # 0 <=> Marked(entries, c, pc)
        /\ i # 0 => entries[i] \in Range(entries) /\ entries[i].comp = c /\ entries[i].pc = pc
    BY FindFinds DEF TableOK
  <1> HIDE DEF i
  <1>4. i # 0 => entries[i].orig = Original[c][pc]
    <2> SUFFICES ASSUME i # 0 PROVE entries[i].orig = Original[c][pc]
      OBVIOUS
    <2> DEFINE e == entries[i]
    <2>1. e \in Range(entries) /\ e.comp = c /\ e.pc = pc
      BY <1>3
    <2> HIDE DEF e
    <2>2. ~ Broken(e)
      BY <2>1, NotBroken
    <2>3. e.orig = Original[e.comp][e.pc]
      BY <2>1, <2>2 DEF TableOK
    <2> QED BY <2>1, <2>3 DEF e
  <1> QED BY <1>1, <1>2, <1>3, <1>4 DEF i

(* The opcode of the call is found by the frame that is returned to. *)
LEMMA FindsCall ==
  ASSUME ProgramOK, NEW f \in CodeFrames, BehindCall(f), InHeap(f, code)
  PROVE  CallOpcode(f.comp, f.pc - 1) = "call"
  <1> DEFINE c == f.comp
             pc == f.pc - 1
  <1>1. c \in Components /\ code[c] # <<>> /\ pc \in DOMAIN Original[c] /\ Original[c][pc] = "call"
    BY DEF CodeFrames, BehindCall, InHeap
  <1> HIDE DEF c, pc
  <1>2. /\ code[c][pc] = "BREAKPOINT" <=> Find(table, c, pc) # 0
        /\ Find(table, c, pc) # 0 => table[Find(table, c, pc)].orig = Original[c][pc]
        /\ Find(table, c, pc) = 0 => code[c][pc] = Original[c][pc]
    BY <1>1, ByteThere DEF ProgramOK
  <1>3. CallOpcode(c, pc) = "call"
    BY <1>1, <1>2 DEF CallOpcode, IsBreakpoint, OrigByte
  <1> QED BY <1>3 DEF c, pc

LEMMA KeepsKeeps ==
  ASSUME NEW a, NEW b, NEW c, Keeps(a, b), Keeps(b, c)
  PROVE  Keeps(a, c)
  BY DEF Keeps

(* What happens to one thread. *)
LEMMA OneThread ==
  ASSUME ThreadsOK, NEW t \in Threads, NEW s, NEW v, NEW a, NEW r,
         ThreadOK(s, v, a, r, code), code' = code,
         stack' = [stack EXCEPT ![t] = s], saved' = [saved EXCEPT ![t] = v],
         advance' = [advance EXCEPT ![t] = a], reported' = [reported EXCEPT ![t] = r]
  PROVE  ThreadsOK'
  <1>1. s \in Seq(Frames) /\ v \in Seq(Saved) /\ a \in Advances /\ r \in BOOLEAN
    BY DEF ThreadOK, StackOK
  <1>2. /\ stack' \in [Threads -> Seq(Frames)] /\ saved' \in [Threads -> Seq(Saved)]
        /\ advance' \in [Threads -> Advances] /\ reported' \in [Threads -> BOOLEAN]
    BY <1>1 DEF ThreadsOK
  <1>3. ASSUME NEW u \in Threads
        PROVE  ThreadOK(stack'[u], saved'[u], advance'[u], reported'[u], code')
    <2>1. CASE u = t
      <3>1. stack'[u] = s /\ saved'[u] = v /\ advance'[u] = a /\ reported'[u] = r
        BY <2>1 DEF ThreadsOK
      <3> QED BY <3>1
    <2>2. CASE u # t
      <3>1. /\ stack'[u] = stack[u] /\ saved'[u] = saved[u]
            /\ advance'[u] = advance[u] /\ reported'[u] = reported[u]
        BY <2>2 DEF ThreadsOK
      <3> QED BY <3>1 DEF ThreadsOK
    <2> QED BY <2>1, <2>2
  <1> QED BY <1>2, <1>3 DEF ThreadsOK

-----------------------------------------------------------------------------
(* An instruction is executed.  What the thread does is what a program     *)
(* without breakpoints does, and it loses none of its places.              *)
LEMMA ExecuteInvariance ==
  ASSUME BrkInv, NEW t \in Threads, stack[t] # <<>>,
         NEW op, op = Original[Current(t)][Pc(t)],
         NEW searched, Keeps(searched, table), Execute(t, op, searched)
  PROVE  BrkInv' /\ P!Runs(t)
  <1> DEFINE x == stack[t]
  <1>1. ThreadOK(x, saved[t], advance[t], reported[t], code)
    BY DEF BrkInv, ThreadsOK
  <1>2. /\ StackOK(x, code) /\ x # <<>> /\ op = Original[Last(x).comp][Last(x).pc]
        /\ ProgramOK /\ ThreadsOK
    BY <1>1 DEF ThreadOK, Current, Pc, Top, BrkInv
  <1>3. PICK s \in P!Moves(x, op) :
          /\ Len(s) > Len(x) => Last(s).comp \in bound
          /\ stack' = [stack EXCEPT ![t] = s]
          /\ advance' = [advance EXCEPT ![t] =
                           IF Ends(x, s, op) THEN Head(saved[t]).advance ELSE "interpret"]
          /\ reported' = [reported EXCEPT ![t] = Ends(x, s, op) /\ Head(saved[t]).reported]
          /\ saved' = [saved EXCEPT ![t] = IF Ends(x, s, op) THEN Tail(@) ELSE @]
          /\ IF Back(x, s, op)
               THEN /\ fault' = (CallOpcode(Last(s).comp, Last(s).pc - 1) # "call")
                    /\ table' = IF code[Last(s).comp][Last(s).pc - 1] = "BREAKPOINT"
                                  THEN Searched(searched, Last(s).comp, Last(s).pc - 1)
                                  ELSE searched
               ELSE fault' = FALSE /\ table' = searched
          /\ code' = code /\ bound' = bound /\ nextId' = nextId
    BY DEF Execute, Ends, Back, programVars
  <1> DEFINE ends == Ends(x, s, op)
             v == IF ends THEN Tail(saved[t]) ELSE saved[t]
             a == IF ends THEN Head(saved[t]).advance ELSE "interpret"
             r == ends /\ Head(saved[t]).reported
  <1>4. Len(s) > Len(x) => code[Last(s).comp] # <<>>
    BY <1>2, <1>3 DEF ProgramOK, Live
  <1>5. /\ StackOK(s, code)
        /\ ends => /\ Len(x) - 1 \in Escapes(x)
                   /\ Escapes(s) = Escapes(x) \ {Len(x) - 1}
        /\ ~ ends => Escapes(s) = Escapes(x)
        /\ Back(x, s, op) => /\ BehindCall(Last(s)) /\ InHeap(Last(s), code)
                             /\ Last(s) \in CodeFrames
    <2> HIDE DEF x
    <2> QED BY <1>2, <1>3, <1>4, MoveOK
  <1> HIDE DEF ends
  <1>6. ThreadOK(s, v, a, r, code)
    <2>1. /\ saved[t] \in Seq(Saved) /\ Len(saved[t]) = Cardinality(Escapes(x))
          /\ x \in Seq(Frames) /\ s \in Seq(Frames)
          /\ 1 \in Escapes(x) => ~ saved[t][Len(saved[t])].reported
      BY <1>1, <1>5 DEF ThreadOK, StackOK
    <2> HIDE DEF x
    <2>2. CASE ends
      <3>1. /\ Cardinality(Escapes(x)) # 0 /\ Cardinality(Escapes(x)) \in Nat
            /\ Cardinality(Escapes(s)) = Cardinality(Escapes(x)) - 1
        BY <1>5, <2>1, <2>2, CountEscapes
      <3> DEFINE h == saved[t]
      <3> HIDE DEF h
      <3>2. h \in Seq(Saved) /\ Len(h) # 0
        BY <2>1, <3>1 DEF h
      <3>3. Head(h) \in Saved /\ Tail(h) \in Seq(Saved) /\ Len(Tail(h)) = Len(h) - 1
        BY <3>2
      <3>4. Head(h).advance \in Advances /\ Head(h).reported \in BOOLEAN
            /\ (Head(h).reported <=> Head(h).advance = "skip")
        BY <3>3 DEF Saved
      <3>5. v = Tail(h) /\ a = Head(h).advance /\ (r <=> Head(h).reported) /\ r \in BOOLEAN
        BY <2>2 DEF h
      <3>6. Len(h) = Cardinality(Escapes(x)) /\ (1 \in Escapes(x) => ~ h[Len(h)].reported)
        BY <2>1 DEF h
      <3>7. s = <<>> => ~ Head(h).reported
        <4> SUFFICES ASSUME s = <<>> PROVE ~ Head(h).reported
          OBVIOUS
        <4>1. Escapes(s) = {}
          BY DEF Escapes
        <4>2. Cardinality(Escapes(s)) = 0
          BY <4>1, FS_EmptySet
        <4>3. Len(h) = 1
          BY <3>1, <3>6, <4>2
        <4>4. 1 \in Escapes(x)
          <5>1. Len(x) - Len(s) = 2 /\ Len(s) = 0 /\ Len(x) \in Nat
            BY <2>1, <2>2 DEF ends, Ends
          <5>2. Len(x) - 1 = 1
            BY <5>1
          <5> QED BY <1>5, <2>2, <5>2
        <4>5. Head(h) = h[1]
          BY <3>2
        <4> QED BY <3>6, <4>3, <4>4, <4>5
      <3>8. 1 \in Escapes(s) => ~ Tail(h)[Len(Tail(h))].reported
        <4> SUFFICES ASSUME 1 \in Escapes(s) PROVE ~ Tail(h)[Len(Tail(h))].reported
          OBVIOUS
        <4>1. Cardinality(Escapes(s)) # 0 /\ Cardinality(Escapes(s)) \in Nat
          BY <2>1, CountEscapes
        <4>2. Len(h) - 1 \in Nat \ {0}
          BY <3>1, <3>6, <4>1
        <4>3. Tail(h)[Len(h) - 1] = h[Len(h)]
          <5>1. \A i \in 1..(Len(h) - 1) : Tail(h)[i] = h[i + 1]
            BY <3>2
          <5>2. Len(h) - 1 \in 1..(Len(h) - 1) /\ Len(h) - 1 + 1 = Len(h)
            <6> DEFINE n == Len(h)
            <6>1. n - 1 \in Nat \ {0} /\ n \in Nat
              BY <3>2, <4>2
            <6> HIDE DEF n
            <6>2. n - 1 \in 1..(n - 1) /\ n - 1 + 1 = n
              BY <6>1
            <6> QED BY <6>2 DEF n
          <5>3. Tail(h)[Len(h) - 1] = h[Len(h) - 1 + 1]
            BY <5>1, <5>2
          <5> QED BY <5>2, <5>3
        <4>4. 1 \in Escapes(x)
          BY <1>5, <2>2
        <4> QED BY <3>3, <3>6, <4>3, <4>4
      <3> HIDE DEF v, a, r
      <3> QED BY <1>5, <3>1, <3>3, <3>4, <3>5, <3>6, <3>7, <3>8 DEF ThreadOK
    <2>3. CASE ~ ends
      <3>1. v = saved[t] /\ a = "interpret" /\ r = FALSE
        BY <2>3
      <3> HIDE DEF v, a, r
      <3> QED BY <1>5, <2>1, <2>3, <3>1 DEF ThreadOK, Advances
    <2> QED BY <2>2, <2>3
  <1>7. /\ saved' = [saved EXCEPT ![t] = v] /\ advance' = [advance EXCEPT ![t] = a]
        /\ reported' = [reported EXCEPT ![t] = r]
    BY <1>3 DEF ends
  <1>8. ThreadsOK'
    <2>1. ThreadsOK /\ code' = code /\ stack' = [stack EXCEPT ![t] = s]
      BY <1>2, <1>3
    <2> HIDE DEF v, a, r, x
    <2> QED BY <1>6, <1>7, <2>1, OneThread
  <1>9. Keeps(table', table) /\ fault' = FALSE
    <2>1. CASE Back(x, s, op)
      <3> DEFINE c == Last(s).comp
                 pc == Last(s).pc - 1
      <3>1. CallOpcode(c, pc) = "call"
        BY <1>2, <1>5, <2>1, FindsCall
      <3>2. fault' = (CallOpcode(c, pc) # "call")
            /\ (table' = Searched(searched, c, pc) \/ table' = searched)
        BY <1>3, <2>1
      <3> HIDE DEF c, pc
      <3>3. Keeps(Searched(searched, c, pc), searched)
        BY SearchedKeeps DEF Keeps
      <3>4. Keeps(Searched(searched, c, pc), table)
        BY <3>3, KeepsKeeps
      <3> QED BY <3>1, <3>2, <3>4
    <2>2. CASE ~ Back(x, s, op)
      BY <1>3, <2>2
    <2> QED BY <2>1, <2>2
  <1>10. ProgramOK'
    <2>1. TableOK(table', code, nextId) /\ CodeOK(table', code)
      BY <1>2, <1>9, KeepsOK DEF ProgramOK
    <2> QED BY <1>2, <1>3, <1>9, <2>1 DEF ProgramOK, Live
  <1>11. P!Runs(t)
    <2>1. P!InCode(x)
      BY <1>2, TopIsCode DEF P!InCode, P!Last, Last, IsCode
    <2>2. op = Original[P!Last(x).comp][P!Last(x).pc]
      BY <1>2 DEF P!Last, Last
    <2> QED BY <1>3, <2>1, <2>2 DEF P!Runs
  <1> QED BY <1>8, <1>10, <1>11 DEF BrkInv

(* The instruction that a thread is at. *)
LEMMA AtInstruction ==
  ASSUME BrkInv, NEW t \in Threads, stack[t] # <<>>
  PROVE  /\ Current(t) \in Components /\ code[Current(t)] # <<>>
         /\ Pc(t) \in DOMAIN Original[Current(t)]
         /\ Byte(t) = "BREAKPOINT" <=> IsBreakpoint(Current(t), Pc(t))
         /\ IsBreakpoint(Current(t), Pc(t)) =>
              OrigByte(Current(t), Pc(t)) = Original[Current(t)][Pc(t)]
         /\ ~ IsBreakpoint(Current(t), Pc(t)) => Byte(t) = Original[Current(t)][Pc(t)]
  <1>1. StackOK(stack[t], code)
    BY DEF BrkInv, ThreadsOK, ThreadOK
  <1>2. /\ Current(t) \in Components /\ code[Current(t)] # <<>>
        /\ Pc(t) \in DOMAIN Original[Current(t)]
    BY <1>1, TopIsCode DEF Current, Pc, Top, CodeFrames, InHeap
  <1> DEFINE c == Current(t)
             pc == Pc(t)
  <1>3. /\ code[c][pc] = "BREAKPOINT" <=> Find(table, c, pc) # 0
        /\ Find(table, c, pc) # 0 => table[Find(table, c, pc)].orig = Original[c][pc]
        /\ Find(table, c, pc) = 0 => code[c][pc] = Original[c][pc]
    <2> HIDE DEF c, pc
    <2> QED BY <1>2, ByteThere DEF BrkInv, ProgramOK, c, pc
  <1> QED BY <1>2, <1>3 DEF Byte, IsBreakpoint, OrigByte

(* A thread stops.  A command that reads the table drops broken entries.   *)
LEMMA TableSearched ==
  ASSUME ProgramOK, Keeps(table', table), code' = code, bound' = bound, nextId' = nextId,
         fault' = fault
  PROVE  ProgramOK'
  <1>1. TableOK(table', code, nextId) /\ CodeOK(table', code)
    BY KeepsOK DEF ProgramOK
  <1> QED BY <1>1 DEF ProgramOK, Live

LEMMA HandleInvariance ==
  ASSUME BrkInv, NEW t \in Threads, stack[t] # <<>>, Byte(t) = "BREAKPOINT", Handle(t)
  PROVE  BrkInv'
  <1>1. IsBreakpoint(Current(t), Pc(t))
    BY AtInstruction
  <1>2. ThreadsOK /\ ProgramOK /\ ThreadOK(stack[t], saved[t], advance[t], reported[t], code)
    BY DEF BrkInv, ThreadsOK
  <1>3. /\ advance' = [advance EXCEPT ![t] = "skip"] /\ reported' = [reported EXCEPT ![t] = TRUE]
        /\ stack' = stack /\ saved' = saved /\ code' = code /\ bound' = bound
        /\ nextId' = nextId /\ fault' = fault
    BY <1>1 DEF Handle, programVars
  <1>4. ThreadOK(stack[t], saved[t], "skip", TRUE, code)
    BY <1>2 DEF ThreadOK, Advances
  <1>5. stack' = [stack EXCEPT ![t] = stack[t]] /\ saved' = [saved EXCEPT ![t] = saved[t]]
    BY <1>2, <1>3 DEF ThreadsOK
  <1>6. ThreadsOK'
    BY <1>2, <1>3, <1>4, <1>5, OneThread
  <1>7. Keeps(table', table)
    BY <1>2, SearchedKeeps DEF Handle, ProgramOK, TableOK
  <1> QED BY <1>2, <1>3, <1>6, <1>7, TableSearched DEF BrkInv

(* A thread goes on, from a breakpoint or not. *)
LEMMA RunInvariance ==
  ASSUME BrkInv, NEW t \in Threads, Run(t)
  PROVE  BrkInv' /\ (P!Runs(t) \/ stack' = stack)
  <1>1. stack[t] # <<>>
    BY DEF Run, InterpretNextByte, SkipByteBreakpoint, Ready
  <1>2. Keeps(table, table) /\ Keeps(Searched(table, Current(t), Pc(t)), table)
    BY SearchedKeeps DEF BrkInv, ProgramOK, TableOK, Keeps
  <1>3. CASE InterpretNextByte(t) /\ Byte(t) = "BREAKPOINT"
    BY <1>1, <1>3, HandleInvariance DEF InterpretNextByte, Handle
  <1>4. CASE InterpretNextByte(t) /\ Byte(t) # "BREAKPOINT"
    <2>1. Byte(t) = Original[Current(t)][Pc(t)]
      BY <1>1, <1>4, AtInstruction
    <2>2. Execute(t, Byte(t), table)
      BY <1>4 DEF InterpretNextByte
    <2> QED BY <1>1, <1>2, <2>1, <2>2, ExecuteInvariance
  <1>5. CASE SkipByteBreakpoint(t)
    <2> DEFINE op == IF IsBreakpoint(Current(t), Pc(t)) THEN OrigByte(Current(t), Pc(t))
                     ELSE Byte(t)
    <2>1. op = Original[Current(t)][Pc(t)]
      BY <1>1, AtInstruction
    <2>2. Execute(t, op, Searched(table, Current(t), Pc(t)))
      BY <1>5 DEF SkipByteBreakpoint
    <2> HIDE DEF op
    <2> QED BY <1>1, <1>2, <2>1, <2>2, ExecuteInvariance
  <1> QED BY <1>3, <1>4, <1>5 DEF Run

(* The other actions of the program and the user's commands on threads. *)
LEMMA FirstFrame ==
  ASSUME NEW bytes, NEW c \in Components, bytes[c] # <<>>
  PROVE  StackOK(<<P!Frame(c, 1)>>, bytes) /\ Escapes(<<P!Frame(c, 1)>>) = {}
  <1> DEFINE x == P!Frame(c, 1)
             s == <<x>>
  <1>1. x \in CodeFrames /\ x.comp = c /\ x.pc = 1
    BY KindOfFrame
  <1>2. x \in Frames
    BY <1>1 DEF Frames
  <1> HIDE DEF x
  <1>3. IsCode(x) /\ InHeap(x, bytes)
    BY <1>1, <1>2, KindOfFrame, OriginalCode DEF InHeap
  <1>4. s \in Seq(Frames) /\ Len(s) = 1 /\ s[1] = x
    BY <1>2
  <1> HIDE DEF s
  <1>5. \A i \in 1..Len(s) : i = 1 /\ i + 1 \notin 1..Len(s)
    BY <1>4
  <1>6. StackOK(s, bytes) /\ Escapes(s) = {}
    BY <1>3, <1>4, <1>5 DEF StackOK, Escapes
  <1> QED BY <1>6 DEF s, x

LEMMA StartInvariance ==
  ASSUME BrkInv, NEW t \in Threads, Start(t)
  PROVE  BrkInv' /\ P!Starts(t)
  <1>1. PICK c \in bound : stack' = [stack EXCEPT ![t] = <<P!Frame(c, 1)>>]
    BY DEF Start
  <1>2. /\ ThreadsOK /\ ProgramOK /\ c \in Components /\ code[c] # <<>>
        /\ ThreadOK(stack[t], saved[t], advance[t], reported[t], code)
        /\ stack[t] = <<>> /\ saved' = saved /\ reported' = reported
        /\ advance' = [advance EXCEPT ![t] = "interpret"] /\ code' = code
        /\ Keeps(table', table) /\ bound' = bound /\ nextId' = nextId /\ fault' = fault
    BY DEF BrkInv, ThreadsOK, ProgramOK, Live, Start, Keeps, TableOK, programVars
  <1> DEFINE s == <<P!Frame(c, 1)>>
  <1>3. StackOK(s, code) /\ Escapes(s) = {}
    BY <1>2, FirstFrame
  <1>4. Escapes(stack[t]) = {} /\ s # <<>>
    BY <1>2 DEF Escapes
  <1> HIDE DEF s
  <1>5. ThreadOK(s, saved[t], "interpret", reported[t], code)
    BY <1>2, <1>3, <1>4 DEF ThreadOK, Advances
  <1>6. /\ stack' = [stack EXCEPT ![t] = s] /\ saved' = [saved EXCEPT ![t] = saved[t]]
        /\ reported' = [reported EXCEPT ![t] = reported[t]]
    BY <1>1, <1>2 DEF ThreadsOK, s
  <1>7. ThreadsOK'
    BY <1>2, <1>5, <1>6, OneThread
  <1>8. ProgramOK'
    BY <1>2, TableSearched
  <1>9. P!Starts(t)
    BY <1>1, <1>2 DEF P!Starts
  <1> QED BY <1>7, <1>8, <1>9 DEF BrkInv

LEMMA CallInvariance ==
  ASSUME BrkInv, NEW t \in Threads, NEW c \in Components, Call(t, c)
  PROVE  BrkInv' /\ P!UserCalls(t)
  <1> DEFINE x == stack[t]
             s == x \o <<P!Escape, P!Frame(c, 1)>>
             h == [advance |-> advance[t], reported |-> reported[t]]
             v == <<h>> \o saved[t]
  <1>1. /\ ThreadsOK /\ ProgramOK /\ code[c] # <<>>
        /\ ThreadOK(x, saved[t], advance[t], reported[t], code)
        /\ advance' = [advance EXCEPT ![t] = "interpret"]
        /\ reported' = [reported EXCEPT ![t] = FALSE] /\ code' = code
        /\ Keeps(table', table) /\ bound' = bound /\ nextId' = nextId /\ fault' = fault
    BY DEF BrkInv, ThreadsOK, ProgramOK, Live, Call, Keeps, TableOK, programVars
  <1>2. stack' = [stack EXCEPT ![t] = s] /\ saved' = [saved EXCEPT ![t] = v]
    BY DEF Call
  <1>3. P!UserCalls(t)
    BY <1>2 DEF P!UserCalls
  <1>4. /\ StackOK(x, code) /\ saved[t] \in Seq(Saved) /\ Len(saved[t]) = Cardinality(Escapes(x))
        /\ advance[t] \in Advances /\ reported[t] \in BOOLEAN /\ (reported[t] <=> advance[t] = "skip")
        /\ (x = <<>> => ~ reported[t]) /\ x \in Seq(Frames)
        /\ 1 \in Escapes(x) => ~ saved[t][Len(saved[t])].reported
    BY <1>1 DEF ThreadOK, StackOK
  <1>5. h \in Saved /\ h.reported = reported[t]
    BY <1>4 DEF Saved
  <1> HIDE DEF h, x
  <1>6. StackOK(s, code) /\ Escapes(s) = Escapes(x) \cup {Len(x) + 1} /\ s # <<>>
    <2>1. StackOK(s, code) /\ Escapes(s) = Escapes(x) \cup {Len(x) + 1}
      BY <1>1, <1>4, UserCalledOK
    <2>2. s # <<>>
      <3>1. Len(x) + 1 \in 1..Len(s)
        BY <2>1 DEF Escapes
      <3> HIDE DEF s
      <3> QED BY <1>4, <3>1
    <2> QED BY <2>1, <2>2
  <1> HIDE DEF s
  <1>7. v \in Seq(Saved) /\ Len(v) = Len(saved[t]) + 1 /\ v[1] = h
        /\ \A i \in 1..Len(saved[t]) : v[i + 1] = saved[t][i]
    BY <1>4, <1>5
  <1> HIDE DEF v
  <1>8. Cardinality(Escapes(s)) = Cardinality(Escapes(x)) + 1 /\ Cardinality(Escapes(x)) \in Nat
    BY <1>4, <1>6, CountEscapes
  <1>9. 1 \in Escapes(s) => ~ v[Len(v)].reported
    <2>1. CASE 1 \in Escapes(x)
      <3>1. Len(saved[t]) # 0
        BY <1>4, <2>1, CountEscapes
      <3>2. v[Len(saved[t]) + 1] = saved[t][Len(saved[t])]
        BY <1>4, <1>7, <3>1
      <3> QED BY <1>4, <1>7, <2>1, <3>2
    <2>2. CASE Len(x) + 1 = 1
      <3>1. x = <<>>
        BY <1>4, <2>2
      <3>2. Escapes(x) = {}
        BY <3>1 DEF Escapes
      <3>3. Len(saved[t]) = 0
        BY <1>4, <3>2, FS_EmptySet
      <3> QED BY <1>4, <1>5, <1>7, <3>1, <3>3
    <2> QED BY <1>6, <2>1, <2>2
  <1>10. ThreadOK(s, v, "interpret", FALSE, code)
    BY <1>4, <1>6, <1>7, <1>8, <1>9 DEF ThreadOK, Advances
  <1>11. ThreadsOK'
    BY <1>1, <1>2, <1>10, OneThread
  <1>12. ProgramOK'
    BY <1>1, TableSearched
  <1> QED BY <1>3, <1>11, <1>12 DEF BrkInv

-----------------------------------------------------------------------------
(* The heap changes: of the components that a thread is in none goes.      *)
LEMMA HeapChanges ==
  ASSUME ThreadsOK, UNCHANGED threadVars,
         \A t \in Threads : StackOK(stack[t], code')
  PROVE  ThreadsOK'
  BY DEF ThreadsOK, ThreadOK, threadVars

(* The bytes at one place, or in one component, change. *)
LEMMA CodeGrows ==
  ASSUME ThreadsOK, UNCHANGED threadVars,
         \A c \in Components : code[c] # <<>> => code'[c] # <<>>
  PROVE  ThreadsOK'
  <1>1. ASSUME NEW t \in Threads PROVE StackOK(stack[t], code')
    <2>1. StackOK(stack[t], code)
      BY DEF ThreadsOK, ThreadOK
    <2>2. ASSUME NEW i \in 1..Len(stack[t]), IsCode(stack[t][i])
          PROVE  code'[stack[t][i].comp] # <<>>
      <3> DEFINE f == stack[t][i]
      <3>1. f \in CodeFrames /\ InHeap(f, code)
        BY <2>1, <2>2, KindOfFrame DEF StackOK
      <3> HIDE DEF f
      <3>2. f.comp \in Components /\ code[f.comp] # <<>>
        BY <3>1 DEF CodeFrames, InHeap
      <3> QED BY <3>2 DEF f
    <2> QED BY <2>1, <2>2, HeapOK
  <1> QED BY <1>1, HeapChanges

LEMMA LoadInvariance ==
  ASSUME BrkInv, NEW c \in Components, Load(c)
  PROVE  BrkInv'
  <1>1. /\ ThreadsOK /\ TableOK(table, code, nextId) /\ CodeOK(table, code)
        /\ bound \subseteq Live /\ nextId \in Nat /\ fault = FALSE /\ code[c] = <<>>
        /\ code' = [code EXCEPT ![c] = Original[c]] /\ bound' = bound \cup {c}
        /\ UNCHANGED threadVars /\ table' = table /\ nextId' = nextId /\ fault' = fault
    BY DEF BrkInv, ProgramOK, Load, Live
  <1>2. /\ Original[c] \in Seq(Bytes) /\ Original[c] # <<>>
        /\ code \in [Components -> Seq(Bytes)]
    <2>1. Original[c] \in Seq(Instructions) /\ Original[c] # <<>>
      BY BreakpointsAssumption
    <2>2. Instructions \subseteq Bytes
      BY DEF Bytes
    <2> DEFINE q == Original[c]
    <2> HIDE DEF q
    <2>3. q \in Seq(Instructions) => q \in Seq(Bytes)
      BY <2>2
    <2> QED BY <1>1, <2>1, <2>3 DEF CodeOK, q
  <1>3. /\ code' \in [Components -> Seq(Bytes)] /\ code'[c] = Original[c]
        /\ \A d \in Components : d # c => code'[d] = code[d]
    BY <1>1, <1>2
  <1>4. ThreadsOK'
    BY <1>1, <1>3, CodeGrows
  <1>5. ASSUME NEW e \in Range(table), ~ Broken(e) PROVE e.comp \in Components /\ e.comp # c
    <2>1. e \in Entries /\ code[e.comp] # <<>>
      BY <1>1, <1>5, InQueue DEF TableOK
    <2> QED BY <1>1, <1>5, <2>1 DEF Entries, Broken
  <1>6. TableOK(table, code', nextId)
    BY <1>1, <1>3, <1>5 DEF TableOK
  <1>7. CodeOK(table, code')
    <2>1. ASSUME NEW d \in Components, code'[d] # <<>>
          PROVE  /\ Len(code'[d]) = Len(Original[d])
                 /\ \A pc \in DOMAIN Original[d] : code'[d][pc] =
                      IF Marked(table, d, pc) THEN "BREAKPOINT" ELSE Original[d][pc]
      <3>1. CASE d = c
        <4>1. \A pc : ~ Marked(table, c, pc)
          BY <1>5, NotBroken DEF Marked
        <4> QED BY <1>3, <3>1, <4>1
      <3>2. CASE d # c
        <4>1. code'[d] = code[d]
          BY <1>3, <3>2
        <4> QED BY <1>1, <2>1, <4>1 DEF CodeOK
      <3> QED BY <3>1, <3>2
    <2> QED BY <1>3, <2>1 DEF CodeOK
  <1>8. bound' \subseteq Live'
    BY <1>1, <1>2, <1>3 DEF Live
  <1> QED BY <1>1, <1>4, <1>6, <1>7, <1>8 DEF BrkInv, ProgramOK

(* What a thread is in, and what a method has, the collector finds. *)
LEMMA CollectInvariance ==
  ASSUME BrkInv, Collect
  PROVE  BrkInv'
  <1> DEFINE kept == Unbroken(table)
             Marks(e) == IF e.comp \in Reachable THEN e ELSE [e EXCEPT !.comp = NoComponent]
             left == [i \in DOMAIN kept |-> Marks(kept[i])]
  <1>1. /\ ThreadsOK /\ TableOK(table, code, nextId) /\ CodeOK(table, code)
        /\ bound \subseteq Live /\ nextId \in Nat /\ fault = FALSE
        /\ code' = [c \in Components |-> IF c \in Reachable THEN code[c] ELSE <<>>]
        /\ UNCHANGED threadVars /\ bound' = bound /\ table' = left
        /\ nextId' = nextId /\ fault' = fault
    BY DEF BrkInv, ProgramOK, Collect
  <1>2. /\ TableOK(kept, code, nextId) /\ CodeOK(kept, code)
        /\ \A e \in Range(kept) : ~ Broken(e)
    BY <1>1, UnbrokenKeeps, KeepsOK DEF TableOK
  <1> HIDE DEF kept, left
  <1>3. ASSUME NEW t \in Threads PROVE StackOK(stack[t], code')
    <2>1. StackOK(stack[t], code)
      BY <1>1 DEF ThreadsOK, ThreadOK
    <2>2. ASSUME NEW i \in 1..Len(stack[t]), IsCode(stack[t][i])
          PROVE  code'[stack[t][i].comp] # <<>>
      <3> DEFINE f == stack[t][i]
      <3>1. f \in CodeFrames /\ InHeap(f, code)
        BY <2>1, <2>2, KindOfFrame DEF StackOK
      <3>2. f \in Range(stack[t])
        BY <2>1, InQueue DEF StackOK
      <3>3. IsCode(f)
        BY <2>2
      <3> HIDE DEF f
      <3>4. f.comp \in Components /\ code[f.comp] # <<>> /\ f.comp \in Reachable
        BY <3>1, <3>2, <3>3 DEF CodeFrames, InHeap, Reachable, IsCode
      <3> QED BY <1>1, <3>4 DEF f
    <2> QED BY <2>1, <2>2, HeapOK
  <1>4. ThreadsOK'
    BY <1>1, <1>3, HeapChanges
  <1>5. ASSUME NEW e \in Range(kept)
        PROVE  /\ e \in Entries /\ Marks(e) \in Entries /\ Marks(e).id = e.id
               /\ ~ Broken(Marks(e)) => Marks(e) = e /\ e.comp \in Reachable
               /\ e.comp \in Reachable => Marks(e) = e
    <2>1. e \in Entries
      BY <1>2, InQueue DEF TableOK
    <2> QED BY <2>1 DEF Entries, Broken
  <1>6. kept \in Seq(Entries) /\ IsQueue(kept) /\ Len(kept) \in Nat /\ DOMAIN kept = 1..Len(kept)
        /\ \A i \in 1..Len(kept) : kept[i] \in Range(kept)
    BY <1>2, InQueue DEF TableOK
  <1> HIDE DEF Marks
  <1>7. /\ left \in Seq(Entries) /\ Len(left) = Len(kept) /\ DOMAIN left = 1..Len(kept)
        /\ \A i \in 1..Len(kept) : left[i] = Marks(kept[i])
    BY <1>5, <1>6 DEF left
  <1>8. \A x \in Range(left) : \E e \in Range(kept) : x = Marks(e)
    BY <1>6, <1>7 DEF Range
  <1>9. \A e \in Range(kept) : Marks(e) \in Range(left)
    BY <1>6, <1>7 DEF Range
  <1>10. \A e, f \in Range(kept) : e.id = f.id => e = f
    BY <1>2 DEF TableOK
  <1>11. IsQueue(left)
    <2>1. ASSUME NEW i \in 1..Len(kept), NEW j \in 1..Len(kept), left[i] = left[j]
          PROVE  i = j
      <3>1. kept[i].id = kept[j].id
        BY <1>5, <1>6, <1>7, <2>1
      <3>2. kept[i] = kept[j]
        BY <1>6, <1>10, <3>1
      <3> QED BY <1>6, <3>2 DEF IsQueue, IsInjective
    <2> QED BY <1>7, <2>1 DEF IsQueue, IsInjective
  <1>12. TableOK(left, code', nextId)
    <2>1. ASSUME NEW x \in Range(left)
          PROVE  /\ x.id < nextId
                 /\ ~ Broken(x) =>
                      /\ code'[x.comp] # <<>>
                      /\ x.pc \in DOMAIN Original[x.comp] /\ x.orig = Original[x.comp][x.pc]
      <3>1. PICK e \in Range(kept) : x = Marks(e)
        BY <1>8
      <3>2. x.id < nextId
        BY <1>2, <1>5, <3>1 DEF TableOK
      <3>3. ASSUME ~ Broken(x) PROVE x = e /\ e.comp \in Reachable /\ e.comp \in Components
        <4>1. x = e /\ e.comp \in Reachable /\ e \in Entries
          BY <1>5, <3>1, <3>3
        <4> QED BY <1>2, <4>1 DEF Entries, Broken
      <3> QED BY <1>1, <1>2, <3>2, <3>3 DEF TableOK
    <2>2. ASSUME NEW x \in Range(left), NEW y \in Range(left),
                 x.id = y.id \/ (~ Broken(x) /\ x.comp = y.comp /\ x.pc = y.pc)
          PROVE  x = y
      <3>1. PICK e \in Range(kept) : x = Marks(e)
        BY <1>8
      <3>2. PICK f \in Range(kept) : y = Marks(f)
        BY <1>8
      <3>3. CASE x.id = y.id
        BY <1>5, <1>10, <3>1, <3>2, <3>3
      <3>4. CASE ~ Broken(x) /\ x.comp = y.comp /\ x.pc = y.pc
        <4>1. ~ Broken(y)
          BY <3>4 DEF Broken
        <4>2. x = e /\ y = f
          BY <1>5, <3>1, <3>2, <3>4, <4>1
        <4> QED BY <1>2, <3>4, <4>2 DEF TableOK
      <3> QED BY <2>2, <3>3, <3>4
    <2> QED BY <1>7, <1>11, <2>1, <2>2 DEF TableOK
  <1>13. CodeOK(left, code')
    <2>1. code' \in [Components -> Seq(Bytes)]
      BY <1>1 DEF CodeOK
    <2>2. ASSUME NEW c \in Components, code'[c] # <<>>
          PROVE  /\ Len(code'[c]) = Len(Original[c])
                 /\ \A pc \in DOMAIN Original[c] : code'[c][pc] =
                      IF Marked(left, c, pc) THEN "BREAKPOINT" ELSE Original[c][pc]
      <3>1. c \in Reachable /\ code'[c] = code[c]
        BY <1>1, <2>2
      <3>2. ASSUME NEW pc PROVE Marked(left, c, pc) <=> Marked(kept, c, pc)
        <4>1. ASSUME Marked(left, c, pc) PROVE Marked(kept, c, pc)
          <5>1. PICK x \in Range(left) : x.comp = c /\ x.pc = pc
            BY <4>1 DEF Marked
          <5>2. ~ Broken(x)
            BY <5>1, NotBroken
          <5> QED BY <1>5, <1>8, <5>1, <5>2 DEF Marked
        <4>2. ASSUME Marked(kept, c, pc) PROVE Marked(left, c, pc)
          <5>1. PICK e \in Range(kept) : e.comp = c /\ e.pc = pc
            BY <4>2 DEF Marked
          <5> QED BY <1>5, <1>9, <3>1, <5>1 DEF Marked
        <4> QED BY <4>1, <4>2
      <3> QED BY <1>2, <2>2, <3>1, <3>2 DEF CodeOK
    <2> QED BY <2>1, <2>2 DEF CodeOK
  <1>14. bound' \subseteq Live'
    BY <1>1 DEF Live, Reachable
  <1> QED BY <1>1, <1>4, <1>12, <1>13, <1>14 DEF BrkInv, ProgramOK

(* A new entry goes to the head of the table. *)
LEMMA PushEntry ==
  ASSUME NEW q \in Seq(Entries), IsQueue(q), NEW x \in Entries, x \notin Range(q)
  PROVE  /\ <<x>> \o q \in Seq(Entries) /\ IsQueue(<<x>> \o q)
         /\ Range(<<x>> \o q) = Range(q) \cup {x}
  <1> DEFINE h == <<x>>
  <1>1. h \in Seq(Entries) /\ Len(h) = 1 /\ h[1] = x /\ DOMAIN h = {1}
    OBVIOUS
  <1> HIDE DEF h
  <1>2. IsQueue(h) /\ Range(h) = {x}
    BY <1>1 DEF IsQueue, IsInjective, Range
  <1>3. h \o q \in Seq(Entries) /\ IsQueue(h \o q) /\ Range(h \o q) = Range(h) \cup Range(q)
    BY <1>1, <1>2, JoinQueues
  <1> QED BY <1>2, <1>3 DEF h

LEMMA InstallInvariance ==
  ASSUME BrkInv, NEW c \in Components, NEW pc \in DOMAIN Original[c], Install(c, pc)
  PROVE  BrkInv'
  <1> DEFINE q == Searched(table, c, pc)
             x == [id |-> nextId, comp |-> c, pc |-> pc, orig |-> code[c][pc]]
  <1>1. /\ ThreadsOK /\ ProgramOK /\ TableOK(table, code, nextId) /\ CodeOK(table, code)
        /\ bound \subseteq Live /\ nextId \in Nat /\ fault = FALSE
        /\ UNCHANGED threadVars /\ bound' = bound /\ fault' = fault /\ c \in Reachable
    BY DEF BrkInv, ProgramOK, Install
  <1>2. Keeps(q, table)
    BY <1>1, SearchedKeeps DEF TableOK
  <1>3. TableOK(q, code, nextId) /\ CodeOK(q, code)
    BY <1>1, <1>2, KeepsOK
  <1>4. code[c] # <<>>
    <2>1. CASE c \in bound
      BY <1>1, <2>1 DEF Live
    <2>2. CASE c \notin bound
      <3>1. PICK t \in Threads : \E f \in Range(stack[t]) : f.kind = "code" /\ f.comp = c
        BY <1>1, <2>2 DEF Reachable
      <3>2. StackOK(stack[t], code)
        BY <1>1 DEF ThreadsOK, ThreadOK
      <3>3. PICK f \in Range(stack[t]) : IsCode(f) /\ f.comp = c
        BY <3>1 DEF IsCode
      <3>4. PICK i \in 1..Len(stack[t]) : stack[t][i] = f
        BY <3>2, InQueue DEF StackOK
      <3> QED BY <3>2, <3>3, <3>4 DEF StackOK, InHeap
    <2> QED BY <2>1, <2>2
  <1>5. CASE IsBreakpoint(c, pc)
    <2>1. table' = q /\ code' = code /\ nextId' = nextId
      BY <1>5 DEF Install
    <2>2. ThreadsOK'
      BY <1>1, <2>1, CodeGrows
    <2>3. ProgramOK'
      BY <1>1, <1>2, <2>1, TableSearched
    <2> QED BY <2>2, <2>3 DEF BrkInv
  <1>6. CASE ~ IsBreakpoint(c, pc)
    <2>1. /\ table' = <<x>> \o q /\ code' = [code EXCEPT ![c][pc] = "BREAKPOINT"]
          /\ nextId' = nextId + 1
      BY <1>6 DEF Install
    <2>2. ~ Marked(table, c, pc) /\ code[c][pc] = Original[c][pc]
      <3>1. Find(table, c, pc) = 0
        BY <1>6 DEF IsBreakpoint
      <3>2. ~ Marked(table, c, pc)
        <4>1. table \in Seq(Entries)
          BY <1>1 DEF TableOK
        <4> QED BY <3>1, <4>1, FindFinds
      <3>3. code[c][pc] = Original[c][pc]
        BY <1>1, <1>4, <3>1, ByteThere
      <3> QED BY <3>2, <3>3
    <2>3. x \in Entries /\ x.id = nextId /\ x.comp = c /\ x.pc = pc /\ x.orig = Original[c][pc]
      BY <1>1, <2>2, OriginalCode DEF Entries
    <2> HIDE DEF x, q
    <2>4. \A e \in Range(q) : e \in Entries /\ e.id # nextId /\ ~ (e.comp = c /\ e.pc = pc)
      <3>1. ASSUME NEW e \in Range(q)
            PROVE  e \in Entries /\ e.id # nextId /\ ~ (e.comp = c /\ e.pc = pc)
        <4>1. e \in Entries /\ e.id < nextId /\ e \in Range(table)
          BY <1>2, <1>3, <3>1, InQueue DEF TableOK, Keeps
        <4>2. e.id # nextId
          BY <1>1, <4>1 DEF Entries
        <4> QED BY <2>2, <4>1, <4>2 DEF Marked
      <3> QED BY <3>1
    <2>5. x \notin Range(q)
      BY <2>3, <2>4
    <2>6. /\ table' \in Seq(Entries) /\ IsQueue(table') /\ Range(table') = Range(q) \cup {x}
      <3>1. q \in Seq(Entries) /\ IsQueue(q)
        BY <1>2 DEF Keeps
      <3> QED BY <2>1, <2>3, <2>5, <3>1, PushEntry
    <2>7. /\ code \in [Components -> Seq(Bytes)] /\ Len(code[c]) = Len(Original[c])
          /\ pc \in 1..Len(code[c]) /\ "BREAKPOINT" \in Bytes
      BY <1>1, <1>4, OriginalCode DEF CodeOK, Bytes
    <2> DEFINE b == [code[c] EXCEPT ![pc] = "BREAKPOINT"]
    <2>8. /\ b \in Seq(Bytes) /\ Len(b) = Len(code[c]) /\ b # <<>> /\ b[pc] = "BREAKPOINT"
          /\ \A i \in 1..Len(code[c]) : i # pc => b[i] = code[c][i]
      <3> DEFINE z == code[c]
      <3>1. z \in Seq(Bytes) /\ pc \in 1..Len(z) /\ "BREAKPOINT" \in Bytes
        BY <2>7
      <3> HIDE DEF z
      <3>2. /\ [z EXCEPT ![pc] = "BREAKPOINT"] \in Seq(Bytes)
            /\ Len([z EXCEPT ![pc] = "BREAKPOINT"]) = Len(z)
            /\ [z EXCEPT ![pc] = "BREAKPOINT"][pc] = "BREAKPOINT"
            /\ \A i \in 1..Len(z) : i # pc => [z EXCEPT ![pc] = "BREAKPOINT"][i] = z[i]
        BY <3>1
      <3>3. [z EXCEPT ![pc] = "BREAKPOINT"] # <<>>
        BY <3>1, <3>2
      <3> QED BY <3>2, <3>3 DEF z
    <2>9. code' = [code EXCEPT ![c] = b]
      BY <2>1
    <2> HIDE DEF b
    <2>10. /\ code' \in [Components -> Seq(Bytes)] /\ code'[c] = b
           /\ \A d \in Components : d # c => code'[d] = code[d]
      BY <2>7, <2>8, <2>9
    <2>11. ThreadsOK'
      BY <1>1, <2>8, <2>10, CodeGrows
    <2>12. TableOK(table', code', nextId')
      <3>1. ASSUME NEW e \in Range(table')
            PROVE  /\ e.id < nextId'
                   /\ ~ Broken(e) =>
                        /\ code'[e.comp] # <<>>
                        /\ e.pc \in DOMAIN Original[e.comp] /\ e.orig = Original[e.comp][e.pc]
        <4>1. CASE e = x
          BY <1>1, <2>1, <2>3, <2>8, <2>10, <4>1
        <4>2. CASE e \in Range(q)
          <5>1. e.id < nextId /\ e.id \in Nat /\ e \in Entries
            BY <1>3, <2>4, <4>2 DEF TableOK, Entries
          <5>2. e.id < nextId'
            BY <1>1, <2>1, <5>1
          <5>3. ASSUME ~ Broken(e) PROVE code'[e.comp] # <<>>
            <6>1. e.comp \in Components /\ code[e.comp] # <<>>
              BY <1>3, <4>2, <5>1, <5>3 DEF TableOK, Entries, Broken
            <6> QED BY <2>8, <2>10, <6>1
          <5> QED BY <1>3, <4>2, <5>2, <5>3 DEF TableOK
        <4> QED BY <2>6, <4>1, <4>2
      <3>2. ASSUME NEW e \in Range(table'), NEW f \in Range(table'),
                   e.id = f.id \/ (~ Broken(e) /\ e.comp = f.comp /\ e.pc = f.pc)
            PROVE  e = f
        <4>1. CASE e \in Range(q) /\ f \in Range(q)
          BY <1>3, <3>2, <4>1 DEF TableOK
        <4>2. CASE e = x \/ f = x
          BY <2>3, <2>4, <2>6, <3>2, <4>2
        <4> QED BY <2>6, <4>1, <4>2
      <3> QED BY <2>6, <3>1, <3>2 DEF TableOK
    <2>13. CodeOK(table', code')
      <3>1. ASSUME NEW d \in Components, code'[d] # <<>>
            PROVE  /\ Len(code'[d]) = Len(Original[d])
                   /\ \A i \in DOMAIN Original[d] : code'[d][i] =
                        IF Marked(table', d, i) THEN "BREAKPOINT" ELSE Original[d][i]
        <4>1. ASSUME NEW i
              PROVE  Marked(table', d, i) <=> Marked(q, d, i) \/ (d = c /\ i = pc)
          BY <2>3, <2>6 DEF Marked
        <4>2. CASE d = c
          <5>1. /\ Len(code[c]) = Len(Original[c])
                /\ \A i \in DOMAIN Original[c] : code[c][i] =
                     IF Marked(q, c, i) THEN "BREAKPOINT" ELSE Original[c][i]
            BY <1>3, <1>4 DEF CodeOK
          <5>2. DOMAIN Original[c] = 1..Len(code[c])
            BY <5>1, OriginalCode
          <5> QED BY <2>8, <2>10, <4>1, <4>2, <5>1, <5>2
        <4>3. CASE d # c
          BY <1>3, <2>10, <3>1, <4>1, <4>3 DEF CodeOK
        <4> QED BY <4>2, <4>3
      <3> QED BY <2>10, <3>1 DEF CodeOK
    <2>14. bound' \subseteq Live' /\ nextId' \in Nat /\ fault' = FALSE
      BY <1>1, <2>1, <2>8, <2>10 DEF Live
    <2> QED BY <2>11, <2>12, <2>13, <2>14 DEF BrkInv, ProgramOK
  <1> QED BY <1>5, <1>6

LEMMA DeleteInvariance ==
  ASSUME BrkInv, NEW id, Delete(id)
  PROVE  BrkInv'
  <1> DEFINE K == {e \in Range(table) : ~ Broken(e) /\ e.id # id}
             Hit(c, pc) == \E e \in Range(table) : e.id = id /\ e.comp = c /\ e.pc = pc
             E == CHOOSE e \in Range(table) : e.id = id
  <1>1. /\ ThreadsOK /\ TableOK(table, code, nextId) /\ CodeOK(table, code)
        /\ bound \subseteq Live /\ nextId \in Nat /\ fault = FALSE
        /\ UNCHANGED threadVars /\ bound' = bound /\ nextId' = nextId /\ fault' = fault
        /\ table' = SubQueue(table, K)
        /\ code' = [c \in Components |-> [pc \in DOMAIN code[c] |->
                      IF Hit(c, pc) THEN E.orig ELSE code[c][pc]]]
    BY DEF BrkInv, ProgramOK, Delete
  <1>2. table' \in Seq(Entries) /\ IsQueue(table') /\ Range(table') = K
    BY <1>1, SubQueueIsQueue DEF TableOK
  <1>3. ASSUME NEW c \in Components, NEW pc, Hit(c, pc)
        PROVE  E.orig = Original[c][pc] /\ pc \in DOMAIN Original[c] /\ E.orig \in Instructions
    <2>1. PICK e \in Range(table) : e.id = id /\ e.comp = c /\ e.pc = pc
      BY <1>3
    <2>2. E \in Range(table) /\ E.id = id
      BY <2>1
    <2> HIDE DEF E
    <2>3. E = e
      BY <1>1, <2>1, <2>2 DEF TableOK
    <2>4. ~ Broken(e)
      BY <2>1, NotBroken
    <2> QED BY <1>1, <2>1, <2>3, <2>4, OriginalCode DEF TableOK
  <1> HIDE DEF E
  <1>4. ASSUME NEW c \in Components
        PROVE  /\ code'[c] \in Seq(Bytes) /\ Len(code'[c]) = Len(code[c])
               /\ code'[c] = <<>> <=> code[c] = <<>>
               /\ \A pc \in 1..Len(code[c]) :
                    code'[c][pc] = IF Hit(c, pc) THEN E.orig ELSE code[c][pc]
    <2> DEFINE z == code[c]
               y == [pc \in 1..Len(z) |-> IF Hit(c, pc) THEN E.orig ELSE z[pc]]
    <2>1. z \in Seq(Bytes)
      BY <1>1 DEF CodeOK
    <2>2. code'[c] = y
      BY <1>1, <2>1
    <2> HIDE DEF z, Hit
    <2>3. \A pc \in 1..Len(z) : (IF Hit(c, pc) THEN E.orig ELSE z[pc]) \in Bytes
      BY <1>3, <2>1 DEF Bytes
    <2>4. y \in Seq(Bytes) /\ Len(y) = Len(z)
          /\ \A pc \in 1..Len(z) : y[pc] = IF Hit(c, pc) THEN E.orig ELSE z[pc]
      BY <2>1, <2>3
    <2> HIDE DEF y
    <2>5. y = <<>> <=> z = <<>>
      BY <2>1, <2>4
    <2> QED BY <2>2, <2>4, <2>5 DEF z
  <1>5. code' \in [Components -> Seq(Bytes)]
    <2>1. code' = [c \in Components |-> code'[c]]
      BY <1>1
    <2> QED BY <1>4, <2>1
  <1>6. ThreadsOK'
    BY <1>1, <1>4, CodeGrows
  <1>7. TableOK(table', code', nextId)
    <2>1. Range(table') \subseteq Range(table) /\ \A e \in Range(table') : ~ Broken(e)
      BY <1>2
    <2>2. ASSUME NEW e \in Range(table')
          PROVE  code'[e.comp] # <<>>
      <3>1. e \in Entries /\ ~ Broken(e) /\ code[e.comp] # <<>>
        BY <1>1, <2>1, InQueue DEF TableOK
      <3> QED BY <1>4, <3>1 DEF Entries, Broken
    <2> QED BY <1>1, <1>2, <2>1, <2>2 DEF TableOK
  <1>8. CodeOK(table', code')
    <2>1. ASSUME NEW c \in Components, code'[c] # <<>>
          PROVE  /\ Len(code'[c]) = Len(Original[c])
                 /\ \A pc \in DOMAIN Original[c] : code'[c][pc] =
                      IF Marked(table', c, pc) THEN "BREAKPOINT" ELSE Original[c][pc]
      <3>1. /\ Len(code[c]) = Len(Original[c])
            /\ \A pc \in DOMAIN Original[c] : code[c][pc] =
                 IF Marked(table, c, pc) THEN "BREAKPOINT" ELSE Original[c][pc]
        BY <1>1, <1>4, <2>1 DEF CodeOK
      <3>2. ASSUME NEW pc
            PROVE  /\ Hit(c, pc) => ~ Marked(table', c, pc)
                   /\ ~ Hit(c, pc) => (Marked(table', c, pc) <=> Marked(table, c, pc))
        <4>1. ASSUME NEW e \in Range(table), e.comp = c, e.pc = pc
              PROVE  ~ Broken(e) /\ (Hit(c, pc) <=> e.id = id)
          <5>1. ~ Broken(e)
            BY <4>1, NotBroken
          <5>2. \A f \in Range(table) : f.comp = c /\ f.pc = pc => f = e
            BY <1>1, <4>1, <5>1 DEF TableOK
          <5> QED BY <4>1, <5>1, <5>2
        <4> QED BY <1>2, <4>1 DEF Marked
      <3>3. ASSUME NEW pc \in DOMAIN Original[c]
            PROVE  code'[c][pc] = IF Marked(table', c, pc) THEN "BREAKPOINT" ELSE Original[c][pc]
        <4>1. pc \in 1..Len(code[c])
          BY <3>1, <3>3, OriginalCode
        <4>2. code'[c][pc] = IF Hit(c, pc) THEN E.orig ELSE code[c][pc]
          BY <1>4, <4>1
        <4>3. Hit(c, pc) => E.orig = Original[c][pc]
          BY <1>3
        <4> HIDE DEF Hit
        <4> QED BY <3>1, <3>2, <4>2, <4>3
      <3> QED BY <1>4, <3>1, <3>3
    <2> QED BY <1>5, <2>1 DEF CodeOK
  <1>9. bound' \subseteq Live'
    BY <1>1, <1>4 DEF Live
  <1> QED BY <1>1, <1>6, <1>7, <1>8, <1>9 DEF BrkInv, ProgramOK

-----------------------------------------------------------------------------
LEMMA InitInvariance ==
  ASSUME BreakpointsInit
  PROVE  BrkInv
  <1>1. /\ stack = [t \in Threads |-> <<>>] /\ saved = [t \in Threads |-> <<>>]
        /\ advance = [t \in Threads |-> "interpret"] /\ reported = [t \in Threads |-> FALSE]
        /\ code = Original /\ bound = Components /\ table = <<>> /\ nextId = 1 /\ fault = FALSE
    BY DEF BreakpointsInit
  <1>2. Escapes(<<>>) = {} /\ StackOK(<<>>, code)
    BY DEF Escapes, StackOK
  <1>3. ThreadOK(<<>>, <<>>, "interpret", FALSE, code)
    BY <1>2, FS_EmptySet DEF ThreadOK, Advances
  <1>4. ThreadsOK
    <2>1. /\ stack \in [Threads -> Seq(Frames)] /\ saved \in [Threads -> Seq(Saved)]
          /\ advance \in [Threads -> Advances] /\ reported \in [Threads -> BOOLEAN]
      <3>1. <<>> \in Seq(Frames) /\ <<>> \in Seq(Saved)
        OBVIOUS
      <3> QED BY <1>1, <3>1 DEF Advances
    <2>2. \A t \in Threads : /\ stack[t] = <<>> /\ saved[t] = <<>>
                             /\ advance[t] = "interpret" /\ reported[t] = FALSE
      BY <1>1
    <2> QED BY <1>3, <2>1, <2>2 DEF ThreadsOK
  <1>5. \A c \in Components : code[c] \in Seq(Bytes) /\ code[c] # <<>> /\ code[c] = Original[c]
    <2>1. ASSUME NEW c \in Components PROVE Original[c] \in Seq(Bytes)
      <3> DEFINE q == Original[c]
      <3>1. q \in Seq(Instructions)
        BY BreakpointsAssumption
      <3>2. Instructions \subseteq Bytes
        BY DEF Bytes
      <3> HIDE DEF q
      <3>3. q \in Seq(Bytes)
        BY <3>1, <3>2
      <3> QED BY <3>3 DEF q
    <2> QED BY <1>1, <2>1, BreakpointsAssumption
  <1>6. /\ table \in Seq(Entries) /\ IsQueue(table) /\ Range(table) = {}
    BY <1>1 DEF IsQueue, IsInjective, Range
  <1>7. TableOK(table, code, nextId)
    BY <1>6 DEF TableOK
  <1>8. CodeOK(table, code)
    <2>1. code \in [Components -> Seq(Bytes)]
      BY <1>1, <1>5, BreakpointsAssumption
    <2> QED BY <1>5, <1>6, <2>1 DEF CodeOK, Marked
  <1> QED BY <1>1, <1>4, <1>5, <1>7, <1>8 DEF BrkInv, ProgramOK, Live

LEMMA NextInvariance ==
  ASSUME BrkInv, [BreakpointsNext]_brkptVars
  PROVE  BrkInv' /\ (P!PlainNext \/ stack' = stack)
  <1>1. ASSUME NEW t \in Threads, Run(t) PROVE BrkInv' /\ (P!PlainNext \/ stack' = stack)
    BY <1>1, RunInvariance DEF P!PlainNext
  <1>2. ASSUME NEW t \in Threads, Start(t) PROVE BrkInv' /\ (P!PlainNext \/ stack' = stack)
    BY <1>2, StartInvariance DEF P!PlainNext
  <1>3. ASSUME NEW t \in Threads, NEW c \in Components, Call(t, c)
        PROVE  BrkInv' /\ (P!PlainNext \/ stack' = stack)
    BY <1>3, CallInvariance DEF P!PlainNext
  <1>4. ASSUME NEW c \in Components, Load(c) PROVE BrkInv' /\ stack' = stack
    BY <1>4, LoadInvariance DEF Load, threadVars
  <1>5. ASSUME NEW c \in Components, NEW pc \in DOMAIN Original[c], Install(c, pc)
        PROVE  BrkInv' /\ stack' = stack
    BY <1>5, InstallInvariance DEF Install, threadVars
  <1>6. ASSUME NEW id, Delete(id) PROVE BrkInv' /\ stack' = stack
    BY <1>6, DeleteInvariance DEF Delete, threadVars
  <1>7. ASSUME Collect PROVE BrkInv' /\ stack' = stack
    BY <1>7, CollectInvariance DEF Collect, threadVars
  <1>8. ASSUME UNCHANGED <<code, threadVars, nextId, fault>>, bound' \subseteq bound,
               Keeps(table', table)
        PROVE  BrkInv' /\ stack' = stack
    <2>1. ThreadsOK'
      BY <1>8, CodeGrows DEF BrkInv
    <2>2. TableOK(table', code, nextId) /\ CodeOK(table', code)
      BY <1>8, KeepsOK DEF BrkInv, ProgramOK
    <2> QED BY <1>8, <2>1, <2>2 DEF BrkInv, ProgramOK, Live, threadVars
  <1>9. Keeps(table, table) /\ Keeps(Unbroken(table), table)
    BY UnbrokenKeeps DEF BrkInv, ProgramOK, TableOK, Keeps
  <1>10. ASSUME NEW c \in Components, Unbind(c) PROVE BrkInv' /\ stack' = stack
    BY <1>8, <1>9, <1>10 DEF Unbind
  <1>11. ASSUME Interrupt \/ Continue PROVE BrkInv' /\ stack' = stack
    BY <1>8, <1>9, <1>11 DEF Interrupt, Continue, programVars
  <1>12. ASSUME List PROVE BrkInv' /\ stack' = stack
    BY <1>8, <1>9, <1>12 DEF List, programVars
  <1>13. ASSUME UNCHANGED brkptVars PROVE BrkInv' /\ stack' = stack
    BY <1>8, <1>9, <1>13 DEF brkptVars, threadVars
  <1> QED BY <1>1, <1>2, <1>3, <1>4, <1>5, <1>6, <1>7, <1>10, <1>11, <1>12, <1>13
          DEF BreakpointsNext

(* The invariant holds. *)
THEOREM BreakpointsInvariance == BreakpointsSpec => []BrkInv
  <1>1. BreakpointsInit => BrkInv
    BY InitInvariance
  <1>2. BrkInv /\ [BreakpointsNext]_brkptVars => BrkInv'
    BY NextInvariance
  <1> QED BY <1>1, <1>2, PTL DEF BreakpointsSpec

-----------------------------------------------------------------------------
LEMMA InvImplies ==
  ASSUME BrkInv
  PROVE  CodeFollowsTable /\ StopsOnce
  <1>1. /\ ThreadsOK /\ TableOK(table, code, nextId) /\ CodeOK(table, code) /\ fault = FALSE
    BY DEF BrkInv, ProgramOK
  <1>2. StopsOnce
    BY <1>1 DEF ThreadsOK, ThreadOK, StopsOnce
  <1>3. ASSUME NEW c \in Live, NEW pc \in DOMAIN code[c]
        PROVE  code[c][pc] = IF IsBreakpoint(c, pc) THEN "BREAKPOINT" ELSE Original[c][pc]
    <2>1. c \in Components /\ code[c] # <<>>
      BY DEF Live
    <2>2. pc \in DOMAIN Original[c]
      BY <1>1, <2>1, OriginalCode DEF CodeOK
    <2> QED BY <1>1, <2>1, <2>2, ByteThere DEF IsBreakpoint
  <1>4. ASSUME NEW i \in DOMAIN table, NEW j \in DOMAIN table, ~ Broken(table[i])
        PROVE  /\ table[i].comp \in Live
               /\ table[i].orig = Original[table[i].comp][table[i].pc]
               /\ i # j => table[j].id # table[i].id
                    /\ <<table[j].comp, table[j].pc>> # <<table[i].comp, table[i].pc>>
    <2> DEFINE e == table[i]
               f == table[j]
    <2>1. e \in Range(table) /\ f \in Range(table) /\ e \in Entries
      BY <1>1, InQueue DEF TableOK
    <2>2. i # j => e # f
      BY <1>1 DEF TableOK, IsQueue, IsInjective
    <2>3. ~ Broken(e)
      BY <1>4
    <2> HIDE DEF e, f
    <2>4. e.comp \in Live /\ e.orig = Original[e.comp][e.pc]
      BY <1>1, <2>1, <2>3 DEF TableOK, Live, Entries, Broken
    <2>5. f.id = e.id \/ (f.comp = e.comp /\ f.pc = e.pc) => e = f
      BY <1>1, <2>1, <2>3 DEF TableOK
    <2>6. i # j => f.id # e.id /\ <<f.comp, f.pc>> # <<e.comp, e.pc>>
      BY <2>2, <2>5
    <2> QED BY <2>4, <2>6 DEF e, f
  <1> QED BY <1>1, <1>2, <1>3, <1>4 DEF CodeFollowsTable

(* Whatever is installed, deleted, loaded and collected, the code is the   *)
(* original one with op_BREAKPOINT at the places in the table, each there  *)
(* once with the byte it replaced, and the VM takes no byte for another    *)
(* (install_byte_breakpoint, remove_breakpoint, do_byte_return).           *)
THEOREM CodeIsPatched == BreakpointsSpec => []CodeFollowsTable
  BY BreakpointsInvariance, InvImplies, PTL

(* A thread was reported as stopped exactly when skip_byte_breakpoint is   *)
(* how it goes on, also behind the functions the user has it run           *)
(* (handle_byte_breakpoint, thread_push_escape, thread_pop_escape).        *)
THEOREM ReportedSkips == BreakpointsSpec => []StopsOnce
  BY BreakpointsInvariance, InvImplies, PTL

(* The instruction at a breakpoint is executed only by a thread that has   *)
(* stopped there (interpret_next_byte, skip_byte_breakpoint).              *)
THEOREM NobodyRunsPast == BreakpointsSpec => StopsFirst
  <1>1. ASSUME BrkInv, [BreakpointsNext]_brkptVars,
               NEW t \in Threads, Ready(t), stack'[t] # stack[t], IsBreakpoint(Current(t), Pc(t))
        PROVE  reported[t]
    <2>1. stack[t] # <<>> /\ prompt = FALSE
      BY <1>1 DEF Ready
    <2>2. StopsOnce /\ stack \in [Threads -> Seq(Frames)]
      BY <1>1, InvImplies DEF BrkInv, ThreadsOK
    <2>3. CASE \E u \in Threads : Run(u)
      <3>1. PICK u \in Threads : Run(u)
        BY <2>3
      <3>2. u = t
        <4>1. stack' = stack \/ \E s : stack' = [stack EXCEPT ![u] = s]
          BY <3>1 DEF Run, InterpretNextByte, SkipByteBreakpoint, Handle, Execute
        <4> QED BY <1>1, <2>2, <4>1
      <3>3. CASE SkipByteBreakpoint(t)
        BY <2>2, <3>3 DEF SkipByteBreakpoint, StopsOnce
      <3>4. CASE InterpretNextByte(t)
        <4>1. Byte(t) = "BREAKPOINT"
          BY <1>1, <2>1, AtInstruction
        <4>2. stack' = stack
          BY <3>4, <4>1 DEF InterpretNextByte, Handle
        <4> QED BY <1>1, <4>2
      <3> QED BY <3>1, <3>2, <3>3, <3>4 DEF Run
    <2>4. CASE \E u \in Threads : Start(u)
      <3>1. PICK u \in Threads : stack[u] = <<>> /\ \E s : stack' = [stack EXCEPT ![u] = s]
        BY <2>4 DEF Start
      <3> QED BY <1>1, <2>1, <2>2, <3>1
    <2>5. CASE \E u \in Threads, c \in Components : Call(u, c)
      BY <1>1, <2>5 DEF Call, Ready
    <2>6. CASE ~ \E u \in Threads : Run(u) \/ Start(u) \/ \E c \in Components : Call(u, c)
      <3>1. UNCHANGED threadVars
        BY <1>1, <2>6 DEF BreakpointsNext, Load, Unbind, Install, Delete, Collect, Interrupt,
                          List, Continue, brkptVars, threadVars
      <3> QED BY <1>1, <3>1 DEF threadVars
    <2> QED BY <2>3, <2>4, <2>5, <2>6
  <1>2. BrkInv /\ [BreakpointsNext]_brkptVars =>
          (\A t \in Threads :
             /\ Ready(t) /\ stack'[t] # stack[t]
             /\ IsBreakpoint(Current(t), Pc(t))
             => reported[t])
    BY <1>1
  <1>3. BrkInv /\ [BreakpointsNext]_brkptVars =>
          [\A t \in Threads :
             /\ Ready(t) /\ stack'[t] # stack[t]
             /\ IsBreakpoint(Current(t), Pc(t))
             => reported[t]]_brkptVars
    BY <1>2
  <1> QED BY <1>3, BreakpointsInvariance, PTL DEF BreakpointsSpec, StopsFirst

(* Apart from stopping the breakpoints change nothing: the threads run the *)
(* instructions as they were loaded, each once, and a function that the    *)
(* user calls returns to where the thread was.                             *)
THEOREM BreakpointsRunAsWritten == BreakpointsSpec => RunsAsWritten
  <1>1. BreakpointsInit => P!PlainInit
    BY DEF BreakpointsInit, P!PlainInit
  <1>2. BrkInv /\ [BreakpointsNext]_brkptVars => [P!PlainNext]_stack
    BY NextInvariance
  <1> QED BY <1>1, <1>2, BreakpointsInvariance, PTL
          DEF BreakpointsSpec, RunsAsWritten, P!PlainSpec
=============================================================================
