------------------------- MODULE MindyTablesProofs --------------------------
(***************************************************************************)
(* Proofs about MindyTables, for any keys, addresses and sizes.            *)
(***************************************************************************)
EXTENDS MindyTables, QueueLemmas, FiniteSetTheorems

EntrySet == [key : Keys, elt : Elts, id : Nat, state : Nat]
Held(bs) == UNION {Range(bs[b]) : b \in DOMAIN bs}
KeysOf(es) == {e.key : e \in es}

(* n buckets, each with the entries that belong there, none of them twice. *)
Buckets(bs, n) ==
  /\ n \in Nat \ {0}
  /\ bs \in [0..n - 1 -> Seq(EntrySet)]
  /\ \A b \in 0..n - 1 : IsQueue(bs[b]) /\ \A e \in Range(bs[b]) : e.id % n = b

(* A hash that is right as long as its state is valid. *)
HashRight(k, id, s) ==
  IF k \in Pointers THEN s \in 1..epoch /\ (s = epoch => id = addr[k])
  ELSE s \in 0..epoch /\ id = FixedHash[k]

(* The states of the buckets cover those of their entries; all that are    *)
(* volatile are the same, which is limit[b] for bucket b.                  *)
Covered(bs, ss, limit) ==
  \A b \in DOMAIN bs :
    /\ ss[b] \in {Permanent, limit[b]}
    /\ \A e \in Range(bs[b]) :
         e.state \in {Permanent, limit[b]} /\ (ss[b] = Permanent => e.state = Permanent)

KeyOps == {"element", "element-setter", "remove-key!"}

TypeInv ==
  /\ addr \in [Pointers -> Nat] /\ epoch \in Nat \ {0}
  /\ Buckets(buckets, Size)
  /\ states \in [0..Size - 1 -> Nat]
  /\ tableState \in 0..epoch
  /\ at \in {"idle", "while", "hash", "table", "key", "do", "bucket", "entry", "rehash"}
  /\ IF at = "idle" THEN call = NoCall ELSE call \in Calls
  /\ at \in {"hash", "table", "key"} \/ InRehash => call.op \in KeyOps
  /\ at = "while" => call.op = "remove-key!"
  /\ rehash \in [i : Nat, remaining : Seq(EntrySet), deferred : Seq(EntrySet),
                 hashed : BOOLEAN]
  /\ DOMAIN iter = DOMAIN NoIter /\ iter.on \in BOOLEAN /\ iter.rehashed \in BOOLEAN

(* What a rehash holds beside the table. *)
RehashInv ==
  IF InRehash
    THEN /\ i \in 0..Size
         /\ IF at = "bucket" THEN rehash.remaining = <<>> ELSE i < Size
         /\ at = "rehash" => rehash.remaining # <<>>
         /\ IsQueue(rehash.remaining) /\ IsQueue(rehash.deferred)
         /\ Range(rehash.remaining) \cap Held(buckets) = {}
         /\ Range(rehash.deferred) \cap Held(buckets) = {}
         /\ Range(rehash.deferred) \cap Range(rehash.remaining) = {}
         /\ \A e \in Range(rehash.remaining) : e.id % Size = i
    ELSE rehash = NoRehash

(* One entry for each key, as many as the table counts. *)
EntriesInv ==
  /\ \A e \in Entries : HashRight(e.key, e.id, e.state)
  /\ \A e, f \in Entries : e.key = f.key => e = f
  /\ IsFiniteSet(KeysOf(Entries)) /\ tableSize = Cardinality(KeysOf(Entries))

(* The one volatile state in bucket b, as long as no rehash is split.      *)
Limit ==
  [b \in DOMAIN buckets |->
     IF InRehash /\ b < (IF at = "bucket" THEN i ELSE i + 1)
       THEN IF rehash.hashed THEN epoch ELSE Permanent
       ELSE tableState]

StatesInv ==
  /\ Covered(buckets, states, Limit)
  /\ InRehash =>
       /\ tableState \in 0..epoch - 1
       /\ \A e \in Range(rehash.remaining) : e.state \in {Permanent, tableState}
       /\ \A e \in Range(rehash.deferred) : e.state \in {Permanent, epoch}
       /\ ~ rehash.hashed => rehash.deferred = <<>>

HasHash == at \in {"table", "key"} \/ (at = "do" /\ call.op \in KeyOps)

(* The hash and the place that a call has found. *)
KeyInv ==
  HasHash =>
    /\ key \in [id : Nat, state : Nat, bucket : 0..Size - 1, place : Nat]
    /\ key.bucket = key.id % Size
    /\ HashRight(call.key, key.id, key.state)
    /\ key.place # 0 =>
         /\ key.place \in DOMAIN buckets[key.bucket]
         /\ buckets[key.bucket][key.place].key = call.key
    /\ tableState # Permanent => key.state >= tableState
    /\ at = "key" \/ (at = "do" /\ call.op = "element-setter") =>
         tableState \in {Permanent, key.state}
    /\ key.place = 0 /\ (at = "table" => StateValid(tableState)) =>
         call.key \notin KeysOf(Held(buckets))

(* The keys of the cells before place p of bucket b. *)
KeysBefore(b, p) ==
  (UNION {KeysOf(Range(buckets[c])) : c \in 0..b - 1}) \cup {buckets[b][q].key : q \in 1..p - 1}

IterInv ==
  /\ iter.on /\ at # "idle" => call.op \in {"element", "size"}
  /\ iter.on /\ ~ iter.rehashed =>
       /\ ~ iter.lost
       /\ iter.visited \in Seq(Keys) /\ IsQueue(iter.visited)
       /\ iter.touched = Len(iter.visited)
       /\ Range(iter.visited) \subseteq KeysOf(Entries)
       /\ ~ InRehash /\ ~ Finished =>
            /\ iter.index \in 0..Size - 1
            /\ \E p \in DOMAIN buckets[iter.index] :
                 /\ buckets[iter.index][p].key = iter.cell
                 /\ Range(iter.visited) = KeysBefore(iter.index, p)

TablesInv == TypeInv /\ RehashInv /\ EntriesInv /\ StatesInv /\ KeyInv /\ IterInv
-----------------------------------------------------------------------------
(***************************************************************************)
(* Merging hash states.                                                    *)
(***************************************************************************)

(* Two states of which none but v is volatile. *)
LEMMA MergeTwo ==
  ASSUME NEW v \in Nat, NEW s \in {Permanent, v}, NEW r \in {Permanent, v}
  PROVE  /\ Merge(s, r) \in {Permanent, v}
         /\ Merge(s, r) = Permanent <=> s = Permanent /\ r = Permanent
  BY DEF Merge, Volatility, Permanent

(* What the recursion of the fold does at one set of places. *)
MergeStep(a, q, f, s) == IF s = {} THEN a ELSE Merge(f[s \ {Max(s)}], q[Max(s)])
MergeBeforeStep(a, q, f, s) ==
  IF s = {} THEN a ELSE MergeBefore(f[s \ {Max(s)}], q[Max(s)])

(* The merger of states of which none but v is volatile is permanent only  *)
(* if all of them are.                                                     *)
LEMMA MergeFold ==
  ASSUME NEW v \in Nat, NEW q \in Seq({Permanent, v}), NEW a \in {Permanent, v}
  PROVE  /\ FoldLeft(Merge, a, q) \in {Permanent, v}
         /\ FoldLeft(Merge, a, q) = Permanent
              => a = Permanent /\ \A k \in DOMAIN q : q[k] = Permanent
  <1> DEFINE n == Len(q)
             S == {Permanent, v}
             F == [p \in (1..n) \X S |-> Merge(p[2], q[p[1]])]
             Step(f, s) == MergeStep(a, q, f, s)
             f0 == CHOOSE f : f = [s \in SUBSET (1..n) |-> Step(f, s)]
  <1>1. n \in Nat /\ DOMAIN q = 1..n /\ \A k \in 1..n : q[k] \in S
    OBVIOUS
  <1>2. FoldLeft(Merge, a, q) = f0[1..n]
    BY <1>1 DEF FoldLeft, MapThenFoldSet, MergeStep
  <1> HIDE DEF n, S
  <1>3. F \in [(1..n) \X S -> S]
    <2>1. ASSUME NEW p \in (1..n) \X S PROVE Merge(p[2], q[p[1]]) \in S
      BY <1>1, MergeTwo DEF S
    <2> QED BY <2>1
  <1>4. \E f : f = [s \in SUBSET (1..n) |-> Step(f, s)]
    <2>1. a \in S
      BY DEF S
    <2>2. PICK f \in [SUBSET (1..n) -> S] : Folds(f, n, a, F)
      <3> HIDE DEF F
      <3> QED BY <1>1, <1>3, <2>1, FoldExists
    <2>3. ASSUME NEW s \in SUBSET (1..n) PROVE f[s] = Step(f, s)
      <3>1. CASE s = {}
        BY <2>2, <3>1 DEF Folds, FoldStep, MergeStep
      <3>2. CASE s # {}
        <4>1. Max(s) \in 1..n /\ s \ {Max(s)} \in SUBSET (1..n)
          BY <1>1, <3>2, MaxPosition
        <4>2. <<Max(s), f[s \ {Max(s)}]>> \in (1..n) \X S
          BY <2>2, <4>1
        <4> QED BY <2>2, <3>2, <4>2 DEF Folds, FoldStep, MergeStep
      <3> QED BY <3>1, <3>2
    <2>4. f = [s \in SUBSET (1..n) |-> f[s]]
      OBVIOUS
    <2>5. f = [s \in SUBSET (1..n) |-> Step(f, s)]
      BY <2>3, <2>4
    <2> QED BY <2>5
  <1>5. f0 = [s \in SUBSET (1..n) |-> Step(f0, s)]
    BY <1>4
  <1> HIDE DEF f0
  <1>6. f0[1..0] = a
    BY <1>5 DEF MergeStep
  <1>7. ASSUME NEW k \in 1..n PROVE f0[1..k] = Merge(f0[1..(k - 1)], q[k])
    <2>1. k \in Nat \ {0} /\ 1..k \in SUBSET (1..n)
      BY <1>1
    <2>2. 1..k # {} /\ Max(1..k) = k /\ (1..k) \ {k} = 1..(k - 1)
      BY <2>1, FirstPositions
    <2>3. f0[1..k] = Step(f0, 1..k)
      BY <1>5, <2>1
    <2> QED BY <2>2, <2>3 DEF MergeStep
  <1> DEFINE Good(k) == /\ f0[1..k] \in S
                        /\ f0[1..k] = Permanent
                             => a = Permanent /\ \A j \in 1..k : q[j] = Permanent
             T == {k \in Nat : k <= n /\ ~ Good(k)}
  <1>8. Good(0)
    BY <1>6 DEF S
  <1>9. ASSUME NEW k \in 1..n, Good(k - 1) PROVE Good(k)
    <2>1. /\ Merge(f0[1..(k - 1)], q[k]) \in S
          /\ Merge(f0[1..(k - 1)], q[k]) = Permanent
               => f0[1..(k - 1)] = Permanent /\ q[k] = Permanent
      BY <1>1, <1>9, MergeTwo DEF S
    <2>2. \A j \in 1..k : j \in 1..(k - 1) \/ j = k
      BY <1>1
    <2> QED BY <1>7, <1>9, <2>1, <2>2
  <1>10. Good(n)
    <2> HIDE DEF Good
    <2>1. ASSUME T # {} PROVE FALSE
      <3>1. PICK k \in T : \A m \in T : k <= m
        <4>1. T \in SUBSET Nat
          OBVIOUS
        <4> QED BY <2>1, <4>1, LeastNat
      <3>2. k \in 1..n
        BY <1>1, <1>8, <3>1
      <3>3. Good(k - 1)
        BY <1>1, <3>1, <3>2
      <3> QED BY <1>9, <3>1, <3>2, <3>3
    <2> QED BY <1>1, <2>1
  <1> QED BY <1>1, <1>2, <1>10 DEF S

(* The same when each state is the first argument of the merger. *)
LEMMA MergeBeforeFold ==
  ASSUME NEW v \in Nat, NEW q \in Seq({Permanent, v}), NEW a \in {Permanent, v}
  PROVE  /\ FoldLeft(MergeBefore, a, q) \in {Permanent, v}
         /\ FoldLeft(MergeBefore, a, q) = Permanent
              => a = Permanent /\ \A k \in DOMAIN q : q[k] = Permanent
  <1> DEFINE n == Len(q)
             S == {Permanent, v}
             F == [p \in (1..n) \X S |-> MergeBefore(p[2], q[p[1]])]
             Step(f, s) == MergeBeforeStep(a, q, f, s)
             f0 == CHOOSE f : f = [s \in SUBSET (1..n) |-> Step(f, s)]
  <1>1. n \in Nat /\ DOMAIN q = 1..n /\ \A k \in 1..n : q[k] \in S
    OBVIOUS
  <1>2. FoldLeft(MergeBefore, a, q) = f0[1..n]
    BY <1>1 DEF FoldLeft, MapThenFoldSet, MergeBeforeStep
  <1> HIDE DEF n, S
  <1>3. F \in [(1..n) \X S -> S]
    <2>1. ASSUME NEW p \in (1..n) \X S PROVE MergeBefore(p[2], q[p[1]]) \in S
      BY <1>1, MergeTwo DEF S, MergeBefore
    <2> QED BY <2>1
  <1>4. \E f : f = [s \in SUBSET (1..n) |-> Step(f, s)]
    <2>1. a \in S
      BY DEF S
    <2>2. PICK f \in [SUBSET (1..n) -> S] : Folds(f, n, a, F)
      <3> HIDE DEF F
      <3> QED BY <1>1, <1>3, <2>1, FoldExists
    <2>3. ASSUME NEW s \in SUBSET (1..n) PROVE f[s] = Step(f, s)
      <3>1. CASE s = {}
        BY <2>2, <3>1 DEF Folds, FoldStep, MergeBeforeStep
      <3>2. CASE s # {}
        <4>1. Max(s) \in 1..n /\ s \ {Max(s)} \in SUBSET (1..n)
          BY <1>1, <3>2, MaxPosition
        <4>2. <<Max(s), f[s \ {Max(s)}]>> \in (1..n) \X S
          BY <2>2, <4>1
        <4> QED BY <2>2, <3>2, <4>2 DEF Folds, FoldStep, MergeBeforeStep
      <3> QED BY <3>1, <3>2
    <2>4. f = [s \in SUBSET (1..n) |-> f[s]]
      OBVIOUS
    <2>5. f = [s \in SUBSET (1..n) |-> Step(f, s)]
      BY <2>3, <2>4
    <2> QED BY <2>5
  <1>5. f0 = [s \in SUBSET (1..n) |-> Step(f0, s)]
    BY <1>4
  <1> HIDE DEF f0
  <1>6. f0[1..0] = a
    BY <1>5 DEF MergeBeforeStep
  <1>7. ASSUME NEW k \in 1..n PROVE f0[1..k] = MergeBefore(f0[1..(k - 1)], q[k])
    <2>1. k \in Nat \ {0} /\ 1..k \in SUBSET (1..n)
      BY <1>1
    <2>2. 1..k # {} /\ Max(1..k) = k /\ (1..k) \ {k} = 1..(k - 1)
      BY <2>1, FirstPositions
    <2>3. f0[1..k] = Step(f0, 1..k)
      BY <1>5, <2>1
    <2> QED BY <2>2, <2>3 DEF MergeBeforeStep
  <1> DEFINE Good(k) == /\ f0[1..k] \in S
                        /\ f0[1..k] = Permanent
                             => a = Permanent /\ \A j \in 1..k : q[j] = Permanent
             T == {k \in Nat : k <= n /\ ~ Good(k)}
  <1>8. Good(0)
    BY <1>6 DEF S
  <1>9. ASSUME NEW k \in 1..n, Good(k - 1) PROVE Good(k)
    <2>1. /\ MergeBefore(f0[1..(k - 1)], q[k]) \in S
          /\ MergeBefore(f0[1..(k - 1)], q[k]) = Permanent
               => f0[1..(k - 1)] = Permanent /\ q[k] = Permanent
      BY <1>1, <1>9, MergeTwo DEF S, MergeBefore
    <2>2. \A j \in 1..k : j \in 1..(k - 1) \/ j = k
      BY <1>1
    <2> QED BY <1>7, <1>9, <2>1, <2>2
  <1>10. Good(n)
    <2> HIDE DEF Good
    <2>1. ASSUME T # {} PROVE FALSE
      <3>1. PICK k \in T : \A m \in T : k <= m
        <4>1. T \in SUBSET Nat
          OBVIOUS
        <4> QED BY <2>1, <4>1, LeastNat
      <3>2. k \in 1..n
        BY <1>1, <1>8, <3>1
      <3>3. Good(k - 1)
        BY <1>1, <3>1, <3>2
      <3> QED BY <1>9, <3>1, <3>2, <3>3
    <2> QED BY <1>1, <2>1
  <1> QED BY <1>1, <1>2, <1>10 DEF S
-----------------------------------------------------------------------------
(***************************************************************************)
(* Buckets, and what happens to them when the table is resized.            *)
(***************************************************************************)

LEMMA Remainder ==
  ASSUME NEW a \in Nat, NEW n \in Nat \ {0}
  PROVE  a % n \in 0..n - 1
  OBVIOUS

LEMMA SizeOfBuckets ==
  ASSUME NEW bs, NEW n, Buckets(bs, n)
  PROVE  n \in Nat \ {0} /\ DOMAIN bs = 0..n - 1 /\ Cardinality(DOMAIN bs) = n
  <1>1. n \in Nat \ {0} /\ DOMAIN bs = 0..n - 1
    BY DEF Buckets
  <1>2. Cardinality(0..n - 1) = n
    BY <1>1, FS_Interval
  <1> QED BY <1>1, <1>2

(* An entry is in one bucket only, the one that its id says. *)
LEMMA HeldWhere ==
  ASSUME NEW bs, NEW n, Buckets(bs, n), NEW e
  PROVE  e \in Held(bs) <=>
           e \in EntrySet /\ e.id % n \in DOMAIN bs /\ e \in Range(bs[e.id % n])
  <1>1. DOMAIN bs = 0..n - 1 /\ \A b \in 0..n - 1 : bs[b] \in Seq(EntrySet)
    BY DEF Buckets
  <1>2. \A b \in 0..n - 1 : \A f \in Range(bs[b]) : f \in EntrySet /\ f.id % n = b
    BY <1>1, InQueue DEF Buckets
  <1> QED BY <1>1, <1>2 DEF Held

LEMMA AllEntriesQueue ==
  ASSUME NEW bs, NEW n, Buckets(bs, n)
  PROVE  /\ AllEntries(bs) \in Seq(EntrySet)
         /\ IsQueue(AllEntries(bs))
         /\ Range(AllEntries(bs)) = Held(bs)
  <1> DEFINE seqs == [b \in 1..n |-> bs[b - 1]]
  <1>1. AllEntries(bs) = FlattenSeq(seqs)
    BY SizeOfBuckets DEF AllEntries
  <1>2. n \in Nat \ {0} /\ DOMAIN bs = 0..n - 1
    BY SizeOfBuckets
  <1>3. \A b \in 1..n : b - 1 \in 0..n - 1 /\ seqs[b] = bs[b - 1]
    BY <1>2
  <1>4. seqs \in [1..n -> Seq(EntrySet)] /\ \A b \in 1..n : IsQueue(seqs[b])
    BY <1>3 DEF Buckets
  <1> HIDE DEF seqs
  <1>5. ASSUME NEW b \in 1..n, NEW c \in 1..n, b # c
        PROVE  Range(seqs[b]) \cap Range(seqs[c]) = {}
    <2>1. \A e \in Range(seqs[b]) : e.id % n = b - 1
      BY <1>3 DEF Buckets
    <2>2. \A e \in Range(seqs[c]) : e.id % n = c - 1
      BY <1>3 DEF Buckets
    <2>3. b - 1 # c - 1
      BY <1>5
    <2> QED BY <2>1, <2>2, <2>3
  <1>6. /\ FlattenSeq(seqs) \in Seq(EntrySet)
        /\ IsQueue(FlattenSeq(seqs))
        /\ Range(FlattenSeq(seqs)) = UNION {Range(seqs[b]) : b \in 1..n}
    BY <1>2, <1>4, <1>5, FlattenQueues
  <1>7. UNION {Range(seqs[b]) : b \in 1..n} = Held(bs)
    <2>1. ASSUME NEW b \in 0..n - 1 PROVE b + 1 \in 1..n /\ seqs[b + 1] = bs[b]
      <3>1. b + 1 \in 1..n /\ (b + 1) - 1 = b
        BY <1>2
      <3> QED BY <1>3, <3>1
    <2> QED BY <1>2, <1>3, <2>1 DEF Held
  <1> QED BY <1>1, <1>6, <1>7

LEMMA GoToQueue ==
  ASSUME NEW q \in Seq(EntrySet), IsQueue(q), NEW b, NEW n
  PROVE  /\ GoTo(q, b, n) \in Seq(EntrySet)
         /\ IsQueue(GoTo(q, b, n))
         /\ Range(GoTo(q, b, n)) = {e \in Range(q) : e.id % n = b}
  <1> DEFINE K == {e \in Range(q) : e.id % n = b}
  <1>1. GoTo(q, b, n) = SubQueue(q, K) /\ Range(q) \cap K = K
    BY DEF GoTo
  <1> HIDE DEF K
  <1>2. /\ SubQueue(q, K) \in Seq(EntrySet)
        /\ IsQueue(SubQueue(q, K))
        /\ Range(SubQueue(q, K)) = Range(q) \cap K
    BY SubQueueIsQueue
  <1>3. GoTo(q, b, n) \in Seq(EntrySet) /\ IsQueue(GoTo(q, b, n)) /\ Range(GoTo(q, b, n)) = K
    BY <1>1, <1>2
  <1> QED BY <1>3 DEF K

LEMMA StatesOfQueue ==
  ASSUME NEW v \in Nat, NEW q \in Seq(EntrySet), \A e \in Range(q) : e.state \in {Permanent, v}
  PROVE  /\ StatesOf(q) \in Seq({Permanent, v})
         /\ (\A p \in DOMAIN StatesOf(q) : StatesOf(q)[p] = Permanent)
              => \A e \in Range(q) : e.state = Permanent
  <1>1. DOMAIN q = 1..Len(q) /\ Len(q) \in Nat /\ \A p \in 1..Len(q) : q[p] \in Range(q)
    BY InQueue
  <1>2. StatesOf(q) = [p \in 1..Len(q) |-> q[p].state]
    BY <1>1 DEF StatesOf
  <1>3. StatesOf(q) \in Seq({Permanent, v}) /\ DOMAIN StatesOf(q) = 1..Len(q)
    BY <1>1, <1>2
  <1> QED BY <1>1, <1>2, <1>3 DEF Range

(* The entries of bs in n other buckets, whose states cover theirs. *)
Rearranged(bs, r, n, v) ==
  /\ Buckets(r.of, n) /\ r.states \in [0..n - 1 -> Nat]
  /\ Held(r.of) = Held(bs)
  /\ Covered(r.of, r.states, [b \in 0..n - 1 |-> v])

LEMMA ResizedBuckets ==
  ASSUME NEW bs, NEW m, Buckets(bs, m), NEW n \in Nat \ {0}, NEW v \in Nat,
         \A e \in Held(bs) : e.state \in {Permanent, v}
  PROVE  Rearranged(bs, Resized(bs, n), n, v)
  <1> DEFINE all == AllEntries(bs)
             goes(b) == GoTo(all, b, n)
             of == [b \in 0..n - 1 |-> Reverse(goes(b))]
             ss == [b \in 0..n - 1 |-> FoldLeft(Merge, Permanent, StatesOf(goes(b)))]
  <1>1. Resized(bs, n) = [of |-> of, states |-> ss]
    BY DEF Resized
  <1>2. all \in Seq(EntrySet) /\ IsQueue(all) /\ Range(all) = Held(bs)
    BY AllEntriesQueue
  <1> HIDE DEF all
  <1>3. ASSUME NEW b \in 0..n - 1
        PROVE  /\ goes(b) \in Seq(EntrySet) /\ IsQueue(goes(b))
               /\ Range(goes(b)) = {e \in Held(bs) : e.id % n = b}
    BY <1>2, GoToQueue
  <1> HIDE DEF goes
  <1>4. ASSUME NEW b \in 0..n - 1
        PROVE  /\ of[b] \in Seq(EntrySet) /\ IsQueue(of[b])
               /\ Range(of[b]) = {e \in Held(bs) : e.id % n = b}
    <2>1. of[b] = Reverse(goes(b))
      OBVIOUS
    <2> QED BY <1>3, <2>1, ReverseQueue
  <1>5. ASSUME NEW b \in 0..n - 1
        PROVE  /\ ss[b] \in {Permanent, v}
               /\ ss[b] = Permanent => \A e \in Range(of[b]) : e.state = Permanent
    <2>1. ss[b] = FoldLeft(Merge, Permanent, StatesOf(goes(b)))
      OBVIOUS
    <2>2. \A e \in Range(goes(b)) : e.state \in {Permanent, v}
      BY <1>3
    <2>3. Permanent \in {Permanent, v}
      OBVIOUS
    <2> HIDE DEF ss, of
    <2>4. /\ StatesOf(goes(b)) \in Seq({Permanent, v})
          /\ (\A p \in DOMAIN StatesOf(goes(b)) : StatesOf(goes(b))[p] = Permanent)
               => \A e \in Range(goes(b)) : e.state = Permanent
      BY <1>3, <2>2, StatesOfQueue
    <2>5. /\ ss[b] \in {Permanent, v}
          /\ ss[b] = Permanent => \A p \in DOMAIN StatesOf(goes(b)) : StatesOf(goes(b))[p] = Permanent
      BY <2>1, <2>3, <2>4, MergeFold
    <2> QED BY <1>3, <1>4, <2>4, <2>5
  <1>6. DOMAIN of = 0..n - 1 /\ DOMAIN ss = 0..n - 1 /\ ss = [b \in 0..n - 1 |-> ss[b]]
        /\ of = [b \in 0..n - 1 |-> of[b]]
    OBVIOUS
  <1> HIDE DEF of, ss
  <1>7. Buckets(of, n)
    BY <1>4, <1>6 DEF Buckets
  <1>8. ss \in [0..n - 1 -> Nat]
    <2>1. \A b \in 0..n - 1 : ss[b] \in Nat
      BY <1>5 DEF Permanent
    <2> QED BY <1>6, <2>1
  <1>9. Held(of) = Held(bs)
    <2>1. ASSUME NEW e \in Held(bs) PROVE e.id % n \in 0..n - 1
      <3>1. e \in EntrySet
        BY HeldWhere
      <3> QED BY <3>1, Remainder DEF EntrySet
    <2> QED BY <1>4, <1>6, <2>1 DEF Held
  <1>10. Covered(of, ss, [b \in 0..n - 1 |-> v])
    <2>1. ASSUME NEW b \in 0..n - 1, NEW e \in Range(of[b]) PROVE e.state \in {Permanent, v}
      BY <1>4
    <2> QED BY <1>5, <1>6, <2>1 DEF Covered
  <1>11. Resized(bs, n).of = of /\ Resized(bs, n).states = ss
    BY <1>1
  <1> QED BY <1>7, <1>8, <1>9, <1>10, <1>11 DEF Rearranged
(* find-new-size finds a size. *)
LEMMA NewSize ==
  ASSUME NEW t \in Nat \ {0}
  PROVE  FindNewSize(t) \in t..2310 * t + 1
  <1> DEFINE fits(n) == \A d \in {2, 3, 5, 7, 11} : n % d # 0
             T == {n \in t..2310 * t + 1 : fits(n)}
  <1>1. 2310 * t + 1 \in T
    <2>1. /\ (2310 * t + 1) % 2 = 1 /\ (2310 * t + 1) % 3 = 1 /\ (2310 * t + 1) % 5 = 1
          /\ (2310 * t + 1) % 7 = 1 /\ (2310 * t + 1) % 11 = 1
      OBVIOUS
    <2>2. 2310 * t + 1 \in t..2310 * t + 1
      OBVIOUS
    <2> QED BY <2>1, <2>2
  <1>2. T \in SUBSET Nat
    OBVIOUS
  <1> HIDE DEF T
  <1>3. PICK n \in T : \A m \in T : n <= m
    BY <1>1, <1>2, LeastNat
  <1> HIDE DEF fits
  <1>4. n \in t..2310 * t + 1 /\ fits(n)
    BY <1>3 DEF T
  <1>5. ASSUME NEW m \in t..n - 1, fits(m) PROVE FALSE
    <2>1. m \in T
      BY <1>4, <1>5 DEF T
    <2> QED BY <1>3, <1>4, <2>1
  <1>6. \E c \in t..2310 * t + 1 : fits(c) /\ \A m \in t..c - 1 : ~ fits(m)
    BY <1>4, <1>5
  <1>7. FindNewSize(t) = CHOOSE c \in t..2310 * t + 1 : fits(c) /\ \A m \in t..c - 1 : ~ fits(m)
    BY DEF FindNewSize, fits
  <1> QED BY <1>6, <1>7

(* Entries that belong into bucket b of n, and buckets that are the same   *)
(* but for bucket b.                                                       *)
InBucket(q, b, n) == IsQueue(q) /\ \A e \in Range(q) : e.id % n = b
ButFor(r, bs, b, n) ==
  r \in [0..n - 1 -> Seq(EntrySet)] /\ \A c \in 0..n - 1 : c # b => r[c] = bs[c]

(* A bucket given other entries. *)
LEMMA BucketChanged ==
  ASSUME NEW bs, NEW n, Buckets(bs, n), NEW b \in 0..n - 1, NEW r,
         ButFor(r, bs, b, n), InBucket(r[b], b, n)
  PROVE  /\ Buckets(r, n)
         /\ Held(r) = (Held(bs) \ Range(bs[b])) \cup Range(r[b])
  <1> DEFINE q == r[b]
  <1>1. /\ DOMAIN bs = 0..n - 1 /\ DOMAIN r = 0..n - 1 /\ r[b] = q
        /\ r \in [0..n - 1 -> Seq(EntrySet)] /\ \A c \in 0..n - 1 : c # b => r[c] = bs[c]
        /\ IsQueue(r[b]) /\ \A e \in Range(r[b]) : e.id % n = b
    BY DEF Buckets, ButFor, InBucket
  <1>2. Buckets(r, n)
    BY <1>1 DEF Buckets
  <1>3. ASSUME NEW c \in 0..n - 1, c # b PROVE Range(bs[c]) \cap Range(bs[b]) = {}
    BY <1>3 DEF Buckets
  <1>4. Held(r) = (Held(bs) \ Range(bs[b])) \cup Range(q)
    <2>1. ASSUME NEW e \in Held(r) PROVE e \in (Held(bs) \ Range(bs[b])) \cup Range(q)
      <3>1. PICK c \in 0..n - 1 : e \in Range(r[c])
        BY <1>1 DEF Held
      <3> QED BY <1>1, <1>3, <3>1 DEF Held
    <2>2. ASSUME NEW e \in (Held(bs) \ Range(bs[b])) \cup Range(q) PROVE e \in Held(r)
      <3>1. CASE e \in Range(q)
        BY <1>1, <3>1 DEF Held
      <3>2. CASE e \in Held(bs) \ Range(bs[b])
        <4>1. PICK c \in 0..n - 1 : e \in Range(bs[c])
          BY <1>1, <3>2 DEF Held
        <4> QED BY <1>1, <3>2, <4>1 DEF Held
      <3> QED BY <2>2, <3>1, <3>2
    <2> QED BY <2>1, <2>2
  <1> QED BY <1>2, <1>4 DEF q

(* Buckets r are bs with entry e put before those of bucket b, and states  *)
(* tt are ss with its state merged in; a limit that allows more.           *)
PutBefore(r, tt, bs, ss, e, b, n) ==
  /\ ButFor(r, bs, b, n) /\ r[b] = <<e>> \o bs[b]
  /\ tt \in [0..n - 1 -> Nat] /\ tt[b] = Merge(e.state, ss[b])
  /\ \A c \in 0..n - 1 : c # b => tt[c] = ss[c]
WiderLimit(limit, lim, n) ==
  \A c \in 0..n - 1 : lim[c] \in Nat /\ limit[c] \in {Permanent, lim[c]}

LEMMA EntryPut ==
  ASSUME NEW bs, NEW ss, NEW n, NEW limit, NEW lim,
         Buckets(bs, n), ss \in [0..n - 1 -> Nat], Covered(bs, ss, limit),
         WiderLimit(limit, lim, n),
         NEW b \in 0..n - 1, NEW e \in EntrySet, e.id % n = b, e \notin Held(bs),
         e.state \in {Permanent, lim[b]},
         NEW r, NEW tt, PutBefore(r, tt, bs, ss, e, b, n)
  PROVE  Buckets(r, n) /\ Held(r) = Held(bs) \cup {e} /\ Covered(r, tt, lim)
  <1>1. DOMAIN bs = 0..n - 1 /\ bs[b] \in Seq(EntrySet) /\ IsQueue(bs[b])
        /\ Range(bs[b]) \subseteq Held(bs) /\ \A f \in Range(bs[b]) : f.id % n = b
    BY DEF Buckets, Held
  <1>2. /\ tt \in [0..n - 1 -> Nat] /\ tt[b] = Merge(e.state, ss[b])
        /\ \A c \in 0..n - 1 : c # b => r[c] = bs[c] /\ tt[c] = ss[c]
        /\ \A c \in 0..n - 1 : lim[c] \in Nat /\ limit[c] \in {Permanent, lim[c]}
        /\ r \in [0..n - 1 -> Seq(EntrySet)] /\ r[b] = <<e>> \o bs[b]
    BY DEF PutBefore, ButFor, WiderLimit
  <1>3. IsQueue(r[b]) /\ Range(r[b]) = Range(bs[b]) \cup {e}
    BY <1>1, <1>2, ConsQueue
  <1>4. Buckets(r, n) /\ Held(r) = (Held(bs) \ Range(bs[b])) \cup Range(r[b])
    <2>1. InBucket(r[b], b, n)
      BY <1>1, <1>3 DEF InBucket
    <2>2. ButFor(r, bs, b, n)
      BY DEF PutBefore
    <2> QED BY <2>1, <2>2, BucketChanged
  <1>5. Held(r) = Held(bs) \cup {e}
    BY <1>1, <1>3, <1>4
  <1>6. DOMAIN r = 0..n - 1
    BY <1>2
  <1>7. /\ ss[b] \in {Permanent, lim[b]}
        /\ \A f \in Range(bs[b]) : f.state \in {Permanent, lim[b]}
        /\ \A f \in Range(bs[b]) : ss[b] = Permanent => f.state = Permanent
    BY <1>1, <1>2 DEF Covered
  <1>8. /\ Merge(e.state, ss[b]) \in {Permanent, lim[b]}
        /\ Merge(e.state, ss[b]) = Permanent <=> e.state = Permanent /\ ss[b] = Permanent
    BY <1>2, <1>7, MergeTwo
  <1>9. Covered(r, tt, lim)
    <2>1. ASSUME NEW c \in 0..n - 1, c # b
          PROVE  /\ tt[c] \in {Permanent, lim[c]}
                 /\ \A f \in Range(r[c]) :
                      f.state \in {Permanent, lim[c]} /\ (tt[c] = Permanent => f.state = Permanent)
      BY <1>1, <1>2, <1>6, <2>1 DEF Covered
    <2>2. /\ tt[b] \in {Permanent, lim[b]}
          /\ \A f \in Range(r[b]) :
               f.state \in {Permanent, lim[b]} /\ (tt[b] = Permanent => f.state = Permanent)
      BY <1>2, <1>3, <1>7, <1>8
    <2> QED BY <1>6, <2>1, <2>2 DEF Covered
  <1> QED BY <1>4, <1>5, <1>9

(* find-elt finds an entry with the id and the key if there is one. *)
LEMMA FindEltFinds ==
  ASSUME NEW q \in Seq(EntrySet), NEW k, NEW id
  PROVE  /\ FindElt(q, k, id) \in Nat
         /\ FindElt(q, k, id) # 0 =>
              /\ FindElt(q, k, id) \in DOMAIN q
              /\ q[FindElt(q, k, id)].key = k /\ q[FindElt(q, k, id)].id = id
         /\ FindElt(q, k, id) = 0 => \A e \in Range(q) : e.key = k => e.id # id
  <1> DEFINE places == {p \in DOMAIN q : q[p].id = id /\ q[p].key = k}
  <1>1. FindElt(q, k, id) = IF places = {} THEN 0
                            ELSE CHOOSE p \in places : \A x \in places : p <= x
    BY DEF FindElt
  <1>2. DOMAIN q = 1..Len(q) /\ Len(q) \in Nat /\ \A e \in Range(q) : \E p \in 1..Len(q) : q[p] = e
    BY InQueue
  <1>3. places \in SUBSET Nat /\ 0 \notin places
    BY <1>2
  <1>4. CASE places = {}
    BY <1>1, <1>2, <1>4
  <1>5. CASE places # {}
    <2> HIDE DEF places
    <2>1. \E p \in places : \A x \in places : p <= x
      BY <1>3, <1>5, LeastNat
    <2>2. FindElt(q, k, id) \in places
      BY <1>1, <1>5, <2>1
    <2> QED BY <1>3, <2>2 DEF places
  <1> QED BY <1>4, <1>5

(* The next bucket to be looked at: none that is passed over is volatile. *)
LEMMA NextBucketFound ==
  ASSUME NEW b \in Nat, Size \in Nat, b <= Size
  PROVE  /\ NextBucket(b) \in b..Size
         /\ \A d \in b..NextBucket(b) - 1 : states[d] = Permanent
  <1> DEFINE stops(c) == c < Size => states[c] # Permanent
             T == {c \in b..Size : stops(c)}
  <1>1. Size \in T /\ T \in SUBSET Nat
    OBVIOUS
  <1> HIDE DEF T
  <1>2. PICK c \in T : \A d \in T : c <= d
    BY <1>1, LeastNat
  <1>3. c \in b..Size /\ stops(c)
    BY <1>2 DEF T
  <1>4. ASSUME NEW d \in b..c - 1 PROVE states[d] = Permanent
    <2>1. d \notin T /\ d \in b..Size
      BY <1>2, <1>3
    <2> QED BY <2>1 DEF T
  <1>5. \E x \in b..Size : stops(x) /\ \A d \in b..x - 1 : states[d] = Permanent
    BY <1>3, <1>4
  <1> QED BY <1>5 DEF NextBucket
-----------------------------------------------------------------------------
(***************************************************************************)
(* The steps that leave the table as it is.                                *)
(***************************************************************************)

(* No bucket holds anything in a table that has just been made. *)
LEMMA EmptyBuckets ==
  ASSUME NEW n \in Nat \ {0}
  PROVE  /\ Buckets(Empty(n), n) /\ Held(Empty(n)) = {}
         /\ \A b \in 0..n - 1 : Empty(n)[b] = <<>> /\ Range(Empty(n)[b]) = {}
         /\ AllPermanent(n) \in [0..n - 1 -> Nat]
         /\ \A b \in 0..n - 1 : AllPermanent(n)[b] = Permanent
  <1>1. <<>> \in Seq(EntrySet) /\ IsQueue(<<>>) /\ Range(<<>>) = {}
    BY DEF IsQueue, IsInjective, Range
  <1>2. \A b \in 0..n - 1 : Empty(n)[b] = <<>>
    BY DEF Empty
  <1>3. Empty(n) \in [0..n - 1 -> Seq(EntrySet)] /\ DOMAIN Empty(n) = 0..n - 1
    BY <1>1 DEF Empty
  <1>4. Buckets(Empty(n), n)
    BY <1>1, <1>2, <1>3 DEF Buckets
  <1>5. Held(Empty(n)) = {}
    BY <1>1, <1>2, <1>3 DEF Held
  <1>6. AllPermanent(n) \in [0..n - 1 -> Nat] /\ \A b \in 0..n - 1 : AllPermanent(n)[b] = Permanent
    BY DEF AllPermanent, Permanent
  <1> QED BY <1>1, <1>2, <1>4, <1>5, <1>6

LEMMA EntriesHeld ==
  ASSUME RehashInv, ~ InRehash
  PROVE  Entries = Held(buckets) /\ rehash = NoRehash
  <1>1. rehash = NoRehash
    BY DEF RehashInv
  <1>2. Range(rehash.remaining) = {} /\ Range(rehash.deferred) = {}
    BY <1>1 DEF NoRehash, Range
  <1> QED BY <1>1, <1>2 DEF Entries, Held

LEMMA InitInv ==
  ASSUME TablesInit
  PROVE  TablesInv
  <1> USE TablesAssumption
  <1>1. PICK n \in StartSizes : buckets = Empty(n) /\ states = AllPermanent(n)
    BY DEF TablesInit
  <1>2. n \in Nat \ {0}
    BY DEF TablesAssumption
  <1>3. /\ Buckets(buckets, n) /\ Held(buckets) = {} /\ Size = n
        /\ DOMAIN buckets = 0..n - 1
        /\ \A b \in 0..n - 1 : buckets[b] = <<>> /\ Range(buckets[b]) = {}
        /\ states \in [0..n - 1 -> Nat] /\ \A b \in 0..n - 1 : states[b] = Permanent
    BY <1>1, <1>2, EmptyBuckets, SizeOfBuckets DEF Size
  <1>4. /\ addr \in [Pointers -> Nat] /\ epoch = 1 /\ tableState = Permanent /\ tableSize = 0
        /\ call = NoCall /\ at = "idle" /\ key = NoKey /\ rehash = NoRehash /\ iter = NoIter
    BY DEF TablesInit, Placements, TablesAssumption
  <1>5. ~ InRehash /\ Entries = {} /\ KeysOf(Entries) = {}
    <2>1. ~ InRehash /\ rehash.remaining = <<>> /\ rehash.deferred = <<>>
      BY <1>4 DEF InRehash, NoRehash
    <2>2. Range(<<>>) = {}
      BY DEF Range
    <2>3. Entries = {}
      BY <1>3, <2>1, <2>2 DEF Entries, Held
    <2> QED BY <2>1, <2>3 DEF KeysOf
  <1>6. TypeInv
    BY <1>3, <1>4, <1>5 DEF TypeInv, NoIter, NoRehash, Permanent
  <1>7. RehashInv
    BY <1>4, <1>5 DEF RehashInv
  <1>8. EntriesInv
    BY <1>4, <1>5, FS_EmptySet DEF EntriesInv
  <1>9. StatesInv
    BY <1>3, <1>5 DEF StatesInv, Covered
  <1>10. KeyInv
    BY <1>4 DEF KeyInv, HasHash
  <1>11. IterInv
    BY <1>4 DEF IterInv, NoIter
  <1> QED BY <1>6, <1>7, <1>8, <1>9, <1>10, <1>11 DEF TablesInv

(* Neither the table nor a key moves, and there is no rehash. *)
LEMMA SameTable ==
  ASSUME TablesInv, UNCHANGED <<addr, epoch, tableVars, rehash>>, ~ InRehash, ~ InRehash'
  PROVE  RehashInv' /\ EntriesInv' /\ StatesInv'
  <1> USE DEF tableVars, TablesInv
  <1>1. RehashInv'
    BY DEF RehashInv
  <1>2. EntriesInv'
    <2>1. Entries' = Entries
      BY DEF Entries
    <2>2. \A e \in Entries : HashRight(e.key, e.id, e.state)'
      BY DEF EntriesInv, HashRight
    <2> QED BY <2>1, <2>2 DEF EntriesInv
  <1>3. StatesInv'
    <2>1. Limit = [b \in DOMAIN buckets |-> tableState]
      BY DEF Limit
    <2>2. Limit' = [b \in DOMAIN buckets |-> tableState]
      BY DEF Limit
    <2>3. Covered(buckets, states, Limit)
      BY DEF StatesInv
    <2> QED BY <2>1, <2>2, <2>3 DEF StatesInv
  <1> QED BY <1>1, <1>2, <1>3

LEMMA SameIter ==
  ASSUME TablesInv, UNCHANGED <<tableVars, rehash, iter>>, ~ InRehash,
         iter.on /\ at' # "idle" => call'.op \in {"element", "size"}
  PROVE  IterInv'
  <1>1. Entries' = Entries /\ KeysOf(Entries)' = KeysOf(Entries) /\ Size' = Size /\ (Finished <=> Finished')
    BY DEF tableVars, Entries, KeysOf, Size, Finished
  <1>2. \A b, p : KeysBefore(b, p)' = KeysBefore(b, p)
    BY DEF tableVars, KeysBefore
  <1> QED BY <1>1, <1>2 DEF IterInv, TablesInv, tableVars

(* A call begins, or ends without changing the table. *)
LEMMA BeginInv ==
  ASSUME TablesInv, NEW c \in Calls, Begin(c)
  PROVE  TablesInv'
  <1>1. ~ InRehash /\ Start(c) \in {"hash", "while", "do"}
    BY DEF InRehash, Begin, Start
  <1>2. ~ InRehash' /\ ~ HasHash'
    BY <1>1 DEF InRehash, HasHash, Begin, Start, KeyOps
  <1>3. RehashInv' /\ EntriesInv' /\ StatesInv'
    BY <1>1, <1>2, SameTable DEF Begin
  <1>4. IterInv'
    BY <1>1, SameIter DEF Begin
  <1>5. TypeInv'
    <2>1. at' = "hash" => c.op \in KeyOps
      BY DEF Begin, Start, KeyOps
    <2>2. at' = "while" => c.op = "remove-key!"
      BY DEF Begin, Start
    <2>3. UNCHANGED <<addr, epoch, buckets, states, tableState, Size, rehash, iter>>
      BY DEF Begin, tableVars, Size
    <2>4. call' = c /\ at' \in {"hash", "while", "do"}
      BY <1>1 DEF Begin
    <2> QED BY <1>2, <2>1, <2>2, <2>3, <2>4 DEF TypeInv, TablesInv
  <1>6. KeyInv'
    BY <1>2 DEF KeyInv
  <1> QED BY <1>3, <1>4, <1>5, <1>6 DEF TablesInv

LEMMA ReadInv ==
  ASSUME TablesInv, Element \/ SizeOf
  PROVE  TablesInv'
  <1>1. /\ UNCHANGED <<addr, epoch, tableVars, rehash, iter>>
        /\ at = "do" /\ at' = "idle" /\ call' = NoCall
    BY DEF Element, SizeOf, Return
  <1>2. ~ InRehash /\ ~ InRehash' /\ ~ HasHash'
    BY <1>1 DEF InRehash, HasHash
  <1>3. RehashInv' /\ EntriesInv' /\ StatesInv'
    BY <1>1, <1>2, SameTable
  <1>4. IterInv'
    BY <1>1, <1>2, SameIter
  <1>5. TypeInv'
    BY <1>1, <1>2 DEF TypeInv, TablesInv, tableVars, Size
  <1>6. KeyInv'
    BY <1>2 DEF KeyInv
  <1> QED BY <1>3, <1>4, <1>5, <1>6 DEF TablesInv
(* What a call holds. *)
LEMMA CallKey ==
  ASSUME TypeInv, call.op \in KeyOps
  PROVE  /\ call \in Calls /\ call.key \in Keys
         /\ call.op = "element-setter" => call.elt \in Elts
  <1>1. call \in Calls
    BY DEF TypeInv, NoCall, KeyOps
  <1>2. \/ call \in [op : {"element", "remove-key!"}, key : Keys]
        \/ call \in [op : {"element-setter"}, key : Keys, elt : Elts]
        \/ call \in [op : {"size", "remove-all-keys!"}]
    BY <1>1 DEF Calls
  <1>3. call \notin [op : {"size", "remove-all-keys!"}]
    BY DEF KeyOps
  <1>4. CASE call \in [op : {"element", "remove-key!"}, key : Keys]
    BY <1>1, <1>4
  <1>5. CASE call \in [op : {"element-setter"}, key : Keys, elt : Elts]
    BY <1>1, <1>5
  <1> QED BY <1>2, <1>3, <1>4, <1>5

(* The buckets, and the entries of a table that is not being rehashed. *)
LEMMA TableParts ==
  ASSUME TypeInv
  PROVE  /\ Size \in Nat \ {0} /\ DOMAIN buckets = 0..Size - 1 /\ Buckets(buckets, Size)
         /\ \A b \in 0..Size - 1 :
              /\ buckets[b] \in Seq(EntrySet) /\ IsQueue(buckets[b])
              /\ \A e \in Range(buckets[b]) : e \in Held(buckets) /\ e.id % Size = b
  <1>1. Buckets(buckets, Size)
    BY DEF TypeInv
  <1>2. Size \in Nat \ {0} /\ DOMAIN buckets = 0..Size - 1
    BY <1>1, SizeOfBuckets
  <1> QED BY <1>1, <1>2 DEF Buckets, Held

LEMMA HeldEntry ==
  ASSUME TablesInv, ~ InRehash, NEW e \in Held(buckets)
  PROVE  /\ e \in EntrySet /\ e \in Entries
         /\ e.id % Size \in 0..Size - 1 /\ e \in Range(buckets[e.id % Size])
         /\ e.state \in {Permanent, tableState}
         /\ HashRight(e.key, e.id, e.state)
  <1>1. DOMAIN buckets = 0..Size - 1 /\ Buckets(buckets, Size)
    BY TableParts DEF TablesInv
  <1>2. /\ e \in EntrySet
        /\ e.id % Size \in 0..Size - 1 /\ e \in Range(buckets[e.id % Size])
    BY <1>1, HeldWhere
  <1>3. Limit[e.id % Size] = tableState
    BY <1>1, <1>2 DEF Limit
  <1>4. e.state \in {Permanent, tableState}
    BY <1>1, <1>2, <1>3 DEF TablesInv, StatesInv, Covered
  <1>5. e \in Entries
    BY <1>1, <1>2 DEF Entries
  <1>6. HashRight(e.key, e.id, e.state)
    BY <1>5 DEF TablesInv, EntriesInv
  <1> QED BY <1>2, <1>4, <1>5, <1>6

(* object-hash, with the state of the table to begin with. *)
LEMMA GoodHash ==
  ASSUME TypeInv, NEW k \in Keys, NEW s \in 0..epoch
  PROVE  /\ HashId(k) \in Nat /\ HashState(k, s) \in 0..epoch
         /\ HashRight(k, HashId(k), HashState(k, s))
         /\ HashState(k, s) >= s
         /\ HashState(k, s) \in {s, epoch}
  <1>1. epoch \in Nat \ {0} /\ epoch # Permanent /\ addr \in [Pointers -> Nat]
    BY DEF TypeInv, Permanent
  <1>2. CASE k \in Pointers
    <2>1. HashState(k, s) = epoch
      BY <1>1, <1>2 DEF HashState, Merge, Volatility
    <2> QED BY <1>1, <1>2, <2>1 DEF HashId, HashRight
  <1>3. CASE k \notin Pointers
    <2>1. HashState(k, s) = s /\ HashId(k) = FixedHash[k] /\ FixedHash[k] \in Nat
      BY <1>3, TablesAssumption DEF HashState, HashId, Keys
    <2> QED BY <1>1, <1>3, <2>1 DEF HashRight
  <1> QED BY <1>2, <1>3

LEMMA HashInv ==
  ASSUME TablesInv, Hash
  PROVE  TablesInv'
  <1> DEFINE id == HashId(call.key)
             b == id % Size
             st == HashState(call.key, tableState)
             place == FindElt(buckets[b], call.key, id)
  <1>1. /\ UNCHANGED <<addr, epoch, buckets, states, tableState, tableSize, call, rehash, iter>>
        /\ UNCHANGED tableVars
        /\ at = "hash" /\ at' \in {"do", "table"} /\ (at' = "do" <=> call.op = "element" /\ place # 0)
        /\ key' = [id |-> id, state |-> st, bucket |-> b, place |-> place]
    BY DEF Hash, tableVars
  <1>2. ~ InRehash /\ ~ InRehash' /\ TypeInv /\ Size' = Size
    BY <1>1 DEF InRehash, TablesInv, Size
  <1>3. call.op \in KeyOps
    BY <1>1, <1>2 DEF TypeInv
  <1>4. call.key \in Keys /\ call \in Calls
    BY <1>2, <1>3, CallKey
  <1>5. RehashInv' /\ EntriesInv' /\ StatesInv'
    BY <1>1, <1>2, SameTable
  <1>6. IterInv'
    <2>1. iter.on => call.op \in {"element", "size"}
      BY <1>1 DEF TablesInv, IterInv
    <2> QED BY <1>1, <1>2, <2>1, SameIter
  <1>7. TypeInv'
    BY <1>1, <1>2, <1>3, <1>4 DEF TypeInv
  <1>8. KeyInv'
    <2>1. tableState \in 0..epoch
      BY <1>2 DEF TypeInv
    <2>2. id \in Nat /\ st \in 0..epoch /\ HashRight(call.key, id, st) /\ st >= tableState
      BY <1>2, <1>4, <2>1, GoodHash
    <2>3. Size \in Nat \ {0} /\ b \in 0..Size - 1
      BY <1>2, <2>2, TableParts, Remainder
    <2>4. buckets[b] \in Seq(EntrySet)
      BY <1>2, <2>3, TableParts
    <2>5. /\ place \in Nat
          /\ place # 0 => place \in DOMAIN buckets[b] /\ buckets[b][place].key = call.key
          /\ place = 0 => \A e \in Range(buckets[b]) : e.key = call.key => e.id # id
      BY <2>4, FindEltFinds
    <2>6. ASSUME place = 0, StateValid(tableState), NEW e \in Held(buckets), e.key = call.key
          PROVE  FALSE
      <3>1. /\ e.id % Size \in 0..Size - 1 /\ e \in Range(buckets[e.id % Size])
            /\ e.state \in {Permanent, tableState} /\ HashRight(e.key, e.id, e.state)
        BY <1>2, <2>6, HeldEntry
      <3>2. e.id = id
        BY <2>6, <3>1 DEF StateValid, HashRight, HashId, Permanent
      <3> QED BY <2>5, <2>6, <3>1, <3>2
    <2> HIDE DEF id, b, st, place
    <2>7. /\ key' \in [id : Nat, state : Nat, bucket : 0..Size - 1, place : Nat]
          /\ key'.bucket = b /\ key'.id = id /\ key'.state = st /\ key'.place = place
      BY <1>1, <2>2, <2>3, <2>5
    <2>8. b = id % Size
      BY DEF b
    <2>9. (HashRight(call.key, key.id, key.state))'
      BY <1>1, <2>2, <2>7 DEF HashRight
    <2>10. place = 0 /\ StateValid(tableState) => call.key \notin KeysOf(Held(buckets))
      BY <2>6 DEF KeysOf
    <2>11. (Held(buckets))' = Held(buckets) /\ (StateValid(tableState))' = StateValid(tableState)
      BY <1>1 DEF Held, StateValid
    <2>12. (KeysOf(Held(buckets)))' = KeysOf(Held(buckets))
      BY <2>11 DEF KeysOf
    <2> USE <1>1, <1>2
    <2>13. (key.place = 0 /\ (at = "table" => StateValid(tableState)) =>
             call.key \notin KeysOf(Held(buckets)))'
      BY <2>7, <2>10, <2>11, <2>12
    <2>14. (key.place # 0 => /\ key.place \in DOMAIN buckets[key.bucket]
                             /\ buckets[key.bucket][key.place].key = call.key)'
      BY <2>5, <2>7
    <2>15. (tableState # Permanent => key.state >= tableState)'
      BY <2>2, <2>7
    <2>16. ~ (at' = "key" \/ (at' = "do" /\ call'.op = "element-setter"))
      OBVIOUS
    <2> QED BY <2>7, <2>8, <2>9, <2>13, <2>14, <2>15, <2>16 DEF KeyInv
  <1> QED BY <1>5, <1>6, <1>7, <1>8 DEF TablesInv
(* A rehash begins; the buckets that it passes over hold nothing volatile. *)
LEMMA StartRehashInv ==
  ASSUME TablesInv, at \in {"while", "table", "key"}, call.op \in KeyOps,
         tableState \in 0..epoch - 1, StartRehash,
         UNCHANGED <<addr, epoch, tableVars, call, answer, iter>>
  PROVE  TablesInv'
  <1> DEFINE first == NextBucket(0)
  <1>1. /\ UNCHANGED <<addr, epoch, buckets, states, tableState, tableSize, call, iter>>
        /\ at' = "bucket" /\ key' = NoKey /\ rehash' = [NoRehash EXCEPT !.i = first]
    BY DEF StartRehash, tableVars
  <1>2. ~ InRehash /\ InRehash' /\ TypeInv /\ Size' = Size
    BY <1>1 DEF InRehash, TablesInv, Size
  <1>3. /\ Size \in Nat \ {0} /\ DOMAIN buckets = 0..Size - 1
        /\ first \in 0..Size /\ \A d \in 0..first - 1 : states[d] = Permanent
    BY <1>2, TableParts, NextBucketFound
  <1> HIDE DEF first
  <1>4. /\ rehash'.i = first /\ rehash'.remaining = <<>> /\ rehash'.deferred = <<>>
        /\ rehash'.hashed = FALSE
        /\ rehash' \in [i : Nat, remaining : Seq(EntrySet), deferred : Seq(EntrySet),
                        hashed : BOOLEAN]
    <2>1. rehash' = [i |-> first, remaining |-> <<>>, deferred |-> <<>>, hashed |-> FALSE]
      BY <1>1 DEF NoRehash
    <2>2. first \in Nat /\ <<>> \in Seq(EntrySet)
      BY <1>3
    <2> QED BY <2>1, <2>2
  <1>5. Range(<<>>) = {} /\ IsQueue(<<>>)
    BY DEF Range, IsQueue, IsInjective
  <1>6. Entries' = Entries
    <2>1. Entries = Held(buckets)
      BY <1>2, EntriesHeld DEF TablesInv
    <2>2. Entries' = Held(buckets)
      BY <1>1, <1>4, <1>5 DEF Entries, Held
    <2> QED BY <2>1, <2>2
  <1>7. TypeInv'
    BY <1>1, <1>2, <1>4 DEF TypeInv
  <1>8. RehashInv'
    <2>1. i' = first
      BY <1>4 DEF i
    <2> QED BY <1>1, <1>2, <1>3, <1>4, <1>5, <2>1 DEF RehashInv
  <1>9. EntriesInv'
    <2>1. \A e \in Entries : HashRight(e.key, e.id, e.state)'
      BY <1>1 DEF TablesInv, EntriesInv, HashRight
    <2>2. (KeysOf(Entries))' = KeysOf(Entries)
      BY <1>6 DEF KeysOf
    <2> QED BY <1>1, <1>6, <2>1, <2>2 DEF EntriesInv, TablesInv
  <1>10. StatesInv'
    <2>1. \A b \in 0..Size - 1 : Limit'[b] = IF b < first THEN Permanent ELSE tableState
      BY <1>1, <1>2, <1>3, <1>4 DEF Limit, i
    <2>2. \A b \in 0..Size - 1 : Limit[b] = tableState
      BY <1>2, <1>3 DEF Limit
    <2>3. \A b \in 0..Size - 1 : b < first => states[b] = Permanent
      BY <1>3
    <2>4. Covered(buckets, states, Limit)
      BY DEF TablesInv, StatesInv
    <2>5. Covered(buckets, states, Limit')
      BY <1>3, <2>1, <2>2, <2>3, <2>4 DEF Covered
    <2>6. Covered(buckets, states, Limit)'
      BY <1>1, <2>5
    <2> QED BY <1>1, <1>4, <1>5, <2>6 DEF StatesInv
  <1>11. KeyInv'
    BY <1>1 DEF KeyInv, HasHash
  <1>12. IterInv'
    <2>1. (KeysOf(Entries))' = KeysOf(Entries)
      BY <1>6 DEF KeysOf
    <2> QED BY <1>1, <1>2, <2>1 DEF IterInv, TablesInv
  <1> QED BY <1>7, <1>8, <1>9, <1>10, <1>11, <1>12 DEF TablesInv

(* The call goes on, or back to its loop, with the table as it is. *)
LEMMA GoOnInv ==
  ASSUME TablesInv, at \in {"while", "table", "key"},
         at' \in {"while", "hash", "key", "do"},
         at' \in {"hash", "key"} => call.op \in KeyOps,
         at' = "while" => call.op = "remove-key!",
         UNCHANGED <<addr, epoch, tableVars, call, rehash, iter>>, KeyInv'
  PROVE  TablesInv'
  <1>1. ~ InRehash /\ ~ InRehash'
    BY DEF InRehash
  <1>2. RehashInv' /\ EntriesInv' /\ StatesInv'
    BY <1>1, SameTable
  <1>3. IterInv'
    <2>1. iter.on => call.op \in {"element", "size"}
      BY DEF TablesInv, IterInv
    <2> QED BY <1>1, <2>1, SameIter
  <1>4. TypeInv'
    BY <1>1 DEF TypeInv, TablesInv, tableVars, Size
  <1> QED BY <1>2, <1>3, <1>4 DEF TablesInv

LEMMA StartAgainInv ==
  ASSUME TablesInv, at \in {"table", "key"}, tableState \in 0..epoch - 1, StartAgain,
         UNCHANGED <<addr, epoch, tableVars, call, answer, iter>>
  PROVE  TablesInv'
  <1>1. call.op \in KeyOps
    BY DEF TablesInv, TypeInv
  <1>2. CASE call.op = "remove-key!"
    <2>1. at' = "while" /\ UNCHANGED rehash
      BY <1>2 DEF StartAgain
    <2>2. KeyInv'
      BY <2>1 DEF KeyInv, HasHash
    <2> QED BY <1>2, <2>1, <2>2, GoOnInv
  <1>3. CASE call.op # "remove-key!"
    BY <1>1, <1>3, StartRehashInv DEF StartAgain
  <1> QED BY <1>2, <1>3

LEMMA CheckTableInv ==
  ASSUME TablesInv, CheckTable
  PROVE  TablesInv'
  <1>1. /\ at \in {"while", "table"}
        /\ UNCHANGED <<addr, epoch, tableVars, call, answer, iter>>
        /\ UNCHANGED <<tableState, buckets>>
    BY DEF CheckTable, tableVars
  <1>2. TypeInv /\ tableState \in 0..epoch /\ epoch \in Nat \ {0}
    BY DEF TablesInv, TypeInv
  <1>3. call.op \in KeyOps
    BY <1>1, <1>2 DEF TypeInv, KeyOps
  <1>4. CASE StateValid(tableState)
    <2>1. at' = (IF at = "while" THEN "hash" ELSE "key") /\ UNCHANGED <<key, rehash>>
      BY <1>4 DEF CheckTable
    <2>2. KeyInv'
      <3>1. CASE at = "while"
        BY <2>1, <3>1 DEF KeyInv, HasHash
      <3>2. CASE at = "table"
        <4>1. tableState \in {Permanent, key.state}
          BY <1>2, <1>4, <3>2 DEF TablesInv, KeyInv, HasHash, HashRight, StateValid, Permanent
        <4>2. HashRight(call.key, key.id, key.state)'
          BY <1>1, <2>1, <3>2 DEF TablesInv, KeyInv, HasHash, HashRight
        <4>3. /\ Size' = Size /\ (Held(buckets))' = Held(buckets)
              /\ (KeysOf(Held(buckets)))' = KeysOf(Held(buckets))
          BY <1>1 DEF Size, Held, KeysOf
        <4>4. call.key \notin KeysOf(Held(buckets)) \/ key.place # 0
          BY <1>4, <3>2 DEF TablesInv, KeyInv, HasHash
        <4> QED BY <1>1, <2>1, <3>2, <4>1, <4>2, <4>3, <4>4 DEF TablesInv, KeyInv, HasHash
      <3> QED BY <1>1, <3>1, <3>2
    <2>3. at' = "key" \/ at' = "hash"
      BY <2>1
    <2> QED BY <1>1, <1>3, <2>1, <2>2, <2>3, GoOnInv
  <1>5. CASE ~ StateValid(tableState)
    <2>1. tableState \in 0..epoch - 1
      BY <1>2, <1>5 DEF StateValid
    <2>2. CASE at = "while"
      BY <1>1, <1>3, <1>5, <2>1, <2>2, StartRehashInv DEF CheckTable
    <2>3. CASE at = "table"
      <3>1. StartAgain
        BY <1>5, <2>3 DEF CheckTable
      <3> QED BY <1>1, <2>1, <2>3, <3>1, StartAgainInv
    <2> QED BY <1>1, <2>2, <2>3
  <1> QED BY <1>4, <1>5

LEMMA CheckKeyInv ==
  ASSUME TablesInv, CheckKey
  PROVE  TablesInv'
  <1>1. /\ at = "key"
        /\ UNCHANGED <<addr, epoch, tableVars, call, answer, iter>>
        /\ UNCHANGED <<tableState, buckets>>
    BY DEF CheckKey, tableVars
  <1>2. TypeInv /\ tableState \in 0..epoch /\ epoch \in Nat \ {0}
    BY DEF TablesInv, TypeInv
  <1>3. call.op \in KeyOps
    BY <1>1, <1>2 DEF TypeInv, KeyOps
  <1>4. CASE StateValid(key.state)
    <2>1. at' = "do" /\ UNCHANGED <<key, rehash>>
      BY <1>4 DEF CheckKey
    <2>2. KeyInv'
      <3>1. HashRight(call.key, key.id, key.state)'
        BY <1>1, <2>1 DEF TablesInv, KeyInv, HasHash, HashRight
      <3>2. /\ Size' = Size /\ (Held(buckets))' = Held(buckets)
            /\ (KeysOf(Held(buckets)))' = KeysOf(Held(buckets))
        BY <1>1 DEF Size, Held, KeysOf
      <3>3. call.key \notin KeysOf(Held(buckets)) \/ key.place # 0
        BY <1>1 DEF TablesInv, KeyInv, HasHash
      <3> QED BY <1>1, <2>1, <3>1, <3>2, <3>3 DEF TablesInv, KeyInv, HasHash
    <2> QED BY <1>1, <1>3, <2>1, <2>2, GoOnInv
  <1>5. CASE ~ StateValid(key.state)
    <2>1. tableState \in 0..epoch - 1
      BY <1>1, <1>2, <1>5 DEF StateValid, TablesInv, KeyInv, HasHash, Permanent
    <2> QED BY <1>1, <1>5, <2>1, StartAgainInv DEF CheckKey
  <1> QED BY <1>4, <1>5
(* A collection moves every key.  The states that were right are still so, *)
(* for none of them is the new one; and the rehash under way has hashed    *)
(* nothing yet.                                                            *)
LEMMA CollectInv ==
  ASSUME split' = "never", TablesInv, Collect
  PROVE  TablesInv'
  <1>1. /\ ~ rehash.hashed
        /\ addr' \in [Pointers -> Nat] /\ epoch' = epoch + 1
        /\ UNCHANGED <<buckets, states, tableState, tableSize, call, at, key, rehash, answer, iter>>
    <2>1. rehash.hashed => Struck = "now"
      BY DEF Struck
    <2>2. ~ rehash.hashed
      BY <2>1 DEF Collect
    <2>3. /\ addr' \in Placements /\ epoch' = epoch + 1
          /\ UNCHANGED <<tableVars, threadVars, iter>>
      BY DEF Collect
    <2>4. addr' \in [Pointers -> Nat]
      BY <2>3, TablesAssumption DEF Placements
    <2> QED BY <2>2, <2>3, <2>4 DEF tableVars, threadVars
  <1>2. /\ Size' = Size /\ Entries' = Entries /\ (InRehash' <=> InRehash) /\ (HasHash' <=> HasHash)
        /\ Limit' = [b \in DOMAIN buckets |->
                       IF InRehash /\ b < (IF at = "bucket" THEN i ELSE i + 1)
                         THEN IF rehash.hashed THEN epoch' ELSE Permanent
                         ELSE tableState]
        /\ (Finished' <=> Finished) /\ i' = i
    BY <1>1 DEF Size, Entries, InRehash, HasHash, Limit, Finished, i
  <1>3. epoch \in Nat \ {0} /\ epoch' \in Nat \ {0}
    BY <1>1 DEF TablesInv, TypeInv
  <1>4. TypeInv'
    BY <1>1, <1>2, <1>3 DEF TypeInv, TablesInv
  <1>5. RehashInv'
    BY <1>1, <1>2 DEF RehashInv, TablesInv, Held
  <1>6. ASSUME NEW k, NEW id, NEW s, HashRight(k, id, s) PROVE HashRight(k, id, s)'
    BY <1>1, <1>3, <1>6 DEF HashRight
  <1>7. (KeysOf(Entries))' = KeysOf(Entries)
    BY <1>2 DEF KeysOf
  <1>8. EntriesInv'
    BY <1>1, <1>2, <1>6, <1>7 DEF EntriesInv, TablesInv
  <1>9. StatesInv'
    <2>1. Limit' = Limit
      BY <1>1, <1>2 DEF Limit
    <2>2. Covered(buckets, states, Limit)'
      BY <1>1, <2>1 DEF TablesInv, StatesInv
    <2>3. ASSUME InRehash
          PROVE  /\ tableState \in 0..epoch - 1
                 /\ \A e \in Range(rehash.remaining) : e.state \in {Permanent, tableState}
                 /\ rehash.deferred = <<>>
      BY <1>1, <2>3 DEF TablesInv, StatesInv
    <2>4. Range(<<>>) = {}
      BY DEF Range
    <2> QED BY <1>1, <1>2, <1>3, <2>2, <2>3, <2>4 DEF StatesInv
  <1>10. KeyInv'
    <2>1. HasHash => (HashRight(call.key, key.id, key.state))'
      BY <1>1, <1>6 DEF TablesInv, KeyInv
    <2>2. (StateValid(tableState))' => StateValid(tableState)
      BY <1>1, <1>3 DEF StateValid, TablesInv, TypeInv
    <2>3. (Held(buckets))' = Held(buckets) /\ (KeysOf(Held(buckets)))' = KeysOf(Held(buckets))
      BY <1>1 DEF Held, KeysOf
    <2> QED BY <1>1, <1>2, <2>1, <2>2, <2>3 DEF KeyInv, TablesInv
  <1>11. IterInv'
    <2>1. \A b, p : KeysBefore(b, p)' = KeysBefore(b, p)
      BY <1>1 DEF KeysBefore
    <2> QED BY <1>1, <1>2, <1>7, <2>1 DEF IterInv, TablesInv
  <1> QED BY <1>4, <1>5, <1>8, <1>9, <1>10, <1>11 DEF TablesInv
-----------------------------------------------------------------------------
(***************************************************************************)
(* The rehash.                                                             *)
(***************************************************************************)

(* What the steps of a rehash have in common: the key is given up, and the *)
(* iteration in progress needs no more than the keys that there are.       *)
LEMMA RehashStepInv ==
  ASSUME TablesInv, InRehash, InRehash',
         UNCHANGED <<addr, epoch, tableState, tableSize, call, key, answer, iter>>,
         Buckets(buckets', Size), states' \in [0..Size - 1 -> Nat],
         rehash' \in [i : Nat, remaining : Seq(EntrySet), deferred : Seq(EntrySet),
                      hashed : BOOLEAN],
         KeysOf(Entries)' = KeysOf(Entries)
  PROVE  /\ Size' = Size
         /\ TypeInv' /\ KeyInv' /\ IterInv'
         /\ IsFiniteSet(KeysOf(Entries)') /\ tableSize' = Cardinality(KeysOf(Entries)')
  <1>1. Size' = Size
    BY SizeOfBuckets DEF Size
  <1>2. call.op \in KeyOps /\ call \in Calls
    BY DEF TablesInv, TypeInv, InRehash
  <1>3. TypeInv'
    BY <1>1, <1>2 DEF TypeInv, TablesInv, InRehash
  <1>4. KeyInv'
    BY DEF KeyInv, HasHash, InRehash
  <1>5. IterInv'
    BY DEF IterInv, TablesInv, InRehash
  <1>6. IsFiniteSet(KeysOf(Entries)') /\ tableSize' = Cardinality(KeysOf(Entries)')
    BY DEF TablesInv, EntriesInv
  <1> QED BY <1>1, <1>3, <1>4, <1>5, <1>6

(* A rehash that has the same entries as before. *)
(* The mapping that a set of entries makes, one for each key. *)
MapOf(es) == [k \in KeysOf(es) |-> (CHOOSE e \in es : e.key = k).elt]
OneEach(es) == \A e, f \in es : e.key = f.key => e = f

LEMMA MapElements ==
  ASSUME NEW es, OneEach(es)
  PROVE  /\ DOMAIN MapOf(es) = KeysOf(es)
         /\ \A e \in es : e.key \in KeysOf(es) /\ MapOf(es)[e.key] = e.elt
  <1>1. ASSUME NEW e \in es PROVE e.key \in KeysOf(es) /\ MapOf(es)[e.key] = e.elt
    <2>1. e.key \in KeysOf(es)
      BY DEF KeysOf
    <2>2. (CHOOSE f \in es : f.key = e.key) = e
      <3>1. \E f \in es : f.key = e.key
        OBVIOUS
      <3> DEFINE g == CHOOSE f \in es : f.key = e.key
      <3>2. g \in es /\ g.key = e.key
        BY <3>1
      <3> HIDE DEF g
      <3>3. g = e
        BY <3>2 DEF OneEach
      <3> QED BY <3>3 DEF g
    <2> QED BY <2>1, <2>2 DEF MapOf
  <1> QED BY <1>1 DEF MapOf

LEMMA SameMap ==
  ASSUME NEW es, NEW fs, OneEach(es), OneEach(fs),
         \A e \in es : \E f \in fs : f.key = e.key /\ f.elt = e.elt,
         \A f \in fs : \E e \in es : f.key = e.key /\ f.elt = e.elt
  PROVE  MapOf(es) = MapOf(fs)
  <1>1. KeysOf(es) = KeysOf(fs)
    BY DEF KeysOf
  <1>2. ASSUME NEW k \in KeysOf(es) PROVE MapOf(es)[k] = MapOf(fs)[k]
    <2>1. PICK e \in es : e.key = k
      BY DEF KeysOf
    <2>2. PICK f \in fs : f.key = k /\ f.elt = e.elt
      BY <2>1
    <2> QED BY <2>1, <2>2, MapElements
  <1>3. /\ MapOf(es) = [k \in KeysOf(es) |-> MapOf(es)[k]]
        /\ MapOf(fs) = [k \in KeysOf(fs) |-> MapOf(fs)[k]]
    BY DEF MapOf
  <1> QED BY <1>1, <1>2, <1>3

LEMMA ContentsMap ==
  Contents = MapOf(Entries)
  BY DEF Contents, MapOf, KeysOf

LEMMA SameEntries ==
  ASSUME TablesInv, UNCHANGED <<addr, epoch, tableSize>>, Entries' = Entries
  PROVE  KeysOf(Entries)' = KeysOf(Entries) /\ EntriesInv' /\ Contents' = Contents
  <1>1. KeysOf(Entries)' = KeysOf(Entries)
    BY DEF KeysOf
  <1>3. Contents' = Contents
    BY DEF Contents
  <1>2. \A e \in Entries : HashRight(e.key, e.id, e.state)'
    BY DEF TablesInv, EntriesInv, HashRight
  <1> QED BY <1>1, <1>2, <1>3 DEF EntriesInv, TablesInv

LEMMA RehashTyped ==
  ASSUME TypeInv
  PROVE  /\ rehash.i \in Nat /\ i = rehash.i
         /\ rehash.remaining \in Seq(EntrySet) /\ rehash.deferred \in Seq(EntrySet)
         /\ rehash.hashed \in BOOLEAN
         /\ rehash = [i |-> rehash.i, remaining |-> rehash.remaining,
                      deferred |-> rehash.deferred, hashed |-> rehash.hashed]
  BY DEF TypeInv, i
(* What is known during a rehash. *)
LEMMA RehashParts ==
  ASSUME TablesInv, InRehash
  PROVE  /\ TypeInv /\ Size \in Nat \ {0} /\ DOMAIN buckets = 0..Size - 1
         /\ Buckets(buckets, Size) /\ states \in [0..Size - 1 -> Nat]
         /\ epoch \in Nat \ {0} /\ tableState \in 0..epoch - 1
         /\ i \in 0..Size /\ i = rehash.i /\ (at # "bucket" => i < Size)
         /\ at = "bucket" => rehash.remaining = <<>>
         /\ rehash.remaining \in Seq(EntrySet) /\ rehash.deferred \in Seq(EntrySet)
         /\ IsQueue(rehash.remaining) /\ IsQueue(rehash.deferred)
         /\ rehash.hashed \in BOOLEAN
         /\ Entries = Held(buckets) \cup Range(rehash.remaining) \cup Range(rehash.deferred)
         /\ Covered(buckets, states, Limit)
  <1>1. TypeInv
    BY DEF TablesInv
  <1>2. Size \in Nat \ {0} /\ DOMAIN buckets = 0..Size - 1 /\ Buckets(buckets, Size)
    BY <1>1, TableParts
  <1>3. epoch \in Nat \ {0} /\ states \in [0..Size - 1 -> Nat]
    BY <1>1 DEF TypeInv
  <1>4. /\ i = rehash.i /\ rehash.remaining \in Seq(EntrySet) /\ rehash.deferred \in Seq(EntrySet)
        /\ rehash.hashed \in BOOLEAN
    BY <1>1, RehashTyped
  <1>5. /\ tableState \in 0..epoch - 1 /\ Covered(buckets, states, Limit)
    BY DEF TablesInv, StatesInv
  <1>6. /\ i \in 0..Size /\ (at # "bucket" => i < Size) /\ (at = "bucket" => rehash.remaining = <<>>)
        /\ IsQueue(rehash.remaining) /\ IsQueue(rehash.deferred)
    BY DEF TablesInv, RehashInv
  <1>7. Entries = Held(buckets) \cup Range(rehash.remaining) \cup Range(rehash.deferred)
    BY DEF Entries, Held
  <1> QED BY <1>1, <1>2, <1>3, <1>4, <1>5, <1>6, <1>7

LEMMA RehashLimit ==
  ASSUME TablesInv, InRehash
  PROVE  \A b \in 0..Size - 1 :
           Limit[b] = IF b < (IF at = "bucket" THEN i ELSE i + 1)
                        THEN IF rehash.hashed THEN epoch ELSE Permanent
                        ELSE tableState
  <1>1. DOMAIN buckets = 0..Size - 1
    BY TableParts DEF TablesInv
  <1> QED BY <1>1 DEF Limit

(* What a rehash holds, made anew. *)
LEMMA RehashMade ==
  ASSUME NEW n \in Nat, NEW q \in Seq(EntrySet), NEW d \in Seq(EntrySet), NEW h \in BOOLEAN
  PROVE  [i |-> n, remaining |-> q, deferred |-> d, hashed |-> h]
           \in [i : Nat, remaining : Seq(EntrySet), deferred : Seq(EntrySet), hashed : BOOLEAN]
  OBVIOUS

(* The buckets that are passed over on the way to the next are those that  *)
(* hold nothing volatile.                                                  *)
LEMMA NextBucketInv ==
  ASSUME TablesInv, InRehash, i < Size, rehash.remaining = <<>>, at' = "bucket",
         at = "bucket" => states[i] = Permanent,
         rehash' = [rehash EXCEPT !.i = NextBucket(i + 1)],
         UNCHANGED <<addr, epoch, buckets, states, tableState, tableSize, call, key, answer, iter>>
  PROVE  TablesInv' /\ Contents' = Contents
  <1> DEFINE next == NextBucket(i + 1)
  <1>1. /\ TypeInv /\ Size \in Nat \ {0} /\ DOMAIN buckets = 0..Size - 1
        /\ Buckets(buckets, Size) /\ states \in [0..Size - 1 -> Nat]
        /\ epoch \in Nat \ {0} /\ tableState \in 0..epoch - 1 /\ i \in 0..Size - 1 /\ i = rehash.i
    BY RehashParts
  <1>2. next \in i + 1..Size /\ \A d \in i + 1..next - 1 : states[d] = Permanent
    <2>1. i + 1 \in Nat /\ i + 1 <= Size /\ Size \in Nat
      BY <1>1
    <2> HIDE DEF i
    <2> QED BY <2>1, NextBucketFound
  <1> HIDE DEF next
  <1>3. /\ rehash'.i = next /\ rehash'.remaining = <<>> /\ rehash'.deferred = rehash.deferred
        /\ rehash'.hashed = rehash.hashed
        /\ rehash' \in [i : Nat, remaining : Seq(EntrySet), deferred : Seq(EntrySet),
                        hashed : BOOLEAN]
    <2>1. rehash' = [i |-> next, remaining |-> <<>>, deferred |-> rehash.deferred,
                     hashed |-> rehash.hashed]
      BY <1>1, RehashTyped DEF next
    <2>2. next \in Nat /\ <<>> \in Seq(EntrySet) /\ rehash.deferred \in Seq(EntrySet)
          /\ rehash.hashed \in BOOLEAN
      BY <1>1, <1>2, RehashTyped
    <2>3. rehash' \in [i : Nat, remaining : Seq(EntrySet), deferred : Seq(EntrySet),
                       hashed : BOOLEAN]
      <3>1. [i |-> next, remaining |-> <<>>, deferred |-> rehash.deferred, hashed |-> rehash.hashed]
              \in [i : Nat, remaining : Seq(EntrySet), deferred : Seq(EntrySet), hashed : BOOLEAN]
        BY <2>2, RehashMade
      <3> QED BY <2>1, <3>1, Zenon
    <2> QED BY <2>1, <2>3
  <1>4. InRehash' /\ i' = next
    BY <1>3 DEF InRehash, i
  <1>5. Entries' = Entries
    BY <1>3 DEF Entries
  <1>6. KeysOf(Entries)' = KeysOf(Entries) /\ EntriesInv' /\ Contents' = Contents
    BY <1>5, SameEntries
  <1>7. Size' = Size /\ TypeInv' /\ KeyInv' /\ IterInv'
    BY <1>1, <1>3, <1>4, <1>6, RehashStepInv
  <1>8. RehashInv'
    <2>1. i' \in 0..Size'
      BY <1>1, <1>2, <1>4, <1>7
    <2>2. Range(<<>>) = {} /\ IsQueue(<<>>)
      BY DEF Range, IsQueue, IsInjective
    <2>3. Held(buckets)' = Held(buckets)
      BY DEF Held
    <2> QED BY <1>3, <1>4, <2>1, <2>2, <2>3 DEF RehashInv, TablesInv
  <1>9. StatesInv'
    <2>1. Covered(buckets, states, Limit)
          /\ \A b \in 0..Size - 1 :
               Limit[b] = IF b < (IF at = "bucket" THEN i ELSE i + 1)
                            THEN IF rehash.hashed THEN epoch ELSE Permanent
                            ELSE tableState
      BY RehashParts, RehashLimit
    <2>2. \A b \in 0..Size - 1 :
            Limit'[b] = IF b < next THEN IF rehash.hashed THEN epoch ELSE Permanent
                        ELSE tableState
      BY <1>1, <1>3, <1>4 DEF Limit
    <2>3. \A b \in 0..Size - 1 : Limit'[b] = Limit[b] \/ states[b] = Permanent
      BY <1>1, <1>2, <2>1, <2>2, SMTT(30)
    <2>4. Covered(buckets, states, Limit')
      BY <1>1, <2>1, <2>3 DEF Covered
    <2>5. Covered(buckets, states, Limit)'
      BY <2>4
    <2>6. Range(<<>>) = {}
      BY DEF Range
    <2> QED BY <1>3, <1>4, <2>5, <2>6 DEF StatesInv, TablesInv
  <1> QED BY <1>6, <1>7, <1>8, <1>9 DEF TablesInv

LEMMA RehashBucketInv ==
  ASSUME TablesInv, RehashBucket
  PROVE  TablesInv' /\ Contents' = Contents
  <1>1. /\ at = "bucket" /\ i < Size
        /\ UNCHANGED <<addr, epoch, tableState, tableSize, call, key, answer, iter>>
    BY DEF RehashBucket
  <1>2. InRehash
    BY <1>1 DEF InRehash
  <1>3. /\ TypeInv /\ Size \in Nat \ {0} /\ DOMAIN buckets = 0..Size - 1
        /\ Buckets(buckets, Size) /\ states \in [0..Size - 1 -> Nat]
        /\ epoch \in Nat \ {0} /\ tableState \in 0..epoch - 1 /\ i \in 0..Size - 1 /\ i = rehash.i
        /\ rehash.remaining = <<>>
        /\ Entries = Held(buckets) \cup Range(rehash.remaining) \cup Range(rehash.deferred)
        /\ Covered(buckets, states, Limit)
    BY <1>1, <1>2, RehashParts
  <1>6. \A b \in 0..Size - 1 :
          Limit[b] = IF b < i THEN IF rehash.hashed THEN epoch ELSE Permanent ELSE tableState
    BY <1>1, <1>2, RehashLimit
  <1>4. CASE StateValid(states[i])
    <2>1. states[i] = Permanent
      <3>1. states[i] \in {Permanent, tableState}
        BY <1>3, <1>6 DEF Covered
      <3> QED BY <1>3, <1>4, <3>1 DEF StateValid
    <2>2. rehash' = [rehash EXCEPT !.i = NextBucket(i + 1)] /\ UNCHANGED <<buckets, states, at>>
      BY <1>4 DEF RehashBucket
    <2> QED BY <1>1, <1>2, <1>3, <2>1, <2>2, NextBucketInv
  <1>5. CASE ~ StateValid(states[i])
    <2>1. /\ states' = [states EXCEPT ![i] = Permanent] /\ buckets' = [buckets EXCEPT ![i] = <<>>]
          /\ rehash' = [rehash EXCEPT !.remaining = buckets[i]] /\ at' = "entry"
      BY <1>5 DEF RehashBucket
    <2>2. /\ rehash'.i = i /\ rehash'.remaining = buckets[i] /\ rehash'.deferred = rehash.deferred
          /\ rehash'.hashed = rehash.hashed
          /\ rehash' \in [i : Nat, remaining : Seq(EntrySet), deferred : Seq(EntrySet),
                          hashed : BOOLEAN]
      <3>1. rehash' = [i |-> i, remaining |-> buckets[i], deferred |-> rehash.deferred,
                       hashed |-> rehash.hashed]
        BY <1>3, <2>1, RehashTyped
      <3>2. i \in Nat /\ buckets[i] \in Seq(EntrySet) /\ rehash.deferred \in Seq(EntrySet)
            /\ rehash.hashed \in BOOLEAN
        BY <1>3, RehashTyped, TableParts
      <3> QED BY <3>1, <3>2
    <2>3. InRehash' /\ i' = i
      BY <2>1, <2>2 DEF InRehash, i
    <2>4. /\ <<>> \in Seq(EntrySet) /\ Range(<<>>) = {} /\ IsQueue(<<>>)
          /\ \A e \in Range(<<>>) : e.id % Size = i
      BY DEF Range, IsQueue, IsInjective
    <2>5. Buckets(buckets', Size) /\ Held(buckets') = Held(buckets) \ Range(buckets[i])
      <3>1. ButFor(buckets', buckets, i, Size) /\ buckets'[i] = <<>>
            /\ InBucket(buckets'[i], i, Size)
        BY <1>3, <2>1, <2>4 DEF Buckets, ButFor, InBucket
      <3>2. /\ Buckets(buckets', Size)
            /\ Held(buckets') = (Held(buckets) \ Range(buckets[i])) \cup Range(buckets'[i])
        <4>1. Buckets(buckets, Size) /\ i \in 0..Size - 1
          BY <1>3
        <4> QED BY ONLY <3>1, <4>1, BucketChanged
      <3> QED BY <2>4, <3>1, <3>2
    <2>6. Range(buckets[i]) \subseteq Held(buckets) /\ IsQueue(buckets[i])
          /\ \A e \in Range(buckets[i]) : e.id % Size = i
      BY <1>3, TableParts
    <2>7. Entries' = Entries
      <3>1. Entries' = Held(buckets') \cup Range(buckets[i]) \cup Range(rehash.deferred)
        <4>1. Entries' = Held(buckets') \cup Range(rehash'.remaining) \cup Range(rehash'.deferred)
          BY DEF Entries, Held
        <4> QED BY <2>2, <4>1, Zenon
      <3>2. Range(rehash.remaining) = {}
        BY <1>3, <2>4
      <3>3. Entries = Held(buckets) \cup Range(rehash.deferred)
        BY <1>3, <3>2
      <3> QED BY <2>5, <2>6, <3>1, <3>3
    <2>8. KeysOf(Entries)' = KeysOf(Entries) /\ EntriesInv' /\ Contents' = Contents
      BY <1>1, <2>7, SameEntries
    <2>9. states' \in [0..Size - 1 -> Nat]
          /\ \A b \in 0..Size - 1 : states'[b] = IF b = i THEN Permanent ELSE states[b]
      BY <1>3, <2>1 DEF Permanent
    <2>10. Size' = Size /\ TypeInv' /\ KeyInv' /\ IterInv'
      BY <1>1, <1>2, <2>2, <2>3, <2>5, <2>8, <2>9, RehashStepInv
    <2>11. RehashInv'
      <3>1. /\ IsQueue(rehash.deferred) /\ Range(rehash.deferred) \cap Held(buckets) = {}
        BY <1>2 DEF TablesInv, RehashInv
      <3>2. Held(buckets)' = Held(buckets')
        BY DEF Held
      <3>3. i' \in 0..Size' /\ i' < Size'
        BY <1>3, <2>3, <2>10
      <3>4. /\ IsQueue(rehash'.remaining) /\ IsQueue(rehash'.deferred)
            /\ Range(rehash'.remaining) \cap Held(buckets)' = {}
            /\ Range(rehash'.deferred) \cap Held(buckets)' = {}
            /\ Range(rehash'.deferred) \cap Range(rehash'.remaining) = {}
        BY <2>2, <2>5, <2>6, <3>1, <3>2
      <3>5. \A e \in Range(rehash'.remaining) : e.id % Size' = i'
        BY <2>2, <2>3, <2>6, <2>10
      <3> QED BY <2>1, <2>3, <3>3, <3>4, <3>5 DEF RehashInv
    <2>12. StatesInv'
      <3>1. DOMAIN buckets' = 0..Size - 1 /\ buckets'[i] = <<>>
            /\ \A b \in 0..Size - 1 : b # i => buckets'[b] = buckets[b]
        BY <1>3, <2>1
      <3>2. \A b \in 0..Size - 1 : b # i => Limit'[b] = Limit[b]
        BY <1>1, <1>3, <1>6, <2>1, <2>2, <2>3, <3>1 DEF Limit
      <3>3. Covered(buckets', states', Limit')
        BY <1>3, <1>6, <2>4, <2>9, <3>1, <3>2 DEF Covered
      <3>4. Covered(buckets, states, Limit)'
        BY <3>3 DEF Covered
      <3>5. \A e \in Range(buckets[i]) : e.state \in {Permanent, tableState}
        BY <1>3, <1>6 DEF Covered
      <3> QED BY <1>1, <1>2, <2>2, <2>3, <3>4, <3>5 DEF StatesInv, TablesInv
    <2> QED BY <2>8, <2>10, <2>11, <2>12 DEF TablesInv
  <1> QED BY <1>4, <1>5
(* The table with an entry put before those of bucket b. *)
LEMMA PutBeforeInto ==
  ASSUME TypeInv, NEW e \in EntrySet, NEW b \in 0..Size - 1,
         buckets' = [buckets EXCEPT ![b] = <<e>> \o @],
         states' = [states EXCEPT ![b] = Merge(e.state, @)]
  PROVE  PutBefore(buckets', states', buckets, states, e, b, Size) /\ states' \in [0..Size - 1 -> Nat]
  <1>1. buckets \in [0..Size - 1 -> Seq(EntrySet)] /\ states \in [0..Size - 1 -> Nat]
    BY DEF TypeInv, Buckets
  <1>2. <<e>> \o buckets[b] \in Seq(EntrySet)
    BY <1>1
  <1>3. Merge(e.state, states[b]) \in Nat
    BY <1>1 DEF Merge, EntrySet
  <1> QED BY <1>1, <1>2, <1>3 DEF PutBefore, ButFor

(* An entry that is hashed again keeps its key. *)
LEMMA EntryReplaced ==
  ASSUME TablesInv, UNCHANGED <<addr, epoch, tableSize>>, NEW old \in Entries, NEW e,
         e.key = old.key, HashRight(e.key, e.id, e.state),
         Entries' = (Entries \ {old}) \cup {e}
  PROVE  /\ KeysOf(Entries)' = KeysOf(Entries) /\ EntriesInv'
         /\ e.elt = old.elt => Contents' = Contents
  <1>1. KeysOf(Entries') = KeysOf(Entries)
    BY DEF KeysOf
  <1>2. KeysOf(Entries)' = KeysOf(Entries)
    BY <1>1 DEF KeysOf
  <1>3. \A f \in Entries : HashRight(f.key, f.id, f.state)' /\ \A g \in Entries : f.key = g.key => f = g
    BY DEF TablesInv, EntriesInv, HashRight
  <1>4. HashRight(e.key, e.id, e.state)'
    BY DEF HashRight
  <1>5. \A f, g \in Entries' : f.key = g.key => f = g
    BY <1>3
  <1>6. ASSUME e.elt = old.elt PROVE Contents' = Contents
    <2>1. OneEach(Entries) /\ OneEach(Entries')
      BY <1>3, <1>5 DEF OneEach
    <2>2. MapOf(Entries') = MapOf(Entries)
      BY <1>6, <2>1, SameMap
    <2>3. Contents' = MapOf(Entries')
      BY DEF Contents, MapOf, KeysOf
    <2> QED BY <2>2, <2>3, ContentsMap
  <1> QED BY <1>2, <1>3, <1>4, <1>5, <1>6 DEF EntriesInv, TablesInv

LEMMA RehashEntryInv ==
  ASSUME TablesInv, RehashEntry
  PROVE  TablesInv' /\ Contents' = Contents
  <1>1. /\ at = "entry"
        /\ UNCHANGED <<addr, epoch, tableState, tableSize, call, key, answer, iter>>
    BY DEF RehashEntry
  <1>2. InRehash
    BY <1>1 DEF InRehash
  <1>3. /\ TypeInv /\ Size \in Nat \ {0} /\ DOMAIN buckets = 0..Size - 1
        /\ Buckets(buckets, Size) /\ states \in [0..Size - 1 -> Nat]
        /\ epoch \in Nat \ {0} /\ tableState \in 0..epoch - 1 /\ i \in 0..Size - 1 /\ i = rehash.i
        /\ rehash.remaining \in Seq(EntrySet) /\ rehash.deferred \in Seq(EntrySet)
        /\ IsQueue(rehash.remaining) /\ IsQueue(rehash.deferred)
        /\ rehash.hashed \in BOOLEAN
        /\ Entries = Held(buckets) \cup Range(rehash.remaining) \cup Range(rehash.deferred)
        /\ Covered(buckets, states, Limit)
    BY <1>1, <1>2, RehashParts
  <1>4. \A b \in 0..Size - 1 :
          Limit[b] = IF b < i + 1 THEN IF rehash.hashed THEN epoch ELSE Permanent ELSE tableState
    BY <1>1, <1>2, RehashLimit
  <1>5. CASE rehash.remaining = <<>>
    <2>1. at' = "bucket" /\ rehash' = [rehash EXCEPT !.i = NextBucket(i + 1)]
          /\ UNCHANGED <<buckets, states>>
      BY <1>5 DEF RehashEntry
    <2> QED BY <1>1, <1>2, <1>3, <1>5, <2>1, NextBucketInv
  <1> DEFINE e == Head(rehash.remaining)
  <1>6. CASE rehash.remaining # <<>> /\ StateValid(e.state)
    <2>1. /\ buckets' = [buckets EXCEPT ![i] = <<e>> \o @]
          /\ states' = [states EXCEPT ![i] = Merge(e.state, @)]
          /\ rehash' = [rehash EXCEPT !.remaining = Tail(@)] /\ at' = at
      BY <1>6 DEF RehashEntry
    <2>2. /\ e \in Range(rehash.remaining) /\ e \in EntrySet
          /\ Tail(rehash.remaining) \in Seq(EntrySet) /\ IsQueue(Tail(rehash.remaining))
          /\ Range(Tail(rehash.remaining)) = Range(rehash.remaining) \ {e}
      BY <1>3, <1>6, TailQueue
    <2> HIDE DEF e
    <2>3. /\ rehash'.i = i /\ rehash'.remaining = Tail(rehash.remaining)
          /\ rehash'.deferred = rehash.deferred /\ rehash'.hashed = rehash.hashed
          /\ rehash' \in [i : Nat, remaining : Seq(EntrySet), deferred : Seq(EntrySet),
                          hashed : BOOLEAN]
      <3>1. rehash' = [i |-> i, remaining |-> Tail(rehash.remaining), deferred |-> rehash.deferred,
                       hashed |-> rehash.hashed]
        BY <1>3, <2>1, RehashTyped
      <3>2. [i |-> i, remaining |-> Tail(rehash.remaining), deferred |-> rehash.deferred,
             hashed |-> rehash.hashed]
              \in [i : Nat, remaining : Seq(EntrySet), deferred : Seq(EntrySet), hashed : BOOLEAN]
        BY <1>3, <2>2, RehashMade
      <3> QED BY <3>1, <3>2
    <2>4. InRehash' /\ i' = i
      BY <1>1, <2>1, <2>3 DEF InRehash, i
    <2>5. /\ e.id % Size = i
          /\ Range(rehash.remaining) \cap Held(buckets) = {}
          /\ Range(rehash.deferred) \cap Held(buckets) = {}
          /\ Range(rehash.deferred) \cap Range(rehash.remaining) = {}
          /\ \A f \in Range(rehash.remaining) : f.id % Size = i
      BY <1>2, <2>2 DEF TablesInv, RehashInv
    <2>6. e \notin Held(buckets)
      BY <2>2, <2>5
    <2>7. e.state = Permanent
      <3>1. e.state \in {Permanent, tableState}
        BY <1>2, <2>2 DEF TablesInv, StatesInv
      <3> QED BY <1>3, <1>6, <3>1 DEF StateValid
    <2>8. PutBefore(buckets', states', buckets, states, e, i, Size) /\ states' \in [0..Size - 1 -> Nat]
      BY <1>3, <2>1, <2>2, PutBeforeInto
    <2>9. WiderLimit(Limit, Limit, Size)
      BY <1>3, <1>4 DEF Permanent, WiderLimit
    <2>10. Buckets(buckets', Size) /\ Held(buckets') = Held(buckets) \cup {e}
           /\ Covered(buckets', states', Limit)
      <3>1. e.state \in {Permanent, Limit[i]} /\ e.id % Size = i
        BY <2>5, <2>7
      <3> QED BY <1>3, <2>2, <2>6, <2>8, <2>9, <3>1, EntryPut
    <2>11. Entries' = Entries
      <3>1. Entries' = Held(buckets') \cup Range(rehash'.remaining) \cup Range(rehash'.deferred)
        BY DEF Entries, Held
      <3> QED BY <1>3, <2>2, <2>3, <2>10, <3>1
    <2>12. KeysOf(Entries)' = KeysOf(Entries) /\ EntriesInv' /\ Contents' = Contents
      BY <1>1, <2>11, SameEntries
    <2>13. Size' = Size /\ TypeInv' /\ KeyInv' /\ IterInv'
      BY <1>1, <1>2, <2>3, <2>4, <2>8, <2>10, <2>12, RehashStepInv
    <2>14. RehashInv'
      <3>1. Held(buckets)' = Held(buckets) \cup {e}
        BY <2>10 DEF Held
      <3>2. /\ IsQueue(rehash'.remaining) /\ IsQueue(rehash'.deferred)
            /\ Range(rehash'.remaining) \cap Held(buckets)' = {}
            /\ Range(rehash'.deferred) \cap Held(buckets)' = {}
            /\ Range(rehash'.deferred) \cap Range(rehash'.remaining) = {}
        BY <1>3, <2>2, <2>3, <2>5, <3>1
      <3>3. \A f \in Range(rehash'.remaining) : f.id % Size' = i'
        BY <2>2, <2>3, <2>4, <2>5, <2>13
      <3>4. i' \in 0..Size' /\ i' < Size'
        BY <1>3, <2>4, <2>13
      <3> QED BY <1>1, <2>1, <2>4, <3>2, <3>3, <3>4 DEF RehashInv
    <2>15. StatesInv'
      <3>1. DOMAIN buckets' = DOMAIN buckets
        BY <2>1
      <3>2. Limit' = Limit
        BY <1>1, <1>2, <2>1, <2>3, <2>4, <3>1 DEF Limit
      <3>3. Covered(buckets, states, Limit)'
        BY <2>10, <3>2 DEF Covered
      <3>4. /\ tableState \in 0..epoch - 1
            /\ \A f \in Range(rehash.remaining) : f.state \in {Permanent, tableState}
            /\ \A f \in Range(rehash.deferred) : f.state \in {Permanent, epoch}
            /\ ~ rehash.hashed => rehash.deferred = <<>>
        BY <1>2 DEF TablesInv, StatesInv
      <3> QED BY <1>1, <2>2, <2>3, <2>4, <3>3, <3>4 DEF StatesInv
    <2> QED BY <2>12, <2>13, <2>14, <2>15 DEF TablesInv
  <1>7. CASE rehash.remaining # <<>> /\ ~ StateValid(e.state)
    <2>1. at' = "rehash" /\ UNCHANGED <<buckets, states, rehash>>
      BY <1>7 DEF RehashEntry
    <2>2. InRehash' /\ Entries' = Entries /\ Limit' = Limit /\ i' = i /\ Held(buckets)' = Held(buckets)
      BY <1>1, <1>2, <2>1 DEF InRehash, Entries, Limit, i, Held
    <2>3. KeysOf(Entries)' = KeysOf(Entries) /\ EntriesInv' /\ Contents' = Contents
      BY <1>1, <2>2, SameEntries
    <2>4. rehash \in [i : Nat, remaining : Seq(EntrySet), deferred : Seq(EntrySet),
                      hashed : BOOLEAN]
      BY <1>3 DEF TypeInv
    <2>5. Size' = Size /\ TypeInv' /\ KeyInv' /\ IterInv'
      BY <1>1, <1>2, <1>3, <2>1, <2>2, <2>3, <2>4, RehashStepInv
    <2>6. RehashInv'
      BY <1>1, <1>2, <1>7, <2>1, <2>2, <2>5 DEF RehashInv, TablesInv
    <2>7. StatesInv'
      <3>1. Covered(buckets, states, Limit)'
        BY <1>3, <2>1, <2>2
      <3> QED BY <1>1, <1>2, <2>1, <2>2, <3>1 DEF StatesInv, TablesInv
    <2> QED BY <2>3, <2>5, <2>6, <2>7 DEF TablesInv
  <1> QED BY <1>5, <1>6, <1>7
(* The entry that a rehash has hashed again. *)
Rehashed(old) == [old EXCEPT !.id = HashId(old.key), !.state = HashState(old.key, Permanent)]

LEMMA RehashedEntry ==
  ASSUME TablesInv, NEW old \in EntrySet
  PROVE  /\ Rehashed(old) \in EntrySet /\ Rehashed(old).key = old.key
         /\ Rehashed(old).elt = old.elt
         /\ Rehashed(old).state \in {Permanent, epoch}
         /\ HashRight(Rehashed(old).key, Rehashed(old).id, Rehashed(old).state)
  <1> DEFINE id == HashId(old.key)
             st == HashState(old.key, Permanent)
  <1>1. TypeInv /\ old.key \in Keys /\ Permanent \in 0..epoch /\ epoch \in Nat
    BY DEF TablesInv, TypeInv, EntrySet, Permanent
  <1>2. id \in Nat /\ st \in 0..epoch /\ HashRight(old.key, id, st) /\ st \in {Permanent, epoch}
    BY <1>1, GoodHash
  <1> HIDE DEF id, st
  <1>3. Rehashed(old) = [key |-> old.key, elt |-> old.elt, id |-> id, state |-> st]
    <2>1. old = [key |-> old.key, elt |-> old.elt, id |-> old.id, state |-> old.state]
      BY DEF EntrySet
    <2>2. Rehashed(old) = [old EXCEPT !.id = id, !.state = st]
      BY DEF Rehashed, id, st
    <2> QED BY <2>1, <2>2
  <1>4. old.elt \in Elts
    BY DEF EntrySet
  <1>5. Rehashed(old) \in EntrySet
    BY <1>1, <1>2, <1>3, <1>4 DEF EntrySet
  <1> QED BY <1>2, <1>3, <1>5

LEMMA RehashHashInv ==
  ASSUME TablesInv, RehashHash
  PROVE  TablesInv' /\ Contents' = Contents
  <1> DEFINE old == Head(rehash.remaining)
             e == Rehashed(old)
             b == e.id % Size
             put == [rehash EXCEPT !.remaining = Tail(@), !.hashed = TRUE]
  <1>1. /\ at = "rehash" /\ at' = "entry"
        /\ UNCHANGED <<addr, epoch, tableState, tableSize, call, key, answer, iter>>
        /\ IF b <= i
             THEN /\ buckets' = [buckets EXCEPT ![b] = <<e>> \o @]
                  /\ states' = [states EXCEPT ![b] = Merge(e.state, @)]
                  /\ rehash' = put
             ELSE /\ rehash' = [put EXCEPT !.deferred = <<e>> \o @]
                  /\ UNCHANGED <<buckets, states>>
    BY DEF RehashHash, Rehashed
  <1>2. InRehash
    BY <1>1 DEF InRehash
  <1>3. /\ TypeInv /\ Size \in Nat \ {0} /\ DOMAIN buckets = 0..Size - 1
        /\ Buckets(buckets, Size) /\ states \in [0..Size - 1 -> Nat]
        /\ epoch \in Nat \ {0} /\ tableState \in 0..epoch - 1 /\ i \in 0..Size - 1 /\ i = rehash.i
        /\ rehash.remaining \in Seq(EntrySet) /\ rehash.deferred \in Seq(EntrySet)
        /\ IsQueue(rehash.remaining) /\ IsQueue(rehash.deferred)
        /\ rehash.hashed \in BOOLEAN
        /\ Entries = Held(buckets) \cup Range(rehash.remaining) \cup Range(rehash.deferred)
        /\ Covered(buckets, states, Limit)
    <2> HIDE DEF old, e, b, put
    <2>1. i < Size
      BY <1>1, <1>2, RehashParts
    <2>2. i \in 0..Size /\ Size \in Nat
      BY <1>2, RehashParts
    <2>3. i \in 0..Size - 1
      BY <2>1, <2>2
    <2> QED BY <1>2, <2>3, RehashParts
  <1>4. \A c \in 0..Size - 1 :
          Limit[c] = IF c < i + 1 THEN IF rehash.hashed THEN epoch ELSE Permanent ELSE tableState
    BY <1>1, <1>2, RehashLimit
  <1>5. rehash.remaining # <<>>
    BY <1>1, <1>2 DEF TablesInv, RehashInv
  <1>6. /\ old \in Range(rehash.remaining) /\ old \in EntrySet
        /\ Tail(rehash.remaining) \in Seq(EntrySet) /\ IsQueue(Tail(rehash.remaining))
        /\ Range(Tail(rehash.remaining)) = Range(rehash.remaining) \ {old}
    BY <1>3, <1>5, TailQueue
  <1> HIDE DEF old
  <1>7. /\ e \in EntrySet /\ e.key = old.key /\ e.elt = old.elt /\ e.state \in {Permanent, epoch}
        /\ HashRight(e.key, e.id, e.state)
    BY <1>6, RehashedEntry
  <1> HIDE DEF e
  <1>8. b \in 0..Size - 1
    BY <1>3, <1>7, Remainder DEF EntrySet
  <1> HIDE DEF b
  <1>9. /\ Range(rehash.remaining) \cap Held(buckets) = {}
        /\ Range(rehash.deferred) \cap Held(buckets) = {}
        /\ Range(rehash.deferred) \cap Range(rehash.remaining) = {}
        /\ \A f \in Range(rehash.remaining) : f.id % Size = i
    BY <1>2 DEF TablesInv, RehashInv
  <1>10. old \in Entries /\ \A f \in Entries : f.key = old.key => f = old
    BY <1>3, <1>6 DEF TablesInv, EntriesInv
  <1>11. /\ e \notin Held(buckets) /\ e \notin Range(rehash.deferred)
         /\ e \notin Range(rehash.remaining) \ {old}
    BY <1>3, <1>6, <1>7, <1>9, <1>10
  <1>12. /\ tableState \in 0..epoch - 1
         /\ \A f \in Range(rehash.remaining) : f.state \in {Permanent, tableState}
         /\ \A f \in Range(rehash.deferred) : f.state \in {Permanent, epoch}
    BY <1>2 DEF TablesInv, StatesInv
  <1>13. CASE b <= i
    <2>1. /\ buckets' = [buckets EXCEPT ![b] = <<e>> \o @]
          /\ states' = [states EXCEPT ![b] = Merge(e.state, @)]
          /\ rehash' = put
      BY <1>1, <1>13
    <2>2. /\ rehash'.i = i /\ rehash'.remaining = Tail(rehash.remaining)
          /\ rehash'.deferred = rehash.deferred /\ rehash'.hashed = TRUE
          /\ rehash' \in [i : Nat, remaining : Seq(EntrySet), deferred : Seq(EntrySet),
                          hashed : BOOLEAN]
      <3>1. rehash' = [i |-> i, remaining |-> Tail(rehash.remaining), deferred |-> rehash.deferred,
                       hashed |-> TRUE]
        BY <1>3, <2>1, RehashTyped
      <3>2. [i |-> i, remaining |-> Tail(rehash.remaining), deferred |-> rehash.deferred,
             hashed |-> TRUE]
              \in [i : Nat, remaining : Seq(EntrySet), deferred : Seq(EntrySet), hashed : BOOLEAN]
        BY <1>3, <1>6, RehashMade
      <3> QED BY <3>1, <3>2
    <2>3. InRehash' /\ i' = i
      BY <1>1, <2>2 DEF InRehash, i
    <2>4. PutBefore(buckets', states', buckets, states, e, b, Size) /\ states' \in [0..Size - 1 -> Nat]
      BY <1>3, <1>7, <1>8, <2>1, PutBeforeInto
    <2>5. DOMAIN buckets' = 0..Size - 1
      BY <1>3, <2>1
    <2>6. /\ WiderLimit(Limit, Limit', Size)
          /\ \A c \in 0..Size - 1 : Limit'[c] = IF c < i + 1 THEN epoch ELSE tableState
      <3>1. \A c \in 0..Size - 1 : Limit'[c] = IF c < i + 1 THEN epoch ELSE tableState
        BY <1>1, <1>3, <2>2, <2>3, <2>5 DEF Limit
      <3> QED BY <1>3, <1>4, <3>1 DEF WiderLimit, Permanent
    <2>7. Buckets(buckets', Size) /\ Held(buckets') = Held(buckets) \cup {e}
          /\ Covered(buckets', states', Limit')
      <3>1. e.state \in {Permanent, Limit'[b]} /\ e.id % Size = b
        BY <1>3, <1>7, <1>8, <1>13, <2>6 DEF b
      <3> QED BY <1>3, <1>7, <1>8, <1>11, <2>4, <2>6, <3>1, EntryPut
    <2>8. Entries' = (Entries \ {old}) \cup {e}
      <3>1. Entries' = Held(buckets') \cup Range(rehash'.remaining) \cup Range(rehash'.deferred)
        BY DEF Entries, Held
      <3> QED BY <1>3, <1>6, <1>9, <2>2, <2>7, <3>1
    <2>9. KeysOf(Entries)' = KeysOf(Entries) /\ EntriesInv' /\ Contents' = Contents
      BY <1>1, <1>7, <1>10, <2>8, EntryReplaced
    <2>10. Size' = Size /\ TypeInv' /\ KeyInv' /\ IterInv'
      BY <1>1, <1>2, <2>2, <2>3, <2>4, <2>7, <2>9, RehashStepInv
    <2>11. RehashInv'
      <3>1. Held(buckets)' = Held(buckets) \cup {e}
        BY <2>7 DEF Held
      <3>2. /\ IsQueue(rehash'.remaining) /\ IsQueue(rehash'.deferred)
            /\ Range(rehash'.remaining) \cap Held(buckets)' = {}
            /\ Range(rehash'.deferred) \cap Held(buckets)' = {}
            /\ Range(rehash'.deferred) \cap Range(rehash'.remaining) = {}
        BY <1>3, <1>6, <1>9, <1>11, <2>2, <3>1
      <3>3. \A f \in Range(rehash'.remaining) : f.id % Size' = i'
        BY <1>6, <1>9, <2>2, <2>3, <2>10
      <3>4. i' \in 0..Size' /\ i' < Size'
        BY <1>3, <2>3, <2>10
      <3> QED BY <1>1, <2>3, <3>2, <3>3, <3>4 DEF RehashInv
    <2>12. StatesInv'
      <3>1. Covered(buckets, states, Limit)'
        BY <2>7 DEF Covered
      <3> QED BY <1>1, <1>6, <1>12, <2>2, <2>3, <3>1 DEF StatesInv
    <2> QED BY <2>9, <2>10, <2>11, <2>12 DEF TablesInv
  <1>14. CASE ~ (b <= i)
    <2>1. /\ rehash' = [put EXCEPT !.deferred = <<e>> \o @]
          /\ UNCHANGED <<buckets, states>>
      BY <1>1, <1>14
    <2>2. /\ <<e>> \o rehash.deferred \in Seq(EntrySet)
          /\ IsQueue(<<e>> \o rehash.deferred)
          /\ Range(<<e>> \o rehash.deferred) = Range(rehash.deferred) \cup {e}
      BY <1>3, <1>7, <1>11, ConsQueue
    <2>3. /\ rehash'.i = i /\ rehash'.remaining = Tail(rehash.remaining)
          /\ rehash'.deferred = <<e>> \o rehash.deferred /\ rehash'.hashed = TRUE
          /\ rehash' \in [i : Nat, remaining : Seq(EntrySet), deferred : Seq(EntrySet),
                          hashed : BOOLEAN]
      <3>1. rehash' = [i |-> i, remaining |-> Tail(rehash.remaining),
                       deferred |-> <<e>> \o rehash.deferred, hashed |-> TRUE]
        BY <1>3, <2>1, RehashTyped
      <3>2. [i |-> i, remaining |-> Tail(rehash.remaining), deferred |-> <<e>> \o rehash.deferred,
             hashed |-> TRUE]
              \in [i : Nat, remaining : Seq(EntrySet), deferred : Seq(EntrySet), hashed : BOOLEAN]
        BY <1>3, <1>6, <2>2, RehashMade
      <3> QED BY <3>1, <3>2
    <2>4. InRehash' /\ i' = i /\ Held(buckets)' = Held(buckets)
      BY <1>1, <2>1, <2>3 DEF InRehash, i, Held
    <2>5. \A c \in 0..Size - 1 : Limit'[c] = IF c < i + 1 THEN epoch ELSE tableState
      BY <1>1, <1>3, <2>1, <2>3, <2>4 DEF Limit
    <2>6. Covered(buckets, states, Limit)'
      <3>1. \A c \in 0..Size - 1 : Limit[c] = Permanent \/ Limit'[c] = Limit[c]
        BY <1>3, <1>4, <2>5
      <3>2. Covered(buckets, states, Limit')
        BY <1>3, <3>1 DEF Covered
      <3> QED BY <2>1, <3>2
    <2>7. Entries' = (Entries \ {old}) \cup {e}
      <3>1. Entries' = Held(buckets) \cup Range(rehash'.remaining) \cup Range(rehash'.deferred)
        BY <2>1 DEF Entries, Held
      <3> QED BY <1>3, <1>6, <1>9, <2>2, <2>3, <3>1
    <2>8. KeysOf(Entries)' = KeysOf(Entries) /\ EntriesInv' /\ Contents' = Contents
      BY <1>1, <1>7, <1>10, <2>7, EntryReplaced
    <2>9. Size' = Size /\ TypeInv' /\ KeyInv' /\ IterInv'
      BY <1>1, <1>2, <1>3, <2>1, <2>3, <2>4, <2>8, RehashStepInv
    <2>10. RehashInv'
      <3>1. /\ IsQueue(rehash'.remaining) /\ IsQueue(rehash'.deferred)
            /\ Range(rehash'.remaining) \cap Held(buckets)' = {}
            /\ Range(rehash'.deferred) \cap Held(buckets)' = {}
            /\ Range(rehash'.deferred) \cap Range(rehash'.remaining) = {}
        <4>1. /\ Range(rehash'.remaining) = Range(rehash.remaining) \ {old}
              /\ Range(rehash'.deferred) = Range(rehash.deferred) \cup {e}
              /\ IsQueue(rehash'.remaining) /\ IsQueue(rehash'.deferred)
          BY <1>6, <2>2, <2>3
        <4> QED BY <1>9, <1>11, <2>4, <4>1
      <3>2. \A f \in Range(rehash'.remaining) : f.id % Size' = i'
        BY <1>6, <1>9, <2>3, <2>4, <2>9
      <3>3. i' \in 0..Size' /\ i' < Size'
        BY <1>3, <2>4, <2>9
      <3> QED BY <1>1, <2>4, <3>1, <3>2, <3>3 DEF RehashInv
    <2>11. StatesInv'
      BY <1>1, <1>6, <1>7, <1>12, <2>2, <2>3, <2>4, <2>6 DEF StatesInv
    <2> QED BY <2>8, <2>9, <2>10, <2>11 DEF TablesInv
  <1> QED BY <1>13, <1>14
(* The entries that waited go into their buckets; the states of all the    *)
(* buckets are merged for the table.                                       *)
LEMMA FinishRehashInv ==
  ASSUME TablesInv, FinishRehash
  PROVE  TablesInv' /\ Contents' = Contents
  <1> DEFINE goes(b) == GoTo(rehash.deferred, b, Size)
             all == [n \in 1..Size |-> states'[n - 1]]
  <1>1. /\ at = "bucket" /\ i = Size
        /\ buckets' = [b \in DOMAIN buckets |-> Reverse(goes(b)) \o buckets[b]]
        /\ states' = [b \in DOMAIN states |-> FoldLeft(MergeBefore, states[b], StatesOf(goes(b)))]
        /\ tableState' = FoldLeft(Merge, Permanent, all)
        /\ rehash' = NoRehash /\ at' = Start(call) /\ key' = NoKey
        /\ iter' = [iter EXCEPT !.rehashed = iter.on]
        /\ UNCHANGED <<addr, epoch, tableSize, call, answer>>
    BY DEF FinishRehash
  <1>2. InRehash
    BY <1>1 DEF InRehash
  <1>3. /\ TypeInv /\ Size \in Nat \ {0} /\ DOMAIN buckets = 0..Size - 1
        /\ Buckets(buckets, Size) /\ states \in [0..Size - 1 -> Nat]
        /\ epoch \in Nat \ {0}
        /\ rehash.remaining = <<>> /\ rehash.deferred \in Seq(EntrySet) /\ IsQueue(rehash.deferred)
        /\ Entries = Held(buckets) \cup Range(rehash.remaining) \cup Range(rehash.deferred)
        /\ Covered(buckets, states, Limit)
    BY <1>1, <1>2, RehashParts
  <1>4. \A b \in 0..Size - 1 : Limit[b] \in {Permanent, epoch}
    BY <1>1, <1>2, <1>3, RehashLimit
  <1>5. \A f \in Range(rehash.deferred) : f.state \in {Permanent, epoch}
    BY <1>2 DEF TablesInv, StatesInv
  <1>6. call \in Calls /\ call.op \in KeyOps /\ at' \in {"hash", "while"}
        /\ (at' = "while" => call.op = "remove-key!")
    <2>1. call.op \in KeyOps
      BY <1>2, <1>3 DEF TypeInv
    <2> QED BY <1>1, <1>3, <2>1, CallKey DEF Start, KeyOps
  <1>7. ASSUME NEW b \in 0..Size - 1
        PROVE  /\ goes(b) \in Seq(EntrySet) /\ IsQueue(goes(b))
               /\ Range(goes(b)) = {e \in Range(rehash.deferred) : e.id % Size = b}
    BY <1>3, GoToQueue
  <1> HIDE DEF goes
  <1>8. ASSUME NEW b \in 0..Size - 1
        PROVE  /\ buckets'[b] \in Seq(EntrySet) /\ IsQueue(buckets'[b])
               /\ Range(buckets'[b]) = Range(buckets[b]) \cup {e \in Range(rehash.deferred) : e.id % Size = b}
    <2>1. buckets'[b] = Reverse(goes(b)) \o buckets[b]
      BY <1>1, <1>3
    <2>2. /\ Reverse(goes(b)) \in Seq(EntrySet) /\ IsQueue(Reverse(goes(b)))
          /\ Range(Reverse(goes(b))) = Range(goes(b))
      BY <1>7, ReverseQueue
    <2>3. /\ buckets[b] \in Seq(EntrySet) /\ IsQueue(buckets[b]) /\ Range(buckets[b]) \subseteq Held(buckets)
      BY <1>3, TableParts
    <2>4. Range(Reverse(goes(b))) \cap Range(buckets[b]) = {}
      <3>1. Range(rehash.deferred) \cap Held(buckets) = {}
        BY <1>2 DEF TablesInv, RehashInv
      <3> QED BY <1>7, <2>2, <2>3, <3>1
    <2>5. /\ Reverse(goes(b)) \o buckets[b] \in Seq(EntrySet)
          /\ IsQueue(Reverse(goes(b)) \o buckets[b])
          /\ Range(Reverse(goes(b)) \o buckets[b]) = Range(Reverse(goes(b))) \cup Range(buckets[b])
      BY <2>2, <2>3, <2>4, JoinQueues
    <2> QED BY <1>7, <2>1, <2>2, <2>5
  <1>9. ASSUME NEW b \in 0..Size - 1
        PROVE  /\ states'[b] \in {Permanent, epoch}
               /\ states'[b] = Permanent => \A e \in Range(buckets'[b]) : e.state = Permanent
               /\ \A e \in Range(buckets'[b]) : e.state \in {Permanent, epoch}
    <2>1. states'[b] = FoldLeft(MergeBefore, states[b], StatesOf(goes(b)))
      BY <1>1, <1>3
    <2>2. /\ states[b] \in {Permanent, epoch}
          /\ \A e \in Range(buckets[b]) :
               e.state \in {Permanent, epoch} /\ (states[b] = Permanent => e.state = Permanent)
      BY <1>3, <1>4 DEF Covered
    <2>3. \A e \in Range(goes(b)) : e.state \in {Permanent, epoch}
      BY <1>5, <1>7
    <2>4. /\ StatesOf(goes(b)) \in Seq({Permanent, epoch})
          /\ (\A p \in DOMAIN StatesOf(goes(b)) : StatesOf(goes(b))[p] = Permanent)
               => \A e \in Range(goes(b)) : e.state = Permanent
      BY <1>3, <1>7, <2>3, StatesOfQueue
    <2>5. /\ states'[b] \in {Permanent, epoch}
          /\ states'[b] = Permanent =>
               states[b] = Permanent /\ \A p \in DOMAIN StatesOf(goes(b)) : StatesOf(goes(b))[p] = Permanent
      BY <1>3, <2>1, <2>2, <2>4, MergeBeforeFold, SMTT(30)
    <2> QED BY <1>5, <1>7, <1>8, <2>2, <2>4, <2>5
  <1>10. /\ DOMAIN buckets' = 0..Size - 1 /\ DOMAIN states' = 0..Size - 1
         /\ buckets' \in [0..Size - 1 -> Seq(EntrySet)] /\ states' \in [0..Size - 1 -> Nat]
    <2>1. DOMAIN buckets' = 0..Size - 1 /\ buckets' = [b \in 0..Size - 1 |-> buckets'[b]]
          /\ DOMAIN states' = 0..Size - 1 /\ states' = [b \in 0..Size - 1 |-> states'[b]]
      BY <1>1, <1>3
    <2>2. \A b \in 0..Size - 1 : buckets'[b] \in Seq(EntrySet)
      BY <1>8
    <2>3. \A b \in 0..Size - 1 : states'[b] \in Nat
      BY <1>3, <1>9, SMTT(30) DEF Permanent
    <2> QED BY <2>1, <2>2, <2>3
  <1>11. Buckets(buckets', Size) /\ Size' = Size
    <2>1. \A b \in 0..Size - 1 : IsQueue(buckets'[b]) /\ \A e \in Range(buckets'[b]) : e.id % Size = b
      BY <1>3, <1>8, TableParts
    <2>2. Buckets(buckets', Size)
      BY <1>3, <1>10, <2>1 DEF Buckets
    <2> QED BY <2>2, SizeOfBuckets DEF Size
  <1>12. /\ tableState' \in {Permanent, epoch}
         /\ tableState' = Permanent => \A b \in 0..Size - 1 : states'[b] = Permanent
    <2>1. all \in Seq({Permanent, epoch}) /\ DOMAIN all = 1..Size
      <3>1. \A n \in 1..Size : n - 1 \in 0..Size - 1
        BY <1>3
      <3>2. \A n \in 1..Size : all[n] \in {Permanent, epoch}
        BY <1>9, <3>1
      <3>3. DOMAIN all = 1..Size /\ all = [n \in 1..Size |-> all[n]]
        OBVIOUS
      <3> HIDE DEF all
      <3> QED BY <1>3, <3>2, <3>3, SMTT(30)
    <2>2. \A b \in 0..Size - 1 : b + 1 \in 1..Size /\ all[b + 1] = states'[b]
      BY <1>3
    <2> HIDE DEF all
    <2>3. /\ tableState' \in {Permanent, epoch}
          /\ tableState' = Permanent => \A n \in DOMAIN all : all[n] = Permanent
      BY <1>1, <1>3, <2>1, MergeFold
    <2> QED BY <2>1, <2>2, <2>3
  <1>13. ~ InRehash' /\ rehash'.remaining = <<>> /\ rehash'.deferred = <<>>
    BY <1>1, <1>6 DEF InRehash, NoRehash
  <1>14. Entries' = Entries
    <2>1. Range(<<>>) = {}
      BY DEF Range
    <2>2. Entries' = Held(buckets') \cup Range(rehash'.remaining) \cup Range(rehash'.deferred)
      BY DEF Entries, Held
    <2>3. Entries' = Held(buckets') /\ Entries = Held(buckets) \cup Range(rehash.deferred)
      BY <1>3, <1>13, <2>1, <2>2
    <2>4. Held(buckets') = Held(buckets) \cup Range(rehash.deferred)
      <3>1. ASSUME NEW e \in Range(rehash.deferred) PROVE e.id % Size \in 0..Size - 1
        <4>1. e \in EntrySet
          BY <1>3, InQueue
        <4> QED BY <1>3, <4>1, Remainder DEF EntrySet
      <3>2. ASSUME NEW e \in Range(rehash.deferred) PROVE e \in Held(buckets')
        <4>1. e \in Range(buckets'[e.id % Size])
          BY <1>8, <3>1
        <4> QED BY <1>10, <3>1, <4>1 DEF Held
      <3>3. ASSUME NEW e \in Held(buckets) PROVE e \in Held(buckets')
        <4>1. PICK b \in 0..Size - 1 : e \in Range(buckets[b])
          BY <1>3 DEF Held
        <4> QED BY <1>8, <1>10, <4>1 DEF Held
      <3>4. ASSUME NEW e \in Held(buckets') PROVE e \in Held(buckets) \cup Range(rehash.deferred)
        <4>1. PICK b \in 0..Size - 1 : e \in Range(buckets'[b])
          BY <1>10 DEF Held
        <4> QED BY <1>3, <1>8, <4>1 DEF Held
      <3> QED BY <3>2, <3>3, <3>4
    <2> QED BY <2>3, <2>4
  <1>15. KeysOf(Entries)' = KeysOf(Entries) /\ EntriesInv' /\ Contents' = Contents
    BY <1>1, <1>14, SameEntries
  <1>16. iter'.on = iter.on /\ iter'.rehashed = iter.on /\ DOMAIN iter' = DOMAIN NoIter
         /\ iter.on \in BOOLEAN
    BY <1>1, <1>3 DEF TypeInv, NoIter
  <1>17. TypeInv'
    <2>1. tableState' \in 0..epoch
      BY <1>3, <1>12 DEF Permanent
    <2>2. NoRehash \in [i : Nat, remaining : Seq(EntrySet), deferred : Seq(EntrySet),
                        hashed : BOOLEAN]
      BY DEF NoRehash
    <2> QED BY <1>1, <1>3, <1>6, <1>10, <1>11, <1>13, <1>16, <2>1, <2>2 DEF TypeInv
  <1>18. RehashInv'
    BY <1>1, <1>13 DEF RehashInv
  <1>19. StatesInv'
    <2>1. \A b \in 0..Size - 1 : Limit'[b] = tableState'
      BY <1>10, <1>13 DEF Limit
    <2>2. Covered(buckets', states', Limit')
      BY <1>9, <1>10, <1>12, <2>1 DEF Covered
    <2>3. Covered(buckets, states, Limit)'
      BY <2>2 DEF Covered
    <2> QED BY <1>13, <2>3 DEF StatesInv
  <1>20. KeyInv'
    BY <1>6 DEF KeyInv, HasHash
  <1>21. IterInv'
    <2>1. iter.on => call.op \in {"element", "size"}
      BY <1>1 DEF TablesInv, IterInv
    <2> QED BY <1>1, <1>16, <2>1 DEF IterInv
  <1> QED BY <1>15, <1>17, <1>18, <1>19, <1>20, <1>21 DEF TablesInv
-----------------------------------------------------------------------------
(***************************************************************************)
(* The calls that change the table.                                        *)
(***************************************************************************)

(* A table of n buckets and the states of which none but that of the table *)
(* is volatile.                                                            *)
Table(bs, ss, n, v) ==
  Buckets(bs, n) /\ ss \in [0..n - 1 -> Nat] /\ Covered(bs, ss, [b \in 0..n - 1 |-> v])

LEMMA ChangeInv ==
  ASSUME TablesInv, at = "do", call.op \notin {"element", "size"},
         at' = "idle", call' = NoCall, UNCHANGED <<addr, epoch, rehash, iter>>,
         NEW n, Table(buckets', states', n, tableState'), tableState' \in 0..epoch, EntriesInv'
  PROVE  TablesInv'
  <1>1. ~ InRehash /\ ~ InRehash' /\ ~ iter.on /\ ~ HasHash'
    BY DEF TablesInv, IterInv, InRehash, HasHash
  <1>2. rehash' = NoRehash
    BY <1>1 DEF TablesInv, RehashInv
  <1>3. Buckets(buckets', n) /\ states' \in [0..n - 1 -> Nat] /\ DOMAIN buckets' = 0..n - 1
        /\ Size' = n
    BY SizeOfBuckets DEF Table, Size
  <1>4. TypeInv'
    BY <1>1, <1>3 DEF TypeInv, TablesInv
  <1>5. RehashInv'
    BY <1>1, <1>2 DEF RehashInv
  <1>6. StatesInv'
    <2>1. Limit' = [b \in 0..n - 1 |-> tableState']
      BY <1>1, <1>3 DEF Limit
    <2>2. Covered(buckets, states, Limit)'
      BY <2>1 DEF Table, Covered
    <2> QED BY <1>1, <2>2 DEF StatesInv
  <1>7. KeyInv' /\ IterInv'
    BY <1>1 DEF KeyInv, IterInv
  <1> QED BY <1>4, <1>5, <1>6, <1>7 DEF TablesInv

(* A table that is not being rehashed. *)
LEMMA TableNow ==
  ASSUME TablesInv, ~ InRehash
  PROVE  /\ Table(buckets, states, Size, tableState) /\ Size \in Nat \ {0}
         /\ tableState \in 0..epoch /\ epoch \in Nat \ {0}
         /\ Entries = Held(buckets) /\ rehash = NoRehash
         /\ IsFiniteSet(KeysOf(Entries)) /\ tableSize = Cardinality(KeysOf(Entries))
         /\ tableSize \in Nat
  <1>1. DOMAIN buckets = 0..Size - 1 /\ Buckets(buckets, Size) /\ Size \in Nat \ {0}
    BY TableParts DEF TablesInv
  <1>2. Limit = [b \in 0..Size - 1 |-> tableState]
    BY <1>1 DEF Limit
  <1>3. Table(buckets, states, Size, tableState)
    BY <1>1, <1>2 DEF Table, TablesInv, StatesInv, TypeInv
  <1>4. Entries = Held(buckets) /\ rehash = NoRehash
    BY EntriesHeld DEF TablesInv
  <1>5. IsFiniteSet(KeysOf(Entries)) /\ tableSize = Cardinality(KeysOf(Entries))
    BY DEF TablesInv, EntriesInv
  <1>6. tableSize \in Nat
    BY <1>5, FS_CardinalityType
  <1>7. tableState \in 0..epoch /\ epoch \in Nat \ {0}
    BY DEF TablesInv, TypeInv
  <1> QED BY <1>1, <1>3, <1>4, <1>5, <1>6, <1>7

(* The buckets after a step outside a rehash hold all the entries. *)
LEMMA EntriesAfter ==
  ASSUME rehash' = NoRehash
  PROVE  Entries' = Held(buckets')
  <1>1. Range(rehash'.remaining) = {} /\ Range(rehash'.deferred) = {}
    BY DEF NoRehash, Range
  <1> QED BY <1>1 DEF Entries, Held

LEMMA RemoveAllKeysInv ==
  ASSUME TablesInv, RemoveAllKeys
  PROVE  TablesInv' /\ Entries' = {}
  <1> DEFINE n == StartingTableSize
  <1>1. /\ at = "do" /\ call.op = "remove-all-keys!"
        /\ buckets' = Empty(n) /\ states' = AllPermanent(n)
        /\ tableSize' = 0 /\ tableState' = Permanent
        /\ call' = NoCall /\ at' = "idle" /\ UNCHANGED <<addr, epoch, rehash, iter>>
    BY DEF RemoveAllKeys, Return
  <1>0. n \in Nat \ {0}
    BY DEF StartingTableSize
  <1> HIDE DEF n
  <1>2. ~ InRehash
    BY <1>1 DEF InRehash
  <1>3. /\ Buckets(Empty(n), n) /\ Held(Empty(n)) = {}
        /\ \A b \in 0..n - 1 : Empty(n)[b] = <<>> /\ Range(Empty(n)[b]) = {}
        /\ AllPermanent(n) \in [0..n - 1 -> Nat]
        /\ \A b \in 0..n - 1 : AllPermanent(n)[b] = Permanent
    BY <1>0, EmptyBuckets
  <1>4. DOMAIN Empty(n) = 0..n - 1
    BY DEF Empty
  <1>5. Table(buckets', states', n, tableState')
    BY <1>1, <1>3, <1>4 DEF Table, Covered
  <1>6. Entries' = {}
    BY <1>1, <1>2, <1>3, TableNow, EntriesAfter
  <1>7. EntriesInv'
    <2>1. (KeysOf(Entries))' = {}
      BY <1>6 DEF KeysOf
    <2> QED BY <1>1, <1>6, <2>1, FS_EmptySet DEF EntriesInv
  <1>8. tableState' \in 0..epoch
    BY <1>1, <1>2, TableNow DEF Permanent
  <1>9. TablesInv'
    BY <1>1, <1>5, <1>7, <1>8, ChangeInv
  <1> QED BY <1>6, <1>9

(* What remove-key! and element-setter know when they come to change the   *)
(* table.                                                                  *)
LEMMA KeyFound ==
  ASSUME TablesInv, at = "do", call.op \in KeyOps
  PROVE  /\ key.id \in Nat /\ key.state \in Nat /\ key.bucket \in 0..Size - 1 /\ key.place \in Nat
         /\ key.bucket = key.id % Size /\ HashRight(call.key, key.id, key.state)
         /\ key.state \in 0..epoch
         /\ call.key \in Keys
         /\ key.place # 0 => /\ key.place \in DOMAIN buckets[key.bucket]
                             /\ buckets[key.bucket][key.place].key = call.key
         /\ key.place = 0 => call.key \notin KeysOf(Entries)
         /\ call.op = "element-setter" => tableState \in {Permanent, key.state}
  <1>1. HasHash /\ ~ InRehash
    BY DEF HasHash, InRehash
  <1>2. HashRight(call.key, key.id, key.state)
    BY <1>1 DEF TablesInv, KeyInv
  <1>3. Entries = Held(buckets) /\ epoch \in Nat \ {0} /\ TypeInv
    BY <1>1, TableNow DEF TablesInv
  <1>4. key.state \in 0..epoch
    BY <1>2, <1>3 DEF HashRight
  <1>5. call.key \in Keys
    BY <1>3, CallKey
  <1> QED BY <1>1, <1>2, <1>3, <1>4, <1>5 DEF TablesInv, KeyInv
(* The entries of other keys than k. *)
Others(k) == {f \in Entries : f.key # k}

(* A key that find-elt has found, and its entry. *)
LEMMA PlaceFound ==
  ASSUME TablesInv, at = "do", call.op \in KeyOps, key.place # 0,
         NEW old, old = buckets[key.bucket][key.place]
  PROVE  /\ old \in Entries /\ old.key = call.key
         /\ old \in Range(buckets[key.bucket])
         /\ Others(call.key) = Entries \ {old}
  <1>1. ~ InRehash
    BY DEF InRehash
  <1>2. /\ key.bucket \in 0..Size - 1 /\ key.place \in DOMAIN buckets[key.bucket]
        /\ old.key = call.key
    BY KeyFound
  <1>3. old \in Range(buckets[key.bucket])
    BY <1>2 DEF Range
  <1>4. old \in Entries
    <2>1. DOMAIN buckets = 0..Size - 1
      BY TableParts DEF TablesInv
    <2> QED BY <1>1, <1>2, <1>3, <2>1, TableNow DEF Held
  <1>5. \A f \in Entries : f.key = call.key => f = old
    BY <1>2, <1>4 DEF TablesInv, EntriesInv
  <1> QED BY <1>2, <1>3, <1>4, <1>5 DEF Others

(* element-setter leaves one entry for its key, and those of the others as *)
(* they are.                                                               *)
SetsEntry(e) == /\ e \in EntrySet /\ e.key = call.key /\ e.elt = call.elt
                /\ Entries' = Others(call.key) \cup {e}

LEMMA ReplaceInv ==
  ASSUME TablesInv, ElementSetter, key.place # 0
  PROVE  TablesInv' /\ \E e : SetsEntry(e)
  <1> DEFINE b == key.bucket
             p == key.place
             new == Entry(call.key, call.elt, key.id, key.state)
             old == buckets[b][p]
  <1>1. /\ at = "do" /\ call.op = "element-setter"
        /\ buckets' = [buckets EXCEPT ![b][p] = new]
        /\ states' = [states EXCEPT ![b] = Merge(key.state, @)]
        /\ tableState' = Merge(key.state, tableState) /\ tableSize' = tableSize
        /\ call' = NoCall /\ at' = "idle" /\ UNCHANGED <<addr, epoch, rehash, iter>>
    BY DEF ElementSetter, Return
  <1>2. ~ InRehash /\ call.op \in KeyOps /\ TypeInv
    BY <1>1 DEF InRehash, KeyOps, TablesInv
  <1>3. /\ key.id \in Nat /\ key.state \in Nat /\ b \in 0..Size - 1 /\ p \in Nat
        /\ b = key.id % Size /\ HashRight(call.key, key.id, key.state)
        /\ key.state \in 0..epoch /\ call.key \in Keys /\ p \in DOMAIN buckets[b]
        /\ tableState \in {Permanent, key.state}
    BY <1>1, <1>2, KeyFound
  <1>4. call.elt \in Elts
    BY <1>1, <1>2, CallKey
  <1> HIDE DEF b, p
  <1>5. /\ new \in EntrySet /\ new.key = call.key /\ new.elt = call.elt /\ new.id = key.id
        /\ new.state = key.state
    BY <1>3, <1>4 DEF Entry, EntrySet
  <1> HIDE DEF new
  <1>6. /\ Table(buckets, states, Size, tableState) /\ Size \in Nat \ {0}
        /\ epoch \in Nat \ {0} /\ Entries = Held(buckets) /\ rehash = NoRehash
    BY <1>2, TableNow
  <1>7. /\ DOMAIN buckets = 0..Size - 1 /\ Buckets(buckets, Size) /\ states \in [0..Size - 1 -> Nat]
        /\ buckets \in [0..Size - 1 -> Seq(EntrySet)]
        /\ buckets[b] \in Seq(EntrySet) /\ IsQueue(buckets[b])
        /\ \A e \in Range(buckets[b]) : e \in Held(buckets) /\ e.id % Size = b
    BY <1>2, <1>3, <1>6, TableParts DEF Table, Buckets
  <1>8. /\ old \in Entries /\ old.key = call.key /\ old \in Range(buckets[b])
        /\ Others(call.key) = Entries \ {old}
    BY <1>1, <1>2, PlaceFound DEF b, p
  <1>9. new \notin Range(buckets[b]) \ {old}
    <2>1. \A f \in Entries : f.key = call.key => f = old
      BY <1>8 DEF TablesInv, EntriesInv
    <2> QED BY <1>5, <1>6, <1>7, <2>1
  <1> DEFINE q == [buckets[b] EXCEPT ![p] = new]
  <1>10. q \in Seq(EntrySet) /\ IsQueue(q) /\ Range(q) = (Range(buckets[b]) \ {old}) \cup {new}
    <2>1. new \notin Range(buckets[b]) \ {buckets[b][p]}
      BY <1>9
    <2> QED BY <1>3, <1>5, <1>7, <2>1, ReplaceQueue
  <1> HIDE DEF old
  <1>11. buckets'[b] = q /\ \A c \in 0..Size - 1 : c # b => buckets'[c] = buckets[c]
    BY <1>1, <1>3, <1>7
  <1>12. buckets' \in [0..Size - 1 -> Seq(EntrySet)]
    <2>1. buckets' = [c \in 0..Size - 1 |-> IF c = b THEN q ELSE buckets[c]]
      BY <1>1, <1>3, <1>7
    <2> HIDE DEF q
    <2> QED BY <1>7, <1>10, <2>1
  <1> HIDE DEF q
  <1>13. Buckets(buckets', Size) /\ Held(buckets') = (Held(buckets) \ Range(buckets[b])) \cup Range(q)
    <2>1. InBucket(buckets'[b], b, Size)
      BY <1>3, <1>5, <1>7, <1>10, <1>11 DEF InBucket
    <2>2. ButFor(buckets', buckets, b, Size)
      BY <1>11, <1>12 DEF ButFor
    <2>3. Buckets(buckets, Size) /\ b \in 0..Size - 1
      BY <1>3, <1>7
    <2>4. /\ Buckets(buckets', Size)
          /\ Held(buckets') = (Held(buckets) \ Range(buckets[b])) \cup Range(buckets'[b])
      BY <2>1, <2>2, <2>3, BucketChanged
    <2> QED BY <1>11, <2>4
  <1>14. Held(buckets') = (Held(buckets) \ {old}) \cup {new}
    <2>1. Range(buckets[b]) \subseteq Held(buckets) /\ old \in Range(buckets[b])
      BY <1>7, <1>8
    <2>2. \A e \in Held(buckets) : e \in Range(buckets[b]) \/ e \notin Range(buckets[b])
      OBVIOUS
    <2>3. old \notin Held(buckets) \ Range(buckets[b])
      BY <2>1
    <2> QED BY <1>10, <1>13, <2>1, <2>3
  <1>15. Entries' = (Entries \ {old}) \cup {new}
    BY <1>1, <1>6, <1>14, EntriesAfter
  <1>16. EntriesInv'
    BY <1>1, <1>3, <1>5, <1>8, <1>15, EntryReplaced
  <1>17. tableState' = key.state
    BY <1>1, <1>3 DEF Merge, Volatility, Permanent
  <1>18. Table(buckets', states', Size, tableState')
    <2>1. /\ \A c \in 0..Size - 1 : states[c] \in {Permanent, tableState}
          /\ \A c \in 0..Size - 1 : \A e \in Range(buckets[c]) :
               e.state \in {Permanent, tableState} /\ (states[c] = Permanent => e.state = Permanent)
      BY <1>6, <1>7 DEF Table, Covered
    <2>2. /\ states' \in [0..Size - 1 -> Nat] /\ states'[b] = Merge(key.state, states[b])
          /\ \A c \in 0..Size - 1 : c # b => states'[c] = states[c]
      <3>1. Merge(key.state, states[b]) \in Nat
        BY <1>3, <1>7 DEF Merge
      <3> QED BY <1>1, <1>3, <1>7, <3>1
    <2>3. /\ Merge(key.state, states[b]) \in {Permanent, key.state}
          /\ Merge(key.state, states[b]) = Permanent <=> key.state = Permanent /\ states[b] = Permanent
      <3>1. states[b] \in {Permanent, key.state}
        BY <1>3, <2>1
      <3> QED BY <1>3, <3>1, MergeTwo
    <2>4. DOMAIN buckets' = 0..Size - 1
      BY <1>12
    <2>5. ASSUME NEW c \in 0..Size - 1
          PROVE  /\ states'[c] \in {Permanent, key.state}
                 /\ \A e \in Range(buckets'[c]) : e.state \in {Permanent, key.state}
                      /\ (states'[c] = Permanent => e.state = Permanent)
      <3>1. CASE c = b
        BY <1>3, <1>5, <1>10, <1>11, <2>1, <2>2, <2>3, <3>1
      <3>2. CASE c # b
        BY <1>3, <1>11, <2>1, <2>2, <3>2
      <3> QED BY <3>1, <3>2
    <2> QED BY <1>13, <1>17, <2>2, <2>4, <2>5 DEF Table, Covered
  <1>19. TablesInv'
    BY <1>1, <1>3, <1>16, <1>17, <1>18, ChangeInv
  <1>20. SetsEntry(new)
    BY <1>5, <1>8, <1>15 DEF SetsEntry
  <1> QED BY <1>19, <1>20
(* A state that is merged into one of the bucket states, of any bucket. *)
LEMMA StateMerged ==
  ASSUME NEW bs, NEW ss, NEW n, NEW v \in Nat, Table(bs, ss, n, v), NEW s \in {Permanent, v},
         NEW b \in 0..n - 1, NEW tt, tt = [ss EXCEPT ![b] = Merge(s, @)]
  PROVE  Table(bs, tt, n, v)
  <1>1. /\ Buckets(bs, n) /\ n \in Nat \ {0} /\ DOMAIN bs = 0..n - 1 /\ ss \in [0..n - 1 -> Nat]
        /\ \A c \in 0..n - 1 :
             /\ ss[c] \in {Permanent, v}
             /\ \A e \in Range(bs[c]) :
                  e.state \in {Permanent, v} /\ (ss[c] = Permanent => e.state = Permanent)
    BY SizeOfBuckets DEF Table, Covered
  <1>2. /\ Merge(s, ss[b]) \in {Permanent, v}
        /\ Merge(s, ss[b]) = Permanent => ss[b] = Permanent
    BY <1>1, MergeTwo
  <1>3. /\ tt \in [0..n - 1 -> Nat] /\ tt[b] = Merge(s, ss[b])
        /\ \A c \in 0..n - 1 : c # b => tt[c] = ss[c]
    <2>1. Merge(s, ss[b]) \in Nat
      BY <1>2 DEF Permanent
    <2> QED BY <1>1, <2>1
  <1>4. \A c \in 0..n - 1 :
          /\ tt[c] \in {Permanent, v}
          /\ \A e \in Range(bs[c]) :
               e.state \in {Permanent, v} /\ (tt[c] = Permanent => e.state = Permanent)
    BY <1>1, <1>2, <1>3
  <1> QED BY <1>1, <1>3, <1>4 DEF Table, Covered

LEMMA AddInv ==
  ASSUME TablesInv, ElementSetter, key.place = 0
  PROVE  TablesInv' /\ \E e : SetsEntry(e)
  <1> DEFINE b == key.bucket
             new == Entry(call.key, call.elt, key.id, key.state)
             bs == [buckets EXCEPT ![b] = <<new>> \o @]
             into == Expanded(bs, states, tableSize + 1)
             v == key.state
  <1>1. /\ at = "do" /\ call.op = "element-setter"
        /\ buckets' = into.of
        /\ states' = [into.states EXCEPT ![b] = Merge(v, @)]
        /\ tableState' = Merge(v, tableState) /\ tableSize' = tableSize + 1
        /\ call' = NoCall /\ at' = "idle" /\ UNCHANGED <<addr, epoch, rehash, iter>>
    BY DEF ElementSetter, Return
  <1>2. ~ InRehash /\ call.op \in KeyOps /\ TypeInv
    BY <1>1 DEF InRehash, KeyOps, TablesInv
  <1>3. /\ key.id \in Nat /\ v \in Nat /\ b \in 0..Size - 1
        /\ b = key.id % Size /\ HashRight(call.key, key.id, v)
        /\ v \in 0..epoch /\ call.key \in Keys /\ call.key \notin KeysOf(Entries)
        /\ tableState \in {Permanent, v}
    BY <1>1, <1>2, KeyFound
  <1>4. call.elt \in Elts
    BY <1>1, <1>2, CallKey
  <1> HIDE DEF b
  <1>5. /\ new \in EntrySet /\ new.key = call.key /\ new.elt = call.elt /\ new.id = key.id
        /\ new.state = v
    BY <1>3, <1>4 DEF Entry, EntrySet
  <1> HIDE DEF new, v
  <1>6. /\ Table(buckets, states, Size, tableState) /\ Size \in Nat \ {0}
        /\ epoch \in Nat \ {0} /\ Entries = Held(buckets) /\ rehash = NoRehash
        /\ IsFiniteSet(KeysOf(Entries)) /\ tableSize = Cardinality(KeysOf(Entries)) /\ tableSize \in Nat
    BY <1>2, TableNow
  <1>7. /\ DOMAIN buckets = 0..Size - 1 /\ Buckets(buckets, Size) /\ states \in [0..Size - 1 -> Nat]
        /\ buckets \in [0..Size - 1 -> Seq(EntrySet)]
        /\ Covered(buckets, states, [c \in 0..Size - 1 |-> tableState])
    BY <1>2, <1>6, TableParts DEF Table, Buckets
  <1>8. new \notin Held(buckets)
    BY <1>3, <1>5, <1>6 DEF KeysOf
  <1>9. Table(bs, [states EXCEPT ![b] = Merge(v, @)], Size, v) /\ Held(bs) = Held(buckets) \cup {new}
    <2> DEFINE tt == [states EXCEPT ![b] = Merge(v, @)]
               lim == [c \in 0..Size - 1 |-> v]
               limit == [c \in 0..Size - 1 |-> tableState]
    <2>1. WiderLimit(limit, lim, Size)
      BY <1>3 DEF WiderLimit
    <2>2. PutBefore(bs, tt, buckets, states, new, b, Size)
      <3>1. <<new>> \o buckets[b] \in Seq(EntrySet)
        BY <1>3, <1>5, <1>7
      <3>2. Merge(v, states[b]) \in Nat
        BY <1>3, <1>7 DEF Merge
      <3>3. ButFor(bs, buckets, b, Size) /\ bs[b] = <<new>> \o buckets[b]
        BY <1>3, <1>7, <3>1 DEF ButFor
      <3>4. /\ tt \in [0..Size - 1 -> Nat] /\ tt[b] = Merge(new.state, states[b])
            /\ \A c \in 0..Size - 1 : c # b => tt[c] = states[c]
        BY <1>3, <1>5, <1>7, <3>2
      <3> QED BY <3>3, <3>4 DEF PutBefore
    <2>3. new.state \in {Permanent, lim[b]} /\ new.id % Size = b
      BY <1>3, <1>5
    <2>4. tt \in [0..Size - 1 -> Nat]
      BY <2>2 DEF PutBefore
    <2>5. Covered(buckets, states, limit) /\ Buckets(buckets, Size) /\ states \in [0..Size - 1 -> Nat]
      BY <1>7
    <2> HIDE DEF tt, limit, lim, bs
    <2>6. Buckets(bs, Size) /\ Held(bs) = Held(buckets) \cup {new} /\ Covered(bs, tt, lim)
      BY <1>3, <1>5, <1>8, <2>1, <2>2, <2>3, <2>5, EntryPut
    <2> QED BY <2>4, <2>6 DEF Table, tt, lim
  <1>10. tableState' = v
    BY <1>1, <1>3 DEF Merge, Volatility, Permanent
  <1> HIDE DEF bs
  <1>11. /\ Held(buckets') = Held(bs)
         /\ \E n : Table(buckets', states', n, v)
    <2>1. Buckets(bs, Size) /\ Cardinality(DOMAIN bs) = Size
      BY <1>9, SizeOfBuckets DEF Table
    <2>2. CASE (tableSize + 1) * 100 > Size * ExpandWhen
      <3> DEFINE t == (Size * ExpandTo) \div 100
                 n == FindNewSize(t)
                 r == Resized(bs, n)
      <3>1. t \in Nat \ {0} /\ t >= Size
        BY <1>6 DEF ExpandTo
      <3>2. into = r
        BY <2>1, <2>2 DEF Expanded
      <3> HIDE DEF t
      <3>3. n \in t..2310 * t + 1
        BY <3>1, NewSize
      <3>4. n \in Nat \ {0} /\ n >= Size
        BY <1>6, <3>1, <3>3
      <3> HIDE DEF n, into
      <3>5. \A e \in Held(bs) : e.state \in {Permanent, v}
        <4>1. ASSUME NEW e \in Held(bs) PROVE e.state \in {Permanent, v}
          <5>1. PICK c \in DOMAIN bs : e \in Range(bs[c])
            BY DEF Held
          <5>2. DOMAIN bs = 0..Size - 1
            BY <2>1, SizeOfBuckets
          <5> QED BY <1>9, <5>1, <5>2 DEF Table, Covered
        <4> QED BY <4>1
      <3>6. Rearranged(bs, r, n, v)
        BY <1>3, <2>1, <3>4, <3>5, ResizedBuckets
      <3> HIDE DEF r
      <3>7. /\ Table(r.of, r.states, n, v) /\ Held(r.of) = Held(bs)
        BY <3>6 DEF Rearranged, Table
      <3>8. b \in 0..n - 1
        BY <1>3, <1>6, <3>4
      <3>9. Table(r.of, states', n, v)
        <4>1. states' = [r.states EXCEPT ![b] = Merge(v, @)]
          BY <1>1, <3>2
        <4>2. v \in {Permanent, v}
          OBVIOUS
        <4> QED BY <1>3, <3>7, <3>8, <4>1, <4>2, StateMerged
      <3> QED BY <1>1, <3>2, <3>7, <3>9
    <2>3. CASE ~ ((tableSize + 1) * 100 > Size * ExpandWhen)
      <3>1. into = [of |-> bs, states |-> states]
        BY <2>1, <2>3 DEF Expanded
      <3>2. buckets' = bs /\ states' = [states EXCEPT ![b] = Merge(v, @)]
        BY <1>1, <3>1
      <3>3. Table(buckets', states', Size, v)
        BY <1>9, <3>2
      <3> QED BY <3>2, <3>3
    <2> QED BY <2>2, <2>3
  <1> HIDE DEF into
  <1>12. Entries' = Entries \cup {new}
    BY <1>1, <1>6, <1>9, <1>11, EntriesAfter
  <1>13. EntriesInv'
    <2>1. (KeysOf(Entries))' = KeysOf(Entries) \cup {call.key}
      <3>1. KeysOf(Entries \cup {new}) = KeysOf(Entries) \cup {call.key}
        BY <1>5 DEF KeysOf
      <3>2. (KeysOf(Entries))' = KeysOf(Entries')
        BY DEF KeysOf
      <3> QED BY <1>12, <3>1, <3>2
    <2>2. IsFiniteSet((KeysOf(Entries))') /\ tableSize' = Cardinality((KeysOf(Entries))')
      BY <1>1, <1>3, <1>6, <2>1, FS_AddElement
    <2>3. \A f \in Entries : /\ HashRight(f.key, f.id, f.state)' /\ f.key # call.key
                             /\ \A g \in Entries : f.key = g.key => f = g
      BY <1>1, <1>3 DEF TablesInv, EntriesInv, HashRight, KeysOf
    <2>4. ASSUME NEW f, f = new PROVE HashRight(f.key, f.id, f.state)'
      <3>1. HashRight(f.key, f.id, f.state)
        BY <1>3, <1>5, <2>4
      <3> QED BY <1>1, <3>1 DEF HashRight
    <2>5. ASSUME NEW f \in Entries' PROVE HashRight(f.key, f.id, f.state)'
      BY <1>12, <2>3, <2>4, <2>5
    <2>6. \A f, g \in Entries' : f.key = g.key => f = g
      BY <1>5, <1>12, <2>3
    <2> QED BY <2>2, <2>5, <2>6 DEF EntriesInv
  <1>14. TablesInv'
    <2>1. PICK n : Table(buckets', states', n, tableState')
      BY <1>10, <1>11
    <2>2. tableState' \in 0..epoch
      BY <1>3, <1>10
    <2> QED BY <1>1, <1>13, <2>1, <2>2, ChangeInv
  <1>15. SetsEntry(new)
    <2>1. Others(call.key) = Entries
      BY <1>3 DEF Others, KeysOf
    <2> QED BY <1>5, <1>12, <2>1 DEF SetsEntry
  <1> QED BY <1>14, <1>15
LEMMA SetterInv ==
  ASSUME TablesInv, ElementSetter
  PROVE  TablesInv' /\ \E e : SetsEntry(e)
  BY ReplaceInv, AddInv

(* remove-key! leaves the entries of the other keys. *)
LEMMA RemoveFoundInv ==
  ASSUME TablesInv, RemoveKey, key.place # 0
  PROVE  TablesInv' /\ Entries' = Others(call.key)
  <1> DEFINE b == key.bucket
             p == key.place
             bs == [buckets EXCEPT ![b] = RemoveAt(@, p)]
             into == Shrunk(bs, states, tableSize - 1)
             old == buckets[b][p]
  <1>1. /\ at = "do" /\ call.op = "remove-key!"
        /\ buckets' = into.of /\ states' = into.states
        /\ tableState' = tableState /\ tableSize' = tableSize - 1
        /\ call' = NoCall /\ at' = "idle" /\ UNCHANGED <<addr, epoch, rehash, iter>>
    BY DEF RemoveKey, Return
  <1>2. ~ InRehash /\ call.op \in KeyOps /\ TypeInv
    BY <1>1 DEF InRehash, KeyOps, TablesInv
  <1>3. b \in 0..Size - 1 /\ p \in DOMAIN buckets[b]
    BY <1>1, <1>2, KeyFound
  <1>4. /\ old \in Entries /\ old.key = call.key /\ old \in Range(buckets[b])
        /\ Others(call.key) = Entries \ {old}
    BY <1>1, <1>2, PlaceFound
  <1> HIDE DEF b, p
  <1>5. /\ Table(buckets, states, Size, tableState) /\ Size \in Nat \ {0}
        /\ tableState \in 0..epoch /\ epoch \in Nat \ {0}
        /\ Entries = Held(buckets) /\ rehash = NoRehash
        /\ IsFiniteSet(KeysOf(Entries)) /\ tableSize = Cardinality(KeysOf(Entries)) /\ tableSize \in Nat
    BY <1>2, TableNow
  <1>6. /\ DOMAIN buckets = 0..Size - 1 /\ Buckets(buckets, Size) /\ states \in [0..Size - 1 -> Nat]
        /\ buckets \in [0..Size - 1 -> Seq(EntrySet)]
        /\ buckets[b] \in Seq(EntrySet) /\ IsQueue(buckets[b])
        /\ \A e \in Range(buckets[b]) : e \in Held(buckets) /\ e.id % Size = b
    BY <1>2, <1>3, <1>5, TableParts DEF Table, Buckets
  <1> DEFINE q == RemoveAt(buckets[b], p)
  <1>7. q \in Seq(EntrySet) /\ IsQueue(q) /\ Range(q) = Range(buckets[b]) \ {old}
    BY <1>3, <1>6, RemoveAtQueue
  <1> HIDE DEF q, old
  <1>8. /\ bs \in [0..Size - 1 -> Seq(EntrySet)] /\ bs[b] = q
        /\ \A c \in 0..Size - 1 : c # b => bs[c] = buckets[c]
    <2>1. bs = [c \in 0..Size - 1 |-> IF c = b THEN q ELSE buckets[c]]
      BY <1>6 DEF q
    <2> HIDE DEF bs
    <2> QED BY <1>3, <1>6, <1>7, <2>1
  <1> HIDE DEF bs
  <1>9. Buckets(bs, Size) /\ Held(bs) = (Held(buckets) \ Range(buckets[b])) \cup Range(q)
    <2>1. InBucket(bs[b], b, Size)
      BY <1>6, <1>7, <1>8 DEF InBucket
    <2>2. ButFor(bs, buckets, b, Size)
      BY <1>8 DEF ButFor
    <2>3. Buckets(buckets, Size) /\ b \in 0..Size - 1
      BY <1>3, <1>6
    <2>4. /\ Buckets(bs, Size)
          /\ Held(bs) = (Held(buckets) \ Range(buckets[b])) \cup Range(bs[b])
      BY <2>1, <2>2, <2>3, BucketChanged
    <2> QED BY <1>8, <2>4
  <1>10. Held(bs) = Held(buckets) \ {old}
    <2>1. Range(buckets[b]) \subseteq Held(buckets) /\ old \in Range(buckets[b])
      BY <1>4, <1>6
    <2> QED BY <1>7, <1>9, <2>1
  <1>11. Table(bs, states, Size, tableState)
    <2>1. \A c \in 0..Size - 1 :
            /\ states[c] \in {Permanent, tableState}
            /\ \A e \in Range(buckets[c]) :
                 e.state \in {Permanent, tableState} /\ (states[c] = Permanent => e.state = Permanent)
      BY <1>5, <1>6 DEF Table, Covered
    <2>2. DOMAIN bs = 0..Size - 1 /\ \A c \in 0..Size - 1 : Range(bs[c]) \subseteq Range(buckets[c])
      BY <1>7, <1>8
    <2> QED BY <1>6, <1>9, <2>1, <2>2 DEF Table, Covered
  <1>12. Held(buckets') = Held(bs) /\ \E n : Table(buckets', states', n, tableState)
    <2>1. Buckets(bs, Size) /\ Cardinality(DOMAIN bs) = Size /\ DOMAIN bs = 0..Size - 1
      BY <1>9, SizeOfBuckets
    <2>2. CASE (tableSize - 1) * 100 < Size * ShrinkWhen
      <3> DEFINE t == (Size * ShrinkTo) \div 100
                 n == FindNewSize(t)
                 r == Resized(bs, n)
      <3>1. t \in Nat \ {0}
        BY <1>5 DEF ShrinkTo
      <3>2. into = r
        BY <2>1, <2>2 DEF Shrunk
      <3> HIDE DEF t
      <3>3. n \in t..2310 * t + 1
        BY <3>1, NewSize
      <3>4. n \in Nat \ {0}
        BY <3>1, <3>3
      <3> HIDE DEF n, into
      <3>5. \A e \in Held(bs) : e.state \in {Permanent, tableState}
        <4>1. ASSUME NEW e \in Held(bs) PROVE e.state \in {Permanent, tableState}
          <5>1. PICK c \in DOMAIN bs : e \in Range(bs[c])
            BY DEF Held
          <5> QED BY <1>11, <2>1, <5>1 DEF Table, Covered
        <4> QED BY <4>1
      <3>6. Rearranged(bs, r, n, tableState)
        <4>1. tableState \in Nat
          BY <1>5
        <4> QED BY <2>1, <3>4, <3>5, <4>1, ResizedBuckets
      <3> HIDE DEF r
      <3> QED BY <1>1, <3>2, <3>6 DEF Rearranged, Table
    <2>3. CASE ~ ((tableSize - 1) * 100 < Size * ShrinkWhen)
      <3>1. into = [of |-> bs, states |-> states]
        BY <2>1, <2>3 DEF Shrunk
      <3> HIDE DEF into
      <3>2. buckets' = bs /\ states' = states
        BY <1>1, <3>1
      <3> QED BY <1>11, <3>2
    <2> QED BY <2>2, <2>3
  <1> HIDE DEF into
  <1>13. Entries' = Others(call.key) /\ Entries' = Entries \ {old}
    BY <1>1, <1>4, <1>5, <1>10, <1>12, EntriesAfter
  <1>14. EntriesInv'
    <2>1. (KeysOf(Entries))' = KeysOf(Entries) \ {call.key}
      <3>1. KeysOf(Others(call.key)) = KeysOf(Entries) \ {call.key}
        BY DEF KeysOf, Others
      <3>2. (KeysOf(Entries))' = KeysOf(Entries')
        BY DEF KeysOf
      <3> QED BY <1>13, <3>1, <3>2
    <2>2. call.key \in KeysOf(Entries)
      BY <1>4 DEF KeysOf
    <2>3. IsFiniteSet((KeysOf(Entries))') /\ tableSize' = Cardinality((KeysOf(Entries))')
      <3>1. IsFiniteSet(KeysOf(Entries) \ {call.key})
        BY <1>5, FS_RemoveElement
      <3>2. Cardinality(KeysOf(Entries) \ {call.key}) = Cardinality(KeysOf(Entries)) - 1
        <4> HIDE DEF Entries
        <4> QED BY <1>5, <2>2, FS_RemoveElement, Zenon
      <3> QED BY <1>1, <1>5, <2>1, <3>1, <3>2
    <2>4. \A f \in Entries : /\ HashRight(f.key, f.id, f.state)'
                             /\ \A g \in Entries : f.key = g.key => f = g
      BY <1>1 DEF TablesInv, EntriesInv, HashRight
    <2> QED BY <1>13, <2>3, <2>4 DEF EntriesInv
  <1>15. TablesInv'
    <2>1. PICK n : Table(buckets', states', n, tableState')
      BY <1>1, <1>12
    <2> QED BY <1>1, <1>5, <1>14, <2>1, ChangeInv
  <1> QED BY <1>13, <1>15

LEMMA RemoveInv ==
  ASSUME TablesInv, RemoveKey
  PROVE  TablesInv' /\ Entries' = Others(call.key)
  <1>1. CASE key.place # 0
    BY <1>1, RemoveFoundInv
  <1>2. CASE key.place = 0
    <2>1. /\ UNCHANGED <<addr, epoch, tableVars, rehash, iter>>
          /\ at = "do" /\ at' = "idle" /\ call' = NoCall /\ call.op = "remove-key!"
      BY <1>2 DEF RemoveKey, Return
    <2>2. ~ InRehash /\ ~ InRehash' /\ ~ HasHash' /\ call.op \in KeyOps
      BY <2>1 DEF InRehash, HasHash, KeyOps
    <2>3. RehashInv' /\ EntriesInv' /\ StatesInv'
      BY <2>1, <2>2, SameTable
    <2>4. IterInv'
      BY <2>1, <2>2, SameIter
    <2>5. TypeInv'
      BY <2>1, <2>2 DEF TypeInv, TablesInv, tableVars, Size
    <2>6. KeyInv'
      BY <2>2 DEF KeyInv
    <2>7. Entries' = Entries
      BY <2>1 DEF Entries, tableVars
    <2>8. Others(call.key) = Entries
      BY <1>2, <2>1, <2>2, KeyFound DEF Others, KeysOf
    <2> QED BY <2>3, <2>4, <2>5, <2>6, <2>7, <2>8 DEF TablesInv
  <1> QED BY <1>1, <1>2
-----------------------------------------------------------------------------
(***************************************************************************)
(* The iteration.                                                          *)
(***************************************************************************)

(* A sequence without repetition has as many members as places. *)
LEMMA QueueLength ==
  ASSUME NEW S, NEW q \in Seq(S), IsQueue(q)
  PROVE  IsFiniteSet(Range(q)) /\ Cardinality(Range(q)) = Len(q)
  <1>1. DOMAIN q = 1..Len(q) /\ Len(q) \in Nat
    BY InQueue
  <1>2. q \in Bijection(1..Len(q), Range(q))
    BY <1>1 DEF IsQueue, IsInjective, Range, Bijection, Injection, Surjection
  <1>3. ExistsBijection(1..Len(q), Range(q))
    BY <1>2 DEF ExistsBijection
  <1>4. IsFiniteSet(1..Len(q))
    BY <1>1, FS_Interval
  <1> QED BY <1>1, <1>3, <1>4, FS_CountingElements, FS_Bijection

(* The cell of a key is in one place only. *)
LEMMA OneCell ==
  ASSUME TablesInv, ~ InRehash, NEW b \in 0..Size - 1, NEW c \in 0..Size - 1,
         NEW p \in DOMAIN buckets[b], NEW q \in DOMAIN buckets[c],
         buckets[b][p].key = buckets[c][q].key
  PROVE  b = c /\ p = q
  <1>1. /\ buckets[b] \in Seq(EntrySet) /\ IsQueue(buckets[b])
        /\ \A e \in Range(buckets[b]) : e \in Held(buckets) /\ e.id % Size = b
        /\ \A e \in Range(buckets[c]) : e \in Held(buckets) /\ e.id % Size = c
    BY TableParts DEF TablesInv
  <1>2. buckets[b][p] \in Range(buckets[b]) /\ buckets[c][q] \in Range(buckets[c])
    BY DEF Range
  <1>3. buckets[b][p] = buckets[c][q]
    <2>1. Entries = Held(buckets)
      BY TableNow
    <2> QED BY <1>1, <1>2, <2>1 DEF TablesInv, EntriesInv
  <1>4. b = c
    BY <1>1, <1>2, <1>3
  <1> QED BY <1>1, <1>3, <1>4 DEF IsQueue, IsInjective

LEMMA CellFound ==
  ASSUME TablesInv, ~ InRehash, NEW b \in 0..Size - 1, NEW p \in DOMAIN buckets[b],
         NEW k, k = buckets[b][p].key
  PROVE  Cell(k) = SubSeq(buckets[b], p + 1, Len(buckets[b]))
  <1>1. DOMAIN buckets = 0..Size - 1
    BY TableParts DEF TablesInv
  <1> DEFINE c0 == CHOOSE c \in DOMAIN buckets : \E e \in Range(buckets[c]) : e.key = k
             q0 == CHOOSE q \in DOMAIN buckets[c0] : buckets[c0][q].key = k
  <1>2. c0 = b
    <2>1. \E e \in Range(buckets[b]) : e.key = k
      BY DEF Range
    <2>2. c0 \in 0..Size - 1 /\ \E e \in Range(buckets[c0]) : e.key = k
      BY <1>1, <2>1
    <2> HIDE DEF c0
    <2>3. PICK q \in DOMAIN buckets[c0] : buckets[c0][q].key = k
      BY <2>2 DEF Range
    <2> QED BY <2>2, <2>3, OneCell
  <1>3. q0 = p
    <2> HIDE DEF c0
    <2>1. \E q \in DOMAIN buckets[c0] : buckets[c0][q].key = k
      BY <1>2
    <2>2. q0 \in DOMAIN buckets[b] /\ buckets[b][q0].key = k
      BY <1>2, <2>1
    <2> HIDE DEF q0
    <2> QED BY <2>2, OneCell
  <1>4. Cell(k) = SubSeq(buckets[c0], q0 + 1, Len(buckets[c0]))
    BY DEF Cell
  <1> HIDE DEF c0, q0
  <1> QED BY <1>2, <1>3, <1>4

(* The first bucket after m that holds an entry. *)
After(m) == {b \in DOMAIN buckets : b > m /\ buckets[b] # <<>>}
First(m) == CHOOSE c \in After(m) : \A d \in After(m) : c <= d

LEMMA FirstFound ==
  ASSUME TablesInv, NEW m \in -1..Size - 1
  PROVE  /\ After(m) = {} => \A d \in 0..Size - 1 : d > m => buckets[d] = <<>>
         /\ After(m) # {} =>
              /\ First(m) \in 0..Size - 1 /\ First(m) > m /\ buckets[First(m)] # <<>>
              /\ \A d \in 0..Size - 1 : m < d /\ d < First(m) => buckets[d] = <<>>
  <1>1. DOMAIN buckets = 0..Size - 1 /\ Size \in Nat \ {0}
    BY TableParts DEF TablesInv
  <1>2. CASE After(m) = {}
    BY <1>1, <1>2 DEF After
  <1>3. CASE After(m) # {}
    <2>1. After(m) \in SUBSET Nat
      BY <1>1 DEF After
    <2>2. \E c \in After(m) : \A d \in After(m) : c <= d
      BY <1>3, <2>1, LeastNat
    <2>3. First(m) \in After(m) /\ \A d \in After(m) : First(m) <= d
      BY <2>2 DEF First
    <2> QED BY <1>1, <1>3, <2>1, <2>3 DEF After
  <1> QED BY <1>2, <1>3

(* All the keys are before the end of the last bucket. *)
LEMMA AllKeys ==
  ASSUME TablesInv, ~ InRehash
  PROVE  KeysOf(Entries) = UNION {KeysOf(Range(buckets[c])) : c \in 0..Size - 1}
  <1>1. DOMAIN buckets = 0..Size - 1
    BY TableParts DEF TablesInv
  <1>2. Entries = UNION {Range(buckets[c]) : c \in 0..Size - 1}
    BY <1>1, TableNow DEF Held
  <1> QED BY <1>2 DEF KeysOf

LEMMA NoKeys ==
  KeysOf(Range(<<>>)) = {}
  BY DEF KeysOf, Range

LEMMA BucketKeys ==
  ASSUME TypeInv, NEW b \in 0..Size - 1
  PROVE  /\ KeysOf(Range(buckets[b])) = {buckets[b][q].key : q \in 1..Len(buckets[b])}
         /\ DOMAIN buckets[b] = 1..Len(buckets[b]) /\ Len(buckets[b]) \in Nat
         /\ \A q \in 1..Len(buckets[b]) : buckets[b][q].key \in Keys
  <1>1. buckets[b] \in Seq(EntrySet)
    BY TableParts
  <1>2. DOMAIN buckets[b] = 1..Len(buckets[b]) /\ Len(buckets[b]) \in Nat
    BY <1>1
  <1>3. \A q \in 1..Len(buckets[b]) : buckets[b][q] \in EntrySet
    BY <1>1
  <1>4. KeysOf(Range(buckets[b])) = {buckets[b][q].key : q \in 1..Len(buckets[b])}
    BY <1>2 DEF KeysOf, Range
  <1> QED BY <1>2, <1>3, <1>4 DEF EntrySet
(* What next-table-state does to an iteration. *)
Following(it) == IF it.cell = NoCell THEN <<>> ELSE Cell(it.cell)

LEMMA NextState ==
  ASSUME NEW it, DOMAIN it = DOMAIN NoIter, NEW n, n = NextTableState(it)
  PROVE  /\ DOMAIN n = DOMAIN NoIter
         /\ n.on = it.on /\ n.rehashed = it.rehashed /\ n.visited = it.visited
         /\ n.touched = it.touched + 1
         /\ n.touched >= tableSize => n.lost = it.lost
         /\ ~ (n.touched >= tableSize) /\ Following(it) # <<>> =>
              n.lost = it.lost /\ n.index = it.index /\ n.cell = Following(it)[1].key
         /\ ~ (n.touched >= tableSize) /\ Following(it) = <<>> /\ After(it.index) # {} =>
              /\ n.lost = it.lost /\ n.index = First(it.index)
              /\ n.cell = buckets[First(it.index)][1].key
  <1> DEFINE on == [it EXCEPT !.touched = it.touched + 1]
  <1>1. DOMAIN NoIter = {"on", "lost", "touched", "index", "cell", "visited", "rehashed"}
    BY DEF NoIter
  <1>2. /\ DOMAIN on = DOMAIN NoIter /\ on.on = it.on /\ on.rehashed = it.rehashed
        /\ on.visited = it.visited /\ on.touched = it.touched + 1 /\ on.lost = it.lost
        /\ on.index = it.index
    BY <1>1
  <1>3. n = IF on.touched >= tableSize THEN on
            ELSE IF Following(it) # <<>> THEN [on EXCEPT !.cell = Following(it)[1].key]
            ELSE IF After(it.index) = {} THEN [on EXCEPT !.lost = TRUE]
            ELSE [on EXCEPT !.index = First(it.index), !.cell = buckets[First(it.index)][1].key]
    BY DEF NextTableState, Following, After, First
  <1> HIDE DEF on
  <1>4. CASE on.touched >= tableSize
    BY <1>2, <1>3, <1>4
  <1>5. CASE ~ (on.touched >= tableSize) /\ Following(it) # <<>>
    <2>1. n = [on EXCEPT !.cell = Following(it)[1].key]
      BY <1>3, <1>5
    <2>2. /\ DOMAIN n = DOMAIN NoIter /\ n.on = it.on /\ n.rehashed = it.rehashed
          /\ n.visited = it.visited /\ n.touched = it.touched + 1 /\ n.lost = it.lost
          /\ n.index = it.index /\ n.cell = Following(it)[1].key
      BY <1>1, <1>2, <2>1
    <2> QED BY <1>2, <1>5, <2>2
  <1>6. CASE ~ (on.touched >= tableSize) /\ Following(it) = <<>> /\ After(it.index) = {}
    <2>1. n = [on EXCEPT !.lost = TRUE]
      BY <1>3, <1>6
    <2>2. /\ DOMAIN n = DOMAIN NoIter /\ n.on = it.on /\ n.rehashed = it.rehashed
          /\ n.visited = it.visited /\ n.touched = it.touched + 1
      BY <1>1, <1>2, <2>1
    <2> QED BY <1>2, <1>6, <2>2
  <1>7. CASE ~ (on.touched >= tableSize) /\ Following(it) = <<>> /\ After(it.index) # {}
    <2>1. n = [on EXCEPT !.index = First(it.index), !.cell = buckets[First(it.index)][1].key]
      BY <1>3, <1>7
    <2>2. /\ DOMAIN n = DOMAIN NoIter /\ n.on = it.on /\ n.rehashed = it.rehashed
          /\ n.visited = it.visited /\ n.touched = it.touched + 1 /\ n.lost = it.lost
          /\ n.index = First(it.index) /\ n.cell = buckets[First(it.index)][1].key
      BY <1>1, <1>2, <2>1
    <2> QED BY <1>2, <1>7, <2>2
  <1> QED BY <1>4, <1>5, <1>6, <1>7

(* An iteration that has visited some of the keys, and where it stands: the *)
(* keys that it has visited are those before place p of bucket b.           *)
Stands(it, b, p) ==
  /\ it.index = b /\ b \in 0..Size - 1 /\ p \in DOMAIN buckets[b]
  /\ it.cell = buckets[b][p].key /\ Range(it.visited) = KeysBefore(b, p)
Visiting(it) ==
  /\ it.on = TRUE /\ ~ it.rehashed /\ ~ it.lost
  /\ it.visited \in Seq(Keys) /\ IsQueue(it.visited) /\ it.touched = Len(it.visited)
  /\ Range(it.visited) \subseteq KeysOf(Entries)
  /\ ~ (it.touched >= tableSize) => \E b, p : Stands(it, b, p)

LEMMA IterStands ==
  ASSUME TypeInv, IterInv, ~ InRehash, iter.on, ~ iter.rehashed
  PROVE  Visiting(iter)
  <1>1. /\ ~ iter.lost /\ iter.visited \in Seq(Keys) /\ IsQueue(iter.visited)
        /\ iter.touched = Len(iter.visited) /\ Range(iter.visited) \subseteq KeysOf(Entries)
    BY DEF IterInv
  <1>2. ASSUME ~ (iter.touched >= tableSize) PROVE \E b, p : Stands(iter, b, p)
    <2>1. /\ iter.index \in 0..Size - 1
          /\ \E p \in DOMAIN buckets[iter.index] :
               /\ buckets[iter.index][p].key = iter.cell
               /\ Range(iter.visited) = KeysBefore(iter.index, p)
      BY <1>2 DEF IterInv, Finished
    <2>2. PICK p \in DOMAIN buckets[iter.index] :
            buckets[iter.index][p].key = iter.cell /\ Range(iter.visited) = KeysBefore(iter.index, p)
      BY <2>1
    <2>3. Stands(iter, iter.index, p)
      BY <2>1, <2>2 DEF Stands
    <2> QED BY <2>3
  <1>3. iter.on = TRUE
    BY DEF TypeInv
  <1> QED BY <1>1, <1>2, <1>3 DEF Visiting

(* A step of the iteration keeps the invariant if it leaves it visiting. *)
LEMMA IterStepInv ==
  ASSUME TablesInv, at = "idle", UNCHANGED <<addr, epoch, tableVars, threadVars>>,
         NEW n, iter' = n, DOMAIN n = DOMAIN NoIter, n.on \in BOOLEAN, n.rehashed \in BOOLEAN,
         n.on /\ ~ n.rehashed => Visiting(n)
  PROVE  TablesInv'
  <1>1. /\ UNCHANGED <<addr, epoch, buckets, states, tableState, tableSize, call, at, key, rehash, answer>>
    BY DEF tableVars, threadVars
  <1>2. ~ InRehash /\ ~ InRehash' /\ ~ HasHash' /\ Size' = Size /\ Entries' = Entries
    BY <1>1 DEF InRehash, HasHash, Size, Entries
  <1>3. RehashInv' /\ EntriesInv' /\ StatesInv'
    BY <1>1, <1>2, SameTable
  <1>4. TypeInv'
    BY <1>1, <1>2 DEF TypeInv, TablesInv
  <1>5. KeyInv'
    BY <1>2 DEF KeyInv
  <1>6. IterInv'
    <2>1. (KeysOf(Entries))' = KeysOf(Entries)
      BY <1>2 DEF KeysOf
    <2>2. \A b, p : KeysBefore(b, p)' = KeysBefore(b, p)
      BY <1>1 DEF KeysBefore
    <2>3. CASE ~ (n.on /\ ~ n.rehashed)
      BY <1>1, <2>3 DEF IterInv
    <2>4. CASE n.on /\ ~ n.rehashed /\ n.touched >= tableSize
      BY <1>1, <1>2, <2>1, <2>4 DEF IterInv, Visiting, Finished
    <2>5. CASE n.on /\ ~ n.rehashed /\ ~ (n.touched >= tableSize)
      <3>1. PICK b, p : Stands(n, b, p)
        BY <2>5 DEF Visiting
      <3>2. /\ iter'.index \in 0..Size' - 1
            /\ \E q \in DOMAIN buckets'[iter'.index] :
                 /\ buckets'[iter'.index][q].key = iter'.cell
                 /\ Range(iter'.visited) = KeysBefore(iter'.index, q)
        BY <1>1, <1>2, <3>1 DEF Stands
      <3>3. /\ iter'.index \in 0..Size' - 1
            /\ \E q \in DOMAIN buckets'[iter'.index] :
                 /\ buckets'[iter'.index][q].key = iter'.cell
                 /\ Range(iter'.visited) = (KeysBefore(iter.index, q))'
        BY <1>1, <3>2 DEF KeysBefore
      <3>4. /\ ~ iter'.lost
            /\ iter'.visited \in Seq(Keys) /\ IsQueue(iter'.visited)
            /\ iter'.touched = Len(iter'.visited)
            /\ Range(iter'.visited) \subseteq (KeysOf(Entries))'
        BY <1>1, <2>1, <2>5 DEF Visiting
      <3> QED BY <1>1, <3>3, <3>4 DEF IterInv
    <2> QED BY <2>3, <2>4, <2>5
  <1> QED BY <1>3, <1>4, <1>5, <1>6 DEF TablesInv
(* The keys before the next place, and before a bucket that is reached     *)
(* over empty ones.                                                        *)
LEMMA KeysNext ==
  ASSUME TypeInv, NEW b \in 0..Size - 1, NEW p \in DOMAIN buckets[b]
  PROVE  KeysBefore(b, p + 1) = KeysBefore(b, p) \cup {buckets[b][p].key}
  <1>1. p \in Nat \ {0}
    BY BucketKeys
  <1>2. 1..(p + 1) - 1 = (1..p - 1) \cup {p}
    BY <1>1
  <1>3. {buckets[b][q].key : q \in 1..(p + 1) - 1}
          = {buckets[b][q].key : q \in 1..p - 1} \cup {buckets[b][p].key}
    BY <1>2
  <1> QED BY <1>3 DEF KeysBefore

LEMMA KeysGap ==
  ASSUME TypeInv, NEW b \in 0..Size - 1, NEW c \in b + 1..Size,
         \A d \in 0..Size - 1 : b < d /\ d < c => buckets[d] = <<>>
  PROVE  KeysBefore(b, Len(buckets[b]) + 1)
           = UNION {KeysOf(Range(buckets[d])) : d \in 0..c - 1}
  <1> DEFINE K(d) == KeysOf(Range(buckets[d]))
  <1>1. Size \in Nat \ {0}
    BY TableParts
  <1>2. \A d \in 0..c - 1 : d \in 0..b - 1 \/ d = b \/ K(d) = {}
    BY <1>1, NoKeys
  <1>3. 0..b - 1 \subseteq 0..c - 1 /\ b \in 0..c - 1
    BY <1>1
  <1>4. (Len(buckets[b]) + 1) - 1 = Len(buckets[b])
    BY BucketKeys
  <1>5. {buckets[b][q].key : q \in 1..(Len(buckets[b]) + 1) - 1} = K(b)
    BY <1>4, BucketKeys
  <1>6. KeysBefore(b, Len(buckets[b]) + 1) = (UNION {K(d) : d \in 0..b - 1}) \cup K(b)
    BY <1>5 DEF KeysBefore
  <1> HIDE DEF K
  <1>7. (UNION {K(d) : d \in 0..b - 1}) \cup K(b) = UNION {K(d) : d \in 0..c - 1}
    BY <1>2, <1>3
  <1> QED BY <1>6, <1>7 DEF K

LEMMA KeysStart ==
  ASSUME NEW c
  PROVE  KeysBefore(c, 1) = UNION {KeysOf(Range(buckets[d])) : d \in 0..c - 1}
  <1>1. 1..1 - 1 = {}
    OBVIOUS
  <1>2. {buckets[c][q].key : q \in 1..1 - 1} = {}
    BY <1>1
  <1> QED BY <1>2 DEF KeysBefore

(* The first cell of the first bucket after m that has one. *)
LEMMA StandsFirst ==
  ASSUME TablesInv, NEW m \in -1..Size - 1, After(m) # {}, NEW n,
         n.index = First(m), n.cell = buckets[First(m)][1].key,
         Range(n.visited) = KeysBefore(First(m), 1)
  PROVE  Stands(n, First(m), 1)
  <1>1. First(m) \in 0..Size - 1 /\ buckets[First(m)] # <<>>
    BY FirstFound
  <1>2. buckets[First(m)] \in Seq(EntrySet)
    BY <1>1, TableParts DEF TablesInv
  <1>3. 1 \in DOMAIN buckets[First(m)]
    BY <1>1, <1>2
  <1> QED BY <1>1, <1>3 DEF Stands

LEMMA IterBeginInv ==
  ASSUME TablesInv, IterBegin
  PROVE  TablesInv'
  <1> DEFINE it == [NoIter EXCEPT !.on = TRUE, !.touched = -1, !.index = -1]
             n == NextTableState(it)
  <1>1. /\ at = "idle" /\ UNCHANGED <<addr, epoch, tableVars, threadVars>> /\ iter' = n
    BY DEF IterBegin
  <1>2. /\ DOMAIN it = DOMAIN NoIter /\ it.on = TRUE /\ it.rehashed = FALSE /\ it.visited = <<>>
        /\ it.touched = -1 /\ it.index = -1 /\ it.lost = FALSE /\ it.cell = NoCell
    BY DEF NoIter
  <1>3. Following(it) = <<>>
    BY <1>2 DEF Following
  <1>0. n = NextTableState(it)
    OBVIOUS
  <1> HIDE DEF it, n
  <1>4. /\ DOMAIN n = DOMAIN NoIter /\ n.on = TRUE /\ n.rehashed = FALSE /\ n.visited = <<>>
        /\ n.touched = 0
        /\ n.touched >= tableSize => n.lost = FALSE
        /\ ~ (n.touched >= tableSize) /\ After(-1) # {} =>
              /\ n.lost = FALSE /\ n.index = First(-1) /\ n.cell = buckets[First(-1)][1].key
    <2>1. /\ DOMAIN n = DOMAIN NoIter
          /\ n.on = it.on /\ n.rehashed = it.rehashed /\ n.visited = it.visited
          /\ n.touched = it.touched + 1
          /\ n.touched >= tableSize => n.lost = it.lost
          /\ ~ (n.touched >= tableSize) /\ After(it.index) # {} =>
               /\ n.lost = it.lost /\ n.index = First(it.index)
               /\ n.cell = buckets[First(it.index)][1].key
      BY <1>0, <1>2, <1>3, NextState
    <2> QED BY <1>2, <2>1
  <1>5. ~ InRehash /\ TypeInv
    BY <1>1 DEF InRehash, TablesInv
  <1>6. Size \in Nat \ {0} /\ tableSize = Cardinality(KeysOf(Entries)) /\ tableSize \in Nat
    BY <1>5, TableNow
  <1>7. ASSUME ~ (n.touched >= tableSize) PROVE After(-1) # {}
    <2>1. SUFFICES ASSUME After(-1) = {} PROVE FALSE
      OBVIOUS
    <2>2. \A d \in 0..Size - 1 : buckets[d] = <<>>
      BY <1>6, <2>1, FirstFound
    <2>3. \A d \in 0..Size - 1 : KeysOf(Range(buckets[d])) = {}
      BY <2>2, NoKeys
    <2>4. KeysOf(Entries) = {}
      BY <1>5, <2>3, AllKeys
    <2> QED BY <1>4, <1>6, <1>7, <2>4, FS_EmptySet
  <1>8. Range(<<>>) = {} /\ Len(<<>>) = 0 /\ <<>> \in Seq(Keys) /\ IsQueue(<<>>)
    BY DEF Range, IsQueue, IsInjective
  <1>9. ASSUME ~ (n.touched >= tableSize) PROVE Stands(n, First(-1), 1)
    <2>1. /\ First(-1) \in 0..Size - 1
          /\ \A d \in 0..Size - 1 : d < First(-1) => buckets[d] = <<>>
      BY <1>6, <1>7, <1>9, FirstFound
    <2>2. \A d \in 0..First(-1) - 1 : KeysOf(Range(buckets[d])) = {}
      BY <1>6, <2>1, NoKeys
    <2>3. KeysBefore(First(-1), 1) = {}
      BY <2>2, KeysStart
    <2>4. -1 \in -1..Size - 1
      BY <1>6
    <2>5. /\ n.index = First(-1) /\ n.cell = buckets[First(-1)][1].key
          /\ Range(n.visited) = KeysBefore(First(-1), 1)
      BY <1>4, <1>7, <1>8, <1>9, <2>3
    <2> QED BY <1>7, <1>9, <2>4, <2>5, StandsFirst
  <1>10. Visiting(n)
    BY <1>4, <1>8, <1>9, <1>7 DEF Visiting
  <1> QED BY <1>1, <1>4, <1>10, IterStepInv

(* An iteration that stands in a cell has not visited its key. *)
LEMMA NotVisited ==
  ASSUME TablesInv, ~ InRehash, NEW it, NEW b, NEW p, Stands(it, b, p)
  PROVE  it.cell \notin Range(it.visited) /\ it.cell \in KeysOf(Entries) /\ it.cell \in Keys
  <1>1. b \in 0..Size - 1 /\ p \in DOMAIN buckets[b] /\ it.cell = buckets[b][p].key
        /\ Range(it.visited) = KeysBefore(b, p)
    BY DEF Stands
  <1>2. TypeInv /\ Size \in Nat \ {0}
    BY TableParts DEF TablesInv
  <1>3. DOMAIN buckets[b] = 1..Len(buckets[b]) /\ Len(buckets[b]) \in Nat /\ it.cell \in Keys
    BY <1>1, <1>2, BucketKeys
  <1>4. ASSUME NEW c \in 0..b - 1, it.cell \in KeysOf(Range(buckets[c])) PROVE FALSE
    <2>1. c \in 0..Size - 1 /\ c # b
      BY <1>1, <1>2
    <2>2. PICK q \in DOMAIN buckets[c] : buckets[c][q].key = it.cell
      BY <1>4 DEF KeysOf, Range
    <2> QED BY <1>1, <2>1, <2>2, OneCell
  <1>5. ASSUME NEW q \in 1..p - 1, it.cell = buckets[b][q].key PROVE FALSE
    <2>1. q \in DOMAIN buckets[b] /\ q # p
      BY <1>1, <1>3
    <2>2. buckets[b][p].key = buckets[b][q].key /\ b \in 0..Size - 1 /\ p \in DOMAIN buckets[b]
      BY <1>1, <1>5
    <2> HIDE DEF KeysBefore
    <2>3. p = q
      BY <2>1, <2>2, OneCell
    <2> QED BY <2>1, <2>3
  <1>6. it.cell \in KeysOf(Entries)
    <2>1. it.cell \in KeysOf(Range(buckets[b]))
      BY <1>1 DEF KeysOf, Range
    <2> QED BY <1>1, <2>1, AllKeys
  <1> QED BY <1>1, <1>3, <1>4, <1>5, <1>6 DEF KeysBefore
(* The iteration comes to the next cell of its bucket, to the first of the *)
(* next bucket, or has seen as many keys as there are.                     *)
LEMMA IterGoOn ==
  ASSUME TablesInv, at = "idle", iter.on, ~ iter.rehashed, ~ Finished,
         NEW it, it = [iter EXCEPT !.visited = Append(@, iter.cell)],
         NEW n, n = NextTableState(it)
  PROVE  Visiting(n)
  <1>1. ~ InRehash /\ TypeInv /\ IterInv
    BY DEF InRehash, TablesInv
  <1>2. Visiting(iter)
    BY <1>1, IterStands
  <1>3. PICK b, p : Stands(iter, b, p)
    BY <1>2 DEF Visiting, Finished
  <1>4. /\ iter.on = TRUE /\ ~ iter.lost /\ iter.visited \in Seq(Keys) /\ IsQueue(iter.visited)
        /\ iter.touched = Len(iter.visited) /\ Range(iter.visited) \subseteq KeysOf(Entries)
    BY <1>2 DEF Visiting
  <1>5. /\ iter.index = b /\ b \in 0..Size - 1 /\ p \in DOMAIN buckets[b]
        /\ iter.cell = buckets[b][p].key /\ Range(iter.visited) = KeysBefore(b, p)
    BY <1>3 DEF Stands
  <1>6. /\ iter.cell \notin Range(iter.visited) /\ iter.cell \in KeysOf(Entries)
        /\ iter.cell \in Keys
    BY <1>1, <1>3, NotVisited
  <1> DEFINE v == Append(iter.visited, iter.cell)
  <1>7. /\ DOMAIN it = DOMAIN NoIter /\ it.on = TRUE /\ it.rehashed = iter.rehashed /\ it.visited = v
        /\ it.touched = iter.touched /\ it.index = b /\ it.lost = iter.lost /\ it.cell = iter.cell
    BY <1>1, <1>4, <1>5 DEF TypeInv, NoIter
  <1>8. /\ v \in Seq(Keys) /\ IsQueue(v) /\ Len(v) = Len(iter.visited) + 1
        /\ Range(v) = Range(iter.visited) \cup {iter.cell}
    BY <1>4, <1>6, AppendQueue
  <1>9. Range(v) = KeysBefore(b, p + 1)
    BY <1>1, <1>5, <1>8, KeysNext
  <1> HIDE DEF v
  <1>10. Following(it) = SubSeq(buckets[b], p + 1, Len(buckets[b]))
    <2>1. iter.cell # NoCell
      BY <1>6, NoCellAssumption
    <2> QED BY <1>1, <1>5, <1>7, <2>1, CellFound DEF Following
  <1>11. /\ buckets[b] \in Seq(EntrySet) /\ DOMAIN buckets[b] = 1..Len(buckets[b])
         /\ Len(buckets[b]) \in Nat /\ p \in 1..Len(buckets[b])
    BY <1>1, <1>5, BucketKeys, TableParts
  <1>12. /\ n.on = it.on /\ n.rehashed = it.rehashed /\ n.visited = it.visited
         /\ n.touched = it.touched + 1
         /\ n.touched >= tableSize => n.lost = it.lost
         /\ ~ (n.touched >= tableSize) /\ Following(it) # <<>> =>
              n.lost = it.lost /\ n.index = it.index /\ n.cell = Following(it)[1].key
         /\ ~ (n.touched >= tableSize) /\ Following(it) = <<>> /\ After(it.index) # {} =>
              /\ n.lost = it.lost /\ n.index = First(it.index)
              /\ n.cell = buckets[First(it.index)][1].key
    <2>1. DOMAIN it = DOMAIN NoIter /\ n = NextTableState(it)
      BY <1>7
    <2> QED BY ONLY <2>1, NextState
  <1>13. /\ n.on = TRUE /\ ~ n.rehashed /\ n.visited = v /\ n.touched = Len(v)
         /\ v \in Seq(Keys) /\ IsQueue(v) /\ Range(v) \subseteq KeysOf(Entries)
    BY ZenonT(60), <1>4, <1>6, <1>7, <1>8, <1>12
  <1>14. CASE n.touched >= tableSize
    BY <1>4, <1>7, <1>12, <1>13, <1>14 DEF Visiting
  <1>15. CASE ~ (n.touched >= tableSize) /\ p < Len(buckets[b])
    <2>1. p + 1 \in DOMAIN buckets[b]
      BY <1>11, <1>15
    <2>2. Following(it) # <<>> /\ Following(it)[1] = buckets[b][p + 1]
      <3> DEFINE q == buckets[b]
      <3>1. q \in Seq(EntrySet) /\ p \in Nat /\ p < Len(q) /\ Following(it) = SubSeq(q, p + 1, Len(q))
        <4>1. q \in Seq(EntrySet) /\ p \in Nat /\ p < Len(q)
          BY ONLY <1>11, <1>15
        <4> QED BY <4>1, <1>10
      <3> HIDE DEF q
      <3>2. Len(SubSeq(q, p + 1, Len(q))) = Len(q) - p /\ SubSeq(q, p + 1, Len(q))[1] = q[p + 1]
        BY <3>1
      <3>3. Len(SubSeq(q, p + 1, Len(q))) # 0
        BY <3>1, <3>2
      <3>4. Following(it) # <<>> /\ Following(it)[1] = q[p + 1]
        <4> DEFINE s == SubSeq(q, p + 1, Len(q))
        <4>1. Following(it) = s /\ Len(s) # 0 /\ s[1] = q[p + 1]
          BY ONLY <3>1, <3>2, <3>3
        <4> HIDE DEF s
        <4>2. Len(<<>>) = 0
          OBVIOUS
        <4> QED BY ONLY <4>1, <4>2
      <3> QED BY ONLY <3>4 DEF q
    <2>3. ~ n.lost /\ n.index = b /\ n.cell = buckets[b][p + 1].key
      BY <1>4, <1>7, <1>12, <1>15, <2>2
    <2>4. Stands(n, b, p + 1)
      BY <1>5, <1>9, <1>13, <2>1, <2>3 DEF Stands
    <2> QED BY <1>13, <2>3, <2>4 DEF Visiting
  <1>16. CASE ~ (n.touched >= tableSize) /\ p = Len(buckets[b])
    <2>1. Following(it) = <<>>
      BY <1>10, <1>11, <1>16
    <2>2. Size \in Nat \ {0} /\ b \in -1..Size - 1 /\ tableSize = Cardinality(KeysOf(Entries))
      BY <1>1, <1>5, TableNow
    <2>3. After(b) # {}
      <3>1. SUFFICES ASSUME After(b) = {} PROVE FALSE
        OBVIOUS
      <3>2. \A d \in 0..Size - 1 : b < d /\ d < Size => buckets[d] = <<>>
        BY <2>2, <3>1, FirstFound
      <3>3. Size \in b + 1..Size
        BY <1>5, <2>2
      <3>4. KeysBefore(b, Len(buckets[b]) + 1) = KeysOf(Entries)
        BY <1>1, <1>5, <3>2, <3>3, KeysGap, AllKeys
      <3>5. Cardinality(Range(v)) = Len(v)
        BY <1>8, QueueLength
      <3>6. Len(v) = tableSize /\ Len(v) \in Nat
        <4>1. Range(v) = KeysOf(Entries)
          BY <1>9, <1>16, <3>4
        <4>2. Cardinality(Range(v)) = tableSize
          BY ONLY <2>2, <4>1
        <4>3. Len(v) \in Nat
          BY ONLY <1>8
        <4> QED BY ONLY <3>5, <4>2, <4>3
      <3> QED BY <1>13, <1>16, <3>6
    <2>4. /\ First(b) \in b + 1..Size /\ First(b) \in 0..Size - 1
          /\ \A d \in 0..Size - 1 : b < d /\ d < First(b) => buckets[d] = <<>>
      BY <1>5, <2>2, <2>3, FirstFound
    <2>5. KeysBefore(b, Len(buckets[b]) + 1) = KeysBefore(First(b), 1)
      <3>1. KeysBefore(b, Len(buckets[b]) + 1)
              = UNION {KeysOf(Range(buckets[d])) : d \in 0..First(b) - 1}
        BY <1>1, <1>5, <2>4, KeysGap
      <3> QED BY <3>1, KeysStart
    <2>6. ~ n.lost /\ n.index = First(b) /\ n.cell = buckets[First(b)][1].key
      BY <1>4, <1>7, <1>12, <1>16, <2>1, <2>3
    <2>7. Range(n.visited) = KeysBefore(First(b), 1)
      BY <1>9, <1>13, <1>16, <2>5
    <2>8. Stands(n, First(b), 1)
      BY <2>2, <2>3, <2>6, <2>7, StandsFirst
    <2> QED BY <1>13, <2>6, <2>8 DEF Visiting
  <1> QED BY <1>11, <1>14, <1>15, <1>16

LEMMA IterNextInv ==
  ASSUME TablesInv, IterNext
  PROVE  TablesInv'
  <1> DEFINE it == [iter EXCEPT !.visited = Append(@, iter.cell)]
             n == NextTableState(it)
  <1>1. /\ at = "idle" /\ UNCHANGED <<addr, epoch, tableVars, threadVars>> /\ iter' = n
        /\ iter.on /\ ~ Finished
    BY DEF IterNext
  <1>2. /\ DOMAIN it = DOMAIN NoIter /\ it.on = iter.on /\ it.rehashed = iter.rehashed
        /\ iter.on \in BOOLEAN /\ iter.rehashed \in BOOLEAN
    BY DEF TablesInv, TypeInv, NoIter
  <1>3. DOMAIN n = DOMAIN NoIter /\ n.on = it.on /\ n.rehashed = it.rehashed
    BY <1>2, NextState
  <1>4. ~ n.rehashed => Visiting(n)
    BY <1>1, <1>2, <1>3, IterGoOn
  <1> HIDE DEF it, n
  <1> QED BY <1>1, <1>2, <1>3, <1>4, IterStepInv

LEMMA IterEndInv ==
  ASSUME TablesInv, IterEnd
  PROVE  TablesInv'
  <1>1. /\ at = "idle" /\ UNCHANGED <<addr, epoch, tableVars, threadVars>> /\ iter' = NoIter
    BY DEF IterEnd
  <1>2. NoIter.on = FALSE /\ NoIter.rehashed = FALSE
    BY DEF NoIter
  <1> QED BY <1>1, <1>2, IterStepInv
-----------------------------------------------------------------------------
(***************************************************************************)
(* The specification.                                                      *)
(***************************************************************************)

(* No step of the thread, of the iteration or of the collector breaks the  *)
(* invariant, as long as no collection strikes between two hashes of one   *)
(* rehash.                                                                 *)
LEMMA NextInv ==
  ASSUME split' = "never", TablesInv, [TablesNext]_vars
  PROVE  TablesInv'
  <1>1. CASE \E c \in Calls : Begin(c)
    BY <1>1, BeginInv
  <1>2. CASE ThreadStep
    <2>1. CASE Hash
      BY <2>1, HashInv
    <2>2. CASE CheckTable \/ CheckKey
      BY <2>2, CheckTableInv, CheckKeyInv
    <2>3. CASE Element \/ SizeOf
      BY <2>3, ReadInv
    <2>4. CASE ElementSetter
      BY <2>4, SetterInv
    <2>5. CASE RemoveKey
      BY <2>5, RemoveInv
    <2>6. CASE RemoveAllKeys
      BY <2>6, RemoveAllKeysInv
    <2>7. CASE RehashBucket
      BY <2>7, RehashBucketInv
    <2>8. CASE RehashEntry
      BY <2>8, RehashEntryInv
    <2>9. CASE RehashHash
      BY <2>9, RehashHashInv
    <2>10. CASE FinishRehash
      BY <2>10, FinishRehashInv
    <2> QED BY <1>2, <2>1, <2>2, <2>3, <2>4, <2>5, <2>6, <2>7, <2>8, <2>9, <2>10 DEF ThreadStep
  <1>3. CASE IterBegin \/ IterNext \/ IterEnd
    BY <1>3, IterBeginInv, IterNextInv, IterEndInv
  <1>4. CASE Collect
    BY <1>4, CollectInv
  <1>5. CASE UNCHANGED vars
    <2>1. /\ UNCHANGED <<addr, epoch, tableVars, rehash, iter, at, call, key, buckets, states,
                         tableState, tableSize>>
      BY <1>5 DEF vars, tableVars, threadVars
    <2>2. Entries' = Entries /\ Limit' = Limit /\ Size' = Size /\ InRehash' = InRehash
          /\ HasHash' = HasHash /\ Finished' = Finished /\ i' = i
      BY <2>1 DEF Entries, Limit, Size, InRehash, HasHash, Finished, i
    <2>3. (KeysOf(Entries))' = KeysOf(Entries) /\ (Held(buckets))' = Held(buckets)
          /\ (KeysOf(Held(buckets)))' = KeysOf(Held(buckets))
      BY <2>1, <2>2 DEF KeysOf, Held
    <2>4. TypeInv' /\ RehashInv'
      BY <2>1, <2>2, <2>3 DEF TablesInv, TypeInv, RehashInv
    <2>5. EntriesInv'
      BY <2>1, <2>2, SameEntries
    <2>6. StatesInv'
      <3>1. Covered(buckets, states, Limit)
        BY DEF TablesInv, StatesInv
      <3>2. (Covered(buckets, states, Limit))'
        BY <2>1, <2>2, <3>1 DEF Covered
      <3> QED BY <2>1, <2>2, <3>2 DEF TablesInv, StatesInv
    <2>7. KeyInv'
      BY <2>1, <2>2, <2>3 DEF TablesInv, KeyInv, HashRight, StateValid
    <2>8. IterInv'
      BY <2>1, <2>2, <2>3 DEF TablesInv, IterInv, KeysBefore
    <2> QED BY <2>4, <2>5, <2>6, <2>7, <2>8 DEF TablesInv
  <1> QED BY <1>1, <1>2, <1>3, <1>4, <1>5 DEF TablesNext

(* A split rehash is not forgotten, and only a collection splits one.      *)
LEMMA OnceSplit ==
  ASSUME [TablesNext]_vars
  PROVE  /\ split' = "never" => split = "never"
         /\ Collect \/ UNCHANGED split
  <1>1. CASE Collect
    BY <1>1 DEF Collect, Struck
  <1>2. CASE ThreadStep
    BY <1>2 DEF ThreadStep, Hash, CheckTable, CheckKey, Element, ElementSetter, RemoveKey,
                SizeOf, RemoveAllKeys, RehashBucket, RehashEntry, RehashHash, FinishRehash
  <1>3. CASE (\E c \in Calls : Begin(c)) \/ IterBegin \/ IterNext \/ IterEnd \/ UNCHANGED vars
    BY <1>3 DEF Begin, IterBegin, IterNext, IterEnd, vars
  <1> QED BY <1>1, <1>2, <1>3 DEF TablesNext

(* The invariant of a table that hashes by address: every entry is where a *)
(* lookup with its hash searches as long as its state is valid, the states *)
(* of the buckets and of the table cover those of the entries, each key    *)
(* has one entry, counted once, and an iteration stands behind the keys    *)
(* that it has visited.                                                    *)
(* It holds until a collection splits a rehash.                            *)
SplitInv == split = "never" => TablesInv

THEOREM TableInvariant == TablesSpec => []SplitInv
  <1>1. TablesInit => SplitInv
    BY InitInv DEF SplitInv
  <1>2. SplitInv /\ [TablesNext]_vars => SplitInv'
    BY NextInv, OnceSplit DEF SplitInv
  <1> QED BY <1>1, <1>2, PTL DEF TablesSpec

(* A stale hash never goes unnoticed: while table-hash-state is valid and  *)
(* no rehash is under way, element and find-elt search for each key in the *)
(* bucket, and under the id, under which its entry is.                     *)
LEMMA NotStale ==
  ASSUME TablesInv
  PROVE  NoStaleHash
  <1>1. SUFFICES ASSUME ~ InRehash, StateValid(tableState),
                        NEW b \in DOMAIN buckets, NEW e \in Range(buckets[b])
                 PROVE  e.id = HashId(e.key) /\ b = e.id % Size
    BY DEF NoStaleHash, InRehash
  <1>2. DOMAIN buckets = 0..Size - 1 /\ e \in Held(buckets) /\ e.id % Size = b
    BY TableParts DEF TablesInv
  <1>3. e.state \in {Permanent, tableState} /\ HashRight(e.key, e.id, e.state)
    BY <1>1, <1>2, HeldEntry
  <1>4. e.state \in {Permanent, epoch} /\ epoch \in Nat \ {0}
    BY <1>1, <1>3 DEF StateValid, TablesInv, TypeInv
  <1>5. e.id = HashId(e.key)
    BY <1>3, <1>4 DEF HashRight, HashId, Permanent
  <1> QED BY <1>2, <1>5

(* So it is until a collection comes between two hashes of one rehash: the *)
(* first part of StaleOnlyIfSplit.                                         *)
THEOREM NoHashIsStale == TablesSpec => [](split = "never" => NoStaleHash)
  <1>1. SplitInv => (split = "never" => NoStaleHash)
    BY NotStale DEF SplitInv
  <1> QED BY <1>1, TableInvariant, PTL

LEMMA VisitsAll ==
  ASSUME TablesInv
  PROVE  IterationVisitsAll
  <1>1. SUFFICES ASSUME iter.on, ~ iter.rehashed, ~ InRehash
                 PROVE  /\ ~ iter.lost /\ IsInjective(iter.visited)
                        /\ Finished => Range(iter.visited) = DOMAIN Contents
    BY DEF IterationVisitsAll
  <1>2. /\ ~ iter.lost /\ iter.visited \in Seq(Keys) /\ IsQueue(iter.visited)
        /\ iter.touched = Len(iter.visited)
        /\ Range(iter.visited) \subseteq KeysOf(Entries)
    BY <1>1 DEF TablesInv, IterInv
  <1>3. DOMAIN Contents = KeysOf(Entries)
    BY DEF Contents, KeysOf
  <1>4. ASSUME Finished PROVE Range(iter.visited) = KeysOf(Entries)
    <2>1. IsFiniteSet(KeysOf(Entries)) /\ tableSize = Cardinality(KeysOf(Entries))
      BY DEF TablesInv, EntriesInv
    <2>2. Cardinality(Range(iter.visited)) = Len(iter.visited)
      BY <1>2, QueueLength
    <2>3. /\ Cardinality(Range(iter.visited)) <= Cardinality(KeysOf(Entries))
          /\ Cardinality(Range(iter.visited)) = Cardinality(KeysOf(Entries))
               => Range(iter.visited) = KeysOf(Entries)
      BY <1>2, <2>1, FS_Subset
    <2>4. tableSize \in Nat /\ Len(iter.visited) \in Nat
      BY <1>2, <2>1, FS_CardinalityType
    <2> QED BY <1>2, <1>4, <2>1, <2>2, <2>3, <2>4 DEF Finished
  <1> QED BY <1>2, <1>3, <1>4 DEF IsQueue

(* An iteration whose table a collection has split is rehashed: the split  *)
(* rehash sets aside the iteration when it ends, and none begins later.    *)
SplitIterInv ==
  /\ DOMAIN iter = DOMAIN NoIter
  /\ iter.on /\ ~ iter.rehashed /\ split # "never" => InRehash

LEMMA SplitIter ==
  ASSUME SplitInv, SplitIterInv, [TablesNext]_vars
  PROVE  SplitIterInv'
  <1>1. CASE Collect
    <2>1. UNCHANGED <<iter, at, rehash>> /\ split' = Struck
      BY <1>1 DEF Collect, threadVars
    <2>2. CASE split = "never"
      <3>1. rehash.hashed => InRehash
        BY <2>2 DEF SplitInv, TablesInv, RehashInv, NoRehash
      <3> QED BY <2>1, <2>2, <3>1 DEF SplitIterInv, Struck, InRehash
    <2>3. CASE split # "never"
      BY <2>1, <2>3 DEF SplitIterInv, InRehash
    <2> QED BY <2>2, <2>3
  <1>2. CASE FinishRehash
    BY <1>2 DEF FinishRehash, SplitIterInv, NoIter
  <1>3. CASE RehashBucket \/ RehashEntry \/ RehashHash
    BY <1>3 DEF RehashBucket, RehashEntry, RehashHash, SplitIterInv, InRehash
  <1>4. CASE Hash \/ CheckTable \/ CheckKey
    BY <1>4 DEF Hash, CheckTable, CheckKey, SplitIterInv, InRehash
  <1>5. CASE Element \/ ElementSetter \/ RemoveKey \/ SizeOf \/ RemoveAllKeys
    BY <1>5 DEF Element, ElementSetter, RemoveKey, SizeOf, RemoveAllKeys, SplitIterInv, InRehash
  <1>6. CASE \E c \in Calls : Begin(c)
    BY <1>6 DEF Begin, SplitIterInv, InRehash
  <1>7. CASE IterBegin
    <2>1. split' = "never" /\ iter' = NextTableState([NoIter EXCEPT !.on = TRUE, !.touched = -1,
                                                                   !.index = -1])
      BY <1>7 DEF IterBegin
    <2>2. DOMAIN iter' = DOMAIN NoIter
      BY <2>1 DEF NextTableState, NoIter
    <2> QED BY <2>1, <2>2 DEF SplitIterInv
  <1>8. CASE IterNext
    <2> DEFINE on == [iter EXCEPT !.visited = Append(@, iter.cell)]
    <2>1. at = "idle" /\ iter.on /\ UNCHANGED split /\ iter' = NextTableState(on)
      BY <1>8 DEF IterNext
    <2>2. DOMAIN on = DOMAIN NoIter /\ on.rehashed = iter.rehashed
      BY DEF SplitIterInv, NoIter
    <2> HIDE DEF on
    <2>3. DOMAIN iter' = DOMAIN NoIter /\ iter'.rehashed = on.rehashed
      BY <2>1, <2>2 DEF NextTableState, NoIter
    <2> QED BY <2>1, <2>2, <2>3 DEF SplitIterInv, InRehash
  <1>9. CASE IterEnd \/ UNCHANGED vars
    BY <1>9 DEF IterEnd, SplitIterInv, InRehash, NoIter, vars, threadVars
  <1> QED BY <1>1, <1>2, <1>3, <1>4, <1>5, <1>6, <1>7, <1>8, <1>9 DEF TablesNext, ThreadStep

(* An iteration of a table that is not rehashed meanwhile visits each key  *)
(* once, and next-table-state, which counts the entries that it has seen   *)
(* and does not look for the end of the vector, never runs over it.        *)
THEOREM IterationVisitsAllKeys == TablesSpec => []IterationVisitsAll
  <1>1. TablesInit => SplitIterInv
    BY DEF TablesInit, SplitIterInv, NoIter
  <1>2. SplitInv /\ SplitIterInv /\ [TablesNext]_vars => SplitIterInv'
    BY SplitIter
  <1>3. SplitInv /\ SplitIterInv => IterationVisitsAll
    BY VisitsAll DEF SplitInv, SplitIterInv, IterationVisitsAll
  <1> QED BY <1>1, <1>2, <1>3, TableInvariant, PTL DEF TablesSpec
-----------------------------------------------------------------------------
(***************************************************************************)
(* The promise: what each step does to the mapping and answers.            *)
(***************************************************************************)

(* The mapping that the entries make. *)
LEMMA ContentsKnown ==
  ASSUME TablesInv
  PROVE  /\ OneEach(Entries) /\ Contents = MapOf(Entries)
         /\ DOMAIN Contents = KeysOf(Entries)
         /\ \A e \in Entries : e.key \in KeysOf(Entries) /\ Contents[e.key] = e.elt
  <1>1. OneEach(Entries)
    BY DEF TablesInv, EntriesInv, OneEach
  <1> QED BY <1>1, ContentsMap, MapElements

LEMMA ContentsKnownNext ==
  ASSUME TablesInv'
  PROVE  OneEach(Entries') /\ Contents' = MapOf(Entries')
  <1>1. OneEach(Entries')
    BY DEF TablesInv, EntriesInv, OneEach
  <1> QED BY <1>1 DEF Contents, MapOf, KeysOf

LEMMA NoEntries ==
  MapOf({}) = <<>>
  <1>1. KeysOf({}) = {}
    BY DEF KeysOf
  <1>2. DOMAIN <<>> = 1..Len(<<>>) /\ Len(<<>>) = 0 /\ <<>> = [k \in DOMAIN <<>> |-> <<>>[k]]
    OBVIOUS
  <1>3. DOMAIN <<>> = {}
    BY <1>2
  <1> QED BY <1>1, <1>2, <1>3 DEF MapOf

(* The promise has a name of its own for what FiniteSets defines. *)
LEMMA PromiseCardinality ==
  ASSUME NEW S
  PROVE  Promise!Cardinality(S) = Cardinality(S)
  BY DEF Promise!Cardinality, Cardinality

LEMMA SetterAnswer ==
  ASSUME TablesInv, ElementSetter
  PROVE  Promise!Answer
  <1>1. /\ at = "do" /\ call.op = "element-setter" /\ call' = NoCall
        /\ answer' = [element |-> call.elt] /\ split' = split
    BY DEF ElementSetter, Return
  <1>2. PICK e : SetsEntry(e)
    BY SetterInv
  <1>3. e.key = call.key /\ e.elt = call.elt /\ Entries' = Others(call.key) \cup {e}
    BY <1>2 DEF SetsEntry
  <1>4. /\ OneEach(Entries) /\ Contents = MapOf(Entries) /\ DOMAIN Contents = KeysOf(Entries)
        /\ \A f \in Entries : f.key \in KeysOf(Entries) /\ Contents[f.key] = f.elt
    BY ContentsKnown
  <1>5. OneEach(Entries') /\ Contents' = MapOf(Entries')
    BY SetterInv, ContentsKnownNext
  <1> DEFINE es == Entries'
  <1> HIDE DEF es
  <1>6. KeysOf(es) = KeysOf(Entries) \cup {call.key}
    BY <1>3 DEF KeysOf, Others, es
  <1>7. DOMAIN MapOf(es) = KeysOf(es) /\ \A f \in es : MapOf(es)[f.key] = f.elt
    BY <1>5, MapElements DEF es
  <1>8. ASSUME NEW k \in KeysOf(es)
        PROVE  MapOf(es)[k] = IF k = call.key THEN call.elt ELSE Contents[k]
    <2>1. PICK f \in es : f.key = k
      BY DEF KeysOf
    <2>2. f = e \/ f \in Others(call.key)
      BY <1>3, <2>1 DEF es
    <2>3. CASE f = e
      BY <1>3, <1>7, <2>1, <2>3
    <2>4. CASE f \in Others(call.key)
      BY <1>4, <1>7, <2>1, <2>4 DEF Others
    <2> QED BY <2>2, <2>3, <2>4
  <1>9. MapOf(es) = [k \in KeysOf(es) |-> MapOf(es)[k]]
    BY DEF MapOf
  <1>10. Contents' = Promise!With(call.key, call.elt)
    <2>1. Contents' = [k \in KeysOf(Entries) \cup {call.key} |->
                         IF k = call.key THEN call.elt ELSE Contents[k]]
      BY <1>5, <1>6, <1>8, <1>9 DEF es
    <2> QED BY <1>4, <2>1 DEF Promise!With
  <1>11. call # NoCall
    BY <1>1 DEF NoCall
  <1>12. Promise!After(call) = Promise!With(call.key, call.elt)
    BY <1>1 DEF Promise!After
  <1>13. Promise!Result(call) = [element |-> call.elt]
    BY <1>1 DEF Promise!Result
  <1> QED BY <1>1, <1>10, <1>11, <1>12, <1>13 DEF Promise!Answer

LEMMA RemoveAnswer ==
  ASSUME TablesInv, RemoveKey
  PROVE  Promise!Answer
  <1>1. /\ at = "do" /\ call.op = "remove-key!" /\ call' = NoCall
        /\ answer' = [removed |-> key.place # 0] /\ split' = split
    BY DEF RemoveKey, Return
  <1>2. Entries' = Others(call.key)
    BY RemoveInv
  <1>3. /\ OneEach(Entries) /\ Contents = MapOf(Entries) /\ DOMAIN Contents = KeysOf(Entries)
        /\ \A f \in Entries : f.key \in KeysOf(Entries) /\ Contents[f.key] = f.elt
    BY ContentsKnown
  <1>4. OneEach(Entries') /\ Contents' = MapOf(Entries')
    BY RemoveInv, ContentsKnownNext
  <1> DEFINE es == Others(call.key)
  <1>5. KeysOf(es) = KeysOf(Entries) \ {call.key} /\ es \subseteq Entries
    BY DEF KeysOf, Others
  <1> HIDE DEF es
  <1>6. DOMAIN MapOf(es) = KeysOf(es) /\ \A f \in es : MapOf(es)[f.key] = f.elt
    BY <1>2, <1>4, MapElements DEF es
  <1>7. ASSUME NEW k \in KeysOf(es) PROVE MapOf(es)[k] = Contents[k]
    <2>1. PICK f \in es : f.key = k
      BY DEF KeysOf
    <2> QED BY <1>3, <1>5, <1>6, <2>1
  <1>8. MapOf(es) = [k \in KeysOf(es) |-> MapOf(es)[k]]
    BY DEF MapOf
  <1>9. Contents' = Promise!Without(call.key)
    <2>1. Contents' = [k \in KeysOf(Entries) \ {call.key} |-> Contents[k]]
      BY <1>2, <1>4, <1>5, <1>7, <1>8 DEF es
    <2> QED BY <1>3, <2>1 DEF Promise!Without
  <1>10. key.place # 0 <=> call.key \in DOMAIN Contents
    <2>1. call.op \in KeyOps
      BY <1>1 DEF KeyOps
    <2>2. CASE key.place = 0
      BY <1>1, <1>3, <2>1, <2>2, KeyFound
    <2>3. CASE key.place # 0
      BY <1>1, <1>3, <2>1, <2>3, PlaceFound
    <2> QED BY <2>2, <2>3
  <1>11. call # NoCall
    BY <1>1 DEF NoCall
  <1>12. Promise!After(call) = Promise!Without(call.key)
    BY <1>1 DEF Promise!After
  <1>13. Promise!Result(call) = [removed |-> call.key \in DOMAIN Contents]
    BY <1>1 DEF Promise!Result, Promise!Known
  <1>14. Promise!Result(call) = [removed |-> key.place # 0]
    BY <1>10, <1>13
  <1> QED BY <1>1, <1>9, <1>11, <1>12, <1>14 DEF Promise!Answer

LEMMA RemoveAllAnswer ==
  ASSUME TablesInv, RemoveAllKeys
  PROVE  Promise!Answer
  <1>1. /\ at = "do" /\ call.op = "remove-all-keys!" /\ call' = NoCall
        /\ answer' = [cleared |-> TRUE] /\ split' = split
    BY DEF RemoveAllKeys, Return
  <1>2. Contents' = <<>>
    BY RemoveAllKeysInv, ContentsKnownNext, NoEntries
  <1>3. Promise!After(call) = <<>> /\ Promise!Result(call) = [cleared |-> TRUE] /\ call # NoCall
    BY <1>1 DEF Promise!After, Promise!Result, NoCall
  <1> QED BY <1>1, <1>2, <1>3 DEF Promise!Answer

LEMMA ReadAnswer ==
  ASSUME TablesInv, Element \/ SizeOf
  PROVE  Promise!Answer
  <1>1. /\ at = "do" /\ call.op \in {"element", "size"} /\ call' = NoCall
        /\ UNCHANGED <<addr, epoch, split, tableVars, rehash, iter>>
        /\ call.op = "element" => answer' = [element |-> IF key.place # 0
                                    THEN buckets[key.bucket][key.place].elt ELSE Default]
        /\ call.op = "size" => answer' = [size |-> tableSize]
    BY DEF Element, SizeOf, Return
  <1>2. Contents' = Contents /\ Promise!After(call) = Contents /\ call # NoCall
    BY <1>1 DEF tableVars, Contents, Entries, Promise!After, NoCall
  <1>3. /\ DOMAIN Contents = KeysOf(Entries)
        /\ \A f \in Entries : f.key \in KeysOf(Entries) /\ Contents[f.key] = f.elt
    BY ContentsKnown
  <1>4. CASE call.op = "element"
    <2>1. call.op \in KeyOps
      BY <1>4 DEF KeyOps
    <2>2. Promise!Result(call)
            = [element |-> IF call.key \in DOMAIN Contents THEN Contents[call.key] ELSE Default]
      BY <1>4 DEF Promise!Result, Promise!Known
    <2>3. CASE key.place = 0
      <3>1. call.key \notin DOMAIN Contents
        BY <1>1, <1>3, <2>1, <2>3, KeyFound
      <3> QED BY <1>1, <1>2, <1>4, <2>2, <2>3, <3>1 DEF Promise!Answer
    <2>4. CASE key.place # 0
      <3> DEFINE old == buckets[key.bucket][key.place]
      <3>1. old \in Entries /\ old.key = call.key
        BY <1>1, <2>1, <2>4, PlaceFound
      <3>2. call.key \in DOMAIN Contents /\ Contents[call.key] = old.elt
        BY <1>3, <3>1
      <3> QED BY <1>1, <1>2, <1>4, <2>2, <2>4, <3>2 DEF Promise!Answer
    <2> QED BY <2>3, <2>4
  <1>5. CASE call.op = "size"
    <2>1. Promise!Result(call) = [size |-> Cardinality(DOMAIN Contents)]
      BY <1>5, PromiseCardinality DEF Promise!Result
    <2>2. tableSize = Cardinality(DOMAIN Contents)
      BY <1>3 DEF TablesInv, EntriesInv
    <2> QED BY <1>1, <1>2, <1>5, <2>1, <2>2 DEF Promise!Answer
  <1> QED BY <1>1, <1>4, <1>5

(* The other steps leave the mapping and the call as they are. *)
LEMMA CheckStutters ==
  ASSUME TablesInv, CheckTable \/ CheckKey
  PROVE  UNCHANGED <<Contents, call, answer>>
  <1>1. /\ UNCHANGED <<addr, epoch, tableVars, call, answer, iter>> /\ at \in {"while", "table", "key"}
        /\ rehash' = rehash \/ rehash' = [NoRehash EXCEPT !.i = NextBucket(0)]
    BY DEF CheckTable, CheckKey, StartRehash, StartAgain
  <1>2. ~ InRehash
    BY <1>1 DEF InRehash
  <1>3. rehash = NoRehash
    BY <1>2, TableNow
  <1>4. rehash'.remaining = rehash.remaining /\ rehash'.deferred = rehash.deferred
    BY <1>1, <1>3 DEF NoRehash
  <1> QED BY <1>1, <1>4 DEF Contents, Entries, tableVars

LEMMA RehashStutters ==
  ASSUME TablesInv, RehashBucket \/ RehashEntry \/ RehashHash \/ FinishRehash
  PROVE  UNCHANGED <<Contents, call, answer>>
  <1>1. UNCHANGED <<call, answer>>
    BY DEF RehashBucket, RehashEntry, RehashHash, FinishRehash
  <1> QED BY <1>1, RehashBucketInv, RehashEntryInv, RehashHashInv, FinishRehashInv

LEMMA PromiseStep ==
  ASSUME SplitInv, [TablesNext]_vars
  PROVE  [Promise!PromiseNext]_<<Contents, call, answer, split # "never">>
  <1>1. CASE split # "never"
    BY <1>1, OnceSplit DEF Promise!PromiseNext, Promise!Drift
  <1>2. CASE split = "never" /\ split' # "never"
    <2>1. Collect
      BY <1>2, OnceSplit
    <2>2. UNCHANGED <<tableVars, threadVars>>
      BY <2>1 DEF Collect
    <2>3. UNCHANGED <<Contents, call, answer>>
      BY <2>2 DEF tableVars, threadVars, Contents, Entries
    <2> QED BY <1>2, <2>3 DEF Promise!PromiseNext, Promise!Spoil
  <1>3. CASE split = "never" /\ split' = "never"
    <2>1. TablesInv
      BY <1>3 DEF SplitInv
    <2>2. CASE \E c \in Calls : Begin(c)
      <3>1. PICK c \in Calls : Begin(c)
        BY <2>2
      <3>2. /\ call = NoCall /\ call' = c /\ answer' = NoAnswer
            /\ UNCHANGED <<tableVars, rehash>>
        BY <2>1, <3>1 DEF Begin, TablesInv, TypeInv
      <3>3. Contents' = Contents
        BY <3>2 DEF Contents, Entries, tableVars
      <3> QED BY <1>3, <3>2, <3>3 DEF Promise!PromiseNext, Promise!Begin
    <2>3. CASE ThreadStep
      <3>1. CASE Hash
        BY <1>3, <3>1 DEF Hash, Contents, Entries, tableVars
      <3>2. CASE CheckTable \/ CheckKey
        BY <1>3, <2>1, <3>2, CheckStutters
      <3>3. CASE RehashBucket \/ RehashEntry \/ RehashHash \/ FinishRehash
        BY <1>3, <2>1, <3>3, RehashStutters
      <3>4. CASE Element \/ SizeOf
        BY <2>1, <3>4, ReadAnswer DEF Promise!PromiseNext
      <3>5. CASE ElementSetter
        BY <2>1, <3>5, SetterAnswer DEF Promise!PromiseNext
      <3>6. CASE RemoveKey
        BY <2>1, <3>6, RemoveAnswer DEF Promise!PromiseNext
      <3>7. CASE RemoveAllKeys
        BY <2>1, <3>7, RemoveAllAnswer DEF Promise!PromiseNext
      <3> QED BY <2>3, <3>1, <3>2, <3>3, <3>4, <3>5, <3>6, <3>7 DEF ThreadStep
    <2>4. CASE IterBegin \/ IterNext \/ IterEnd \/ Collect \/ UNCHANGED vars
      <3>1. UNCHANGED <<tableVars, threadVars>>
        BY <2>4 DEF IterBegin, IterNext, IterEnd, Collect, vars
      <3> QED BY <1>3, <3>1 DEF tableVars, threadVars, Contents, Entries
    <2> QED BY <2>2, <2>3, <2>4 DEF TablesNext
  <1> QED BY <1>1, <1>2, <1>3

LEMMA PromiseBegins ==
  ASSUME TablesInit
  PROVE  Promise!PromiseInit
  <1>1. PICK n \in StartSizes : buckets = Empty(n)
    BY DEF TablesInit
  <1>2. n \in Nat \ {0} /\ rehash = NoRehash
    BY TablesAssumption DEF TablesInit, TablesAssumption
  <1>3. Held(buckets) = {}
    BY <1>1, <1>2, EmptyBuckets
  <1>4. Range(rehash.remaining) = {} /\ Range(rehash.deferred) = {}
    BY <1>2 DEF NoRehash, Range
  <1>5. Entries = {}
    BY <1>3, <1>4 DEF Entries, Held
  <1>6. Contents = <<>>
    BY <1>5, ContentsMap, NoEntries
  <1> QED BY <1>6 DEF TablesInit, Promise!PromiseInit

(* A table is a mapping until a collection strikes between two hashes of   *)
(* one rehash: whatever other collections come between the steps of its    *)
(* calls, and whenever they make it rehash, each call changes and answers  *)
(* in one step what it would of a mapping, and no other step changes the   *)
(* mapping.                                                                *)
THEOREM TableKeepsPromise == TablesSpec => KeepsPromise
  <1>1. TablesInit => Promise!PromiseInit
    BY PromiseBegins
  <1>2. SplitInv /\ [TablesNext]_vars
          => [Promise!PromiseNext]_<<Contents, call, answer, split # "never">>
    BY PromiseStep
  <1> QED BY <1>1, <1>2, TableInvariant, PTL DEF TablesSpec, KeepsPromise, Promise!PromiseSpec
=============================================================================
