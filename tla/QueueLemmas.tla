----------------------------- MODULE QueueLemmas ----------------------------
(***************************************************************************)
(* What the operations on queues return: sequences without repetition stay *)
(* so, and gain or lose the one member meant.  And what the proofs need of *)
(* functions that are defined by recursion on a position.                  *)
(***************************************************************************)
EXTENDS Queues, TLAPS, SequenceTheorems, WellFoundedInduction

(* Every non-empty set of naturals has a least member: with it a statement *)
(* about all naturals is proved by looking at its least counterexample.    *)
LEMMA LeastNat ==
  ASSUME NEW T \in SUBSET Nat, T # {}
  PROVE  \E x \in T : \A y \in T : x <= y
  <1> DEFINE R == {p \in Nat \X Nat : p[1] < p[2]}
  <1>1. IsWellFoundedOn(R, Nat)
    BY NatLessThanWellFounded, IsWellFoundedOnSubrelation DEF OpToRel
  <1>2. \A x, y \in Nat : x < y => <<x, y>> \in R
    OBVIOUS
  <1> HIDE DEF R
  <1>3. PICK x \in T : \A y \in T : ~ (<<y, x>> \in R)
    BY <1>1, WFMin
  <1>4. ASSUME NEW y \in T PROVE x <= y
    <2>1. ~ (y < x)
      BY <1>2, <1>3
    <2> QED BY <2>1
  <1> QED BY <1>4

-----------------------------------------------------------------------------
(* Membership in a queue, by position. *)
LEMMA InQueue ==
  ASSUME NEW S, NEW q \in Seq(S)
  PROVE  /\ DOMAIN q = 1..Len(q) /\ Len(q) \in Nat
         /\ \A i \in 1..Len(q) : q[i] \in Range(q)
         /\ \A t \in Range(q) : \E i \in 1..Len(q) : q[i] = t
         /\ Range(q) \subseteq S
  BY DEF Range

(* A thread appended to a queue it was not on. *)
LEMMA AppendQueue ==
  ASSUME NEW S, NEW q \in Seq(S), IsQueue(q), NEW t \in S, t \notin Range(q)
  PROVE  /\ Append(q, t) \in Seq(S)
         /\ IsQueue(Append(q, t))
         /\ Range(Append(q, t)) = Range(q) \cup {t}
  BY DEF IsQueue, IsInjective, Range

(* The head of a queue, and the queue without it. *)
LEMMA TailQueue ==
  ASSUME NEW S, NEW q \in Seq(S), IsQueue(q), q # <<>>
  PROVE  /\ Head(q) \in Range(q)
         /\ Head(q) \in S
         /\ Tail(q) \in Seq(S)
         /\ IsQueue(Tail(q))
         /\ Range(Tail(q)) = Range(q) \ {Head(q)}
  <1>1. Len(q) \in Nat \ {0} /\ Head(q) = q[1] /\ q[1] \in S
    OBVIOUS
  <1>2. /\ Tail(q) \in Seq(S) /\ Len(Tail(q)) = Len(q) - 1
        /\ \A i \in 1..(Len(q) - 1) : Tail(q)[i] = q[i + 1]
    OBVIOUS
  <1>3. IsQueue(Tail(q))
    BY <1>1, <1>2 DEF IsQueue, IsInjective
  <1>4. Range(Tail(q)) \subseteq Range(q) \ {q[1]}
    BY <1>1, <1>2 DEF IsQueue, IsInjective, Range
  <1>5. ASSUME NEW i \in 2..Len(q) PROVE q[i] \in Range(Tail(q))
    <2>1. i - 1 \in 1..Len(Tail(q)) /\ q[i] = Tail(q)[i - 1]
      BY <1>1, <1>2
    <2> QED BY <1>2, <2>1, InQueue
  <1> QED BY <1>1, <1>2, <1>3, <1>4, <1>5, InQueue

(* Two queues with no common member, joined. *)
LEMMA JoinQueues ==
  ASSUME NEW S, NEW q \in Seq(S), NEW r \in Seq(S), IsQueue(q), IsQueue(r),
         Range(q) \cap Range(r) = {}
  PROVE  /\ q \o r \in Seq(S)
         /\ IsQueue(q \o r)
         /\ Range(q \o r) = Range(q) \cup Range(r)
  <1>1. /\ q \o r \in Seq(S) /\ Len(q \o r) = Len(q) + Len(r)
        /\ \A i \in 1..Len(q) : (q \o r)[i] = q[i]
        /\ \A i \in 1..Len(r) : (q \o r)[Len(q) + i] = r[i]
    OBVIOUS
  <1>2. \A i \in DOMAIN (q \o r) :
          \/ i \in DOMAIN q /\ (q \o r)[i] = q[i]
          \/ i - Len(q) \in DOMAIN r /\ (q \o r)[i] = r[i - Len(q)]
    BY <1>1
  <1>3. ASSUME NEW i \in DOMAIN (q \o r), NEW j \in DOMAIN (q \o r),
               (q \o r)[i] = (q \o r)[j]
        PROVE  i = j
    <2>1. \A m \in 1..Len(q), n \in 1..Len(r) : q[m] # r[n]
      BY InQueue
    <2>2. CASE i \in DOMAIN q /\ j \in DOMAIN q
      BY <1>1, <1>3, <2>2 DEF IsQueue, IsInjective
    <2>3. CASE i \notin DOMAIN q /\ j \notin DOMAIN q
      <3>1. r[i - Len(q)] = r[j - Len(q)]
        BY <1>2, <1>3, <2>3
      <3>2. i - Len(q) = j - Len(q)
        BY <1>2, <2>3, <3>1 DEF IsQueue, IsInjective
      <3> QED BY <1>1, <3>2
    <2>4. CASE i \in DOMAIN q /\ j \notin DOMAIN q
      BY <1>1, <1>2, <1>3, <2>1, <2>4
    <2>5. CASE i \notin DOMAIN q /\ j \in DOMAIN q
      BY <1>1, <1>2, <1>3, <2>1, <2>5
    <2> QED BY <2>2, <2>3, <2>4, <2>5
  <1>4. Range(q \o r) \subseteq Range(q) \cup Range(r)
    BY <1>2 DEF Range
  <1>5. Range(q) \subseteq Range(q \o r)
    BY <1>1 DEF Range
  <1>6. ASSUME NEW i \in 1..Len(r) PROVE r[i] \in Range(q \o r)
    <2>1. Len(q) + i \in 1..Len(q \o r)
      BY <1>1
    <2> QED BY <1>1, <2>1, InQueue
  <1>7. Range(r) \subseteq Range(q \o r)
    BY <1>6, InQueue
  <1> QED BY <1>1, <1>3, <1>4, <1>5, <1>7 DEF IsQueue, IsInjective

(* The queue left when a member is unlinked. *)
LEMMA WithoutQueue ==
  ASSUME NEW S, NEW q \in Seq(S), IsQueue(q), NEW t \in Range(q)
  PROVE  /\ Without(q, t) \in Seq(S)
         /\ IsQueue(Without(q, t))
         /\ Range(Without(q, t)) = Range(q) \ {t}
  <1>1. PICK k \in 1..Len(q) : q[k] = t
    BY DEF Range
  <1> DEFINE w == SubSeq(q, 1, k - 1) \o SubSeq(q, k + 1, Len(q))
  <1>2. {i \in 1..Len(q) : q[i] = t} = {k}
    BY <1>1 DEF IsQueue, IsInjective
  <1>3. Without(q, t) = w
    <2>1. \E i \in 1..Len(q) : q[i] = t
      BY <1>1
    <2>2. SelectInSeq(q, LAMBDA v : v = t) = k
      <3>1. Min({k}) = k
        BY DEF Min
      <3> QED BY <1>2, <3>1 DEF SelectInSeq
    <2> QED BY <2>1, <2>2 DEF Without, RemoveFirst, RemoveAt
  <1>4. /\ w \in Seq(S) /\ Len(w) = Len(q) - 1
        /\ \A i \in 1..(Len(q) - 1) : w[i] = IF i < k THEN q[i] ELSE q[i + 1]
    <2> DEFINE a == SubSeq(q, 1, k - 1)  b == SubSeq(q, k + 1, Len(q))
    <2>1. /\ a \in Seq(S) /\ Len(a) = k - 1
          /\ \A i \in 1..(k - 1) : a[i] = q[i]
      OBVIOUS
    <2>2. /\ b \in Seq(S) /\ Len(b) = Len(q) - k
          /\ \A i \in 1..(Len(q) - k) : b[i] = q[k + i]
      OBVIOUS
    <2> HIDE DEF a, b
    <2>3. k \in Nat /\ Len(q) \in Nat /\ 1 <= k /\ k <= Len(q)
      OBVIOUS
    <2>4. /\ w \in Seq(S) /\ Len(w) = Len(a) + Len(b)
          /\ \A i \in 1..(Len(a) + Len(b)) :
               w[i] = IF i <= Len(a) THEN a[i] ELSE b[i - Len(a)]
      BY <2>1, <2>2, ConcatProperties DEF a, b
    <2> HIDE DEF w
    <2>5. Len(w) = Len(q) - 1
      BY <2>1, <2>2, <2>3, <2>4
    <2>6. ASSUME NEW i \in 1..(Len(q) - 1)
          PROVE  w[i] = IF i < k THEN q[i] ELSE q[i + 1]
      <3>1. ASSUME i < k PROVE w[i] = q[i]
        <4>1. i \in 1..(k - 1) /\ i <= Len(a) /\ i \in 1..(Len(a) + Len(b))
          BY <2>1, <2>2, <2>3, <3>1
        <4> QED BY <2>1, <2>4, <4>1
      <3>2. ASSUME ~ (i < k) PROVE w[i] = q[i + 1]
        <4>1. w[i] = b[i - (k - 1)]
          BY <2>1, <2>2, <2>3, <2>4, <3>2
        <4>2. i - (k - 1) \in 1..(Len(q) - k) /\ k + (i - (k - 1)) = i + 1
          BY <2>3, <3>2
        <4>3. b[i - (k - 1)] = q[k + (i - (k - 1))]
          BY <2>2, <4>2
        <4> QED BY <4>1, <4>2, <4>3
      <3> QED BY <3>1, <3>2
    <2> QED BY <2>4, <2>5, <2>6
  <1> HIDE DEF w
  <1> DEFINE from(i) == IF i < k THEN i ELSE i + 1
  <1>a. \A m, n \in 1..Len(q) : q[m] = q[n] => m = n
    BY DEF IsQueue, IsInjective
  <1>b. /\ DOMAIN w = 1..(Len(q) - 1)
        /\ \A i \in 1..(Len(q) - 1) :
             from(i) \in (1..Len(q)) \ {k} /\ w[i] = q[from(i)]
    BY <1>4
  <1>c. \A i, j \in 1..(Len(q) - 1) : from(i) = from(j) => i = j
    OBVIOUS
  <1> HIDE DEF from
  <1>5. ASSUME NEW i \in DOMAIN w, NEW j \in DOMAIN w, w[i] = w[j]
        PROVE  i = j
    BY SMTT(30), <1>5, <1>a, <1>b, <1>c
  <1>6. ASSUME NEW i \in 1..(Len(q) - 1) PROVE w[i] \in Range(q) \ {t}
    BY ZenonT(60), <1>1, <1>a, <1>b, InQueue
  <1>7. ASSUME NEW i \in 1..Len(q), i # k PROVE q[i] \in Range(w)
    <2>1. CASE i < k
      BY <1>4, <2>1, w[i] = q[i], InQueue
    <2>2. CASE i > k
      <3>1. i - 1 \in 1..Len(w) /\ w[i - 1] = q[i]
        BY <1>4, <2>2
      <3> QED BY <1>4, <3>1, InQueue
    <2> QED BY <1>7, <2>1, <2>2
  <1>8. Range(w) \subseteq Range(q) \ {t}
    BY <1>4, <1>6, InQueue
  <1>9. Range(q) \ {t} \subseteq Range(w)
    BY <1>1, <1>7, InQueue
  <1> QED BY <1>3, <1>4, <1>5, <1>8, <1>9 DEF IsQueue, IsInjective

(* What the recursion of SubQueue computes at step i. *)
SubQueueStep(q, K, upTo, i) ==
  IF i = 0 THEN <<>>
  ELSE IF q[i] \in K THEN Append(upTo[i - 1], q[i])
  ELSE upTo[i - 1]

(* The recursive function inside SubQueue exists, by extending it from the *)
(* positions before the least one where it would not.                      *)
LEMMA SubQueueRecursion ==
  ASSUME NEW S, NEW q \in Seq(S), NEW K
  PROVE  \E f : /\ f = [i \in 0..Len(q) |-> SubQueueStep(q, K, f, i)]
                /\ SubQueue(q, K) = f[Len(q)]
  <1> DEFINE Step(f, i) == SubQueueStep(q, K, f, i)
             UpTo(n) == \E f : f = [i \in 0..n |-> Step(f, i)]
             T == {n \in Nat : n <= Len(q) /\ ~ UpTo(n)}
  <1>1. ASSUME T # {} PROVE FALSE
    <2>1. PICK n \in T : \A m \in T : n <= m
      <3> HIDE DEF UpTo
      <3>1. T \in SUBSET Nat
        OBVIOUS
      <3> QED BY <1>1, <3>1, LeastNat
    <2>2. n # 0
      <3>1. [i \in 0..0 |-> <<>>]
              = [i \in 0..0 |-> Step([j \in 0..0 |-> <<>>], i)]
        BY DEF SubQueueStep
      <3>2. UpTo(0)
        BY <3>1
      <3> QED BY <3>2
    <2>3. UpTo(n - 1)
      <3> HIDE DEF UpTo
      <3> QED BY <2>1, <2>2
    <2>4. PICK f : f = [i \in 0..(n - 1) |-> Step(f, i)]
      BY <2>3
    <2> DEFINE g == [i \in 0..n |-> IF i = n THEN Step(f, n) ELSE f[i]]
    <2>5. ASSUME NEW i \in 0..n PROVE g[i] = Step(g, i)
      <3>1. n \in Nat \ {0}
        BY <2>2
      <3>2. CASE i = n
        <4>1. g[n - 1] = f[n - 1]
          BY <3>1
        <4> QED BY <3>1, <3>2, <4>1 DEF SubQueueStep
      <3>3. CASE i < n
        <4>1. f[i] = Step(f, i)
          BY <2>4, <3>1, <3>3
        <4>2. i # 0 => g[i - 1] = f[i - 1]
          BY <3>1, <3>3
        <4> QED BY <3>1, <3>3, <4>1, <4>2 DEF SubQueueStep
      <3> QED BY <3>1, <3>2, <3>3
    <2>6. g = [i \in 0..n |-> Step(g, i)]
      <3>1. g = [i \in 0..n |-> g[i]]
        OBVIOUS
      <3> HIDE DEF g
      <3> QED BY <2>5, <3>1
    <2>7. UpTo(n)
      <3> HIDE DEF g
      <3> QED BY <2>6
    <2> QED BY <2>1, <2>7
  <1>2. UpTo(Len(q))
    <2>1. Len(q) \in Nat
      OBVIOUS
    <2> HIDE DEF UpTo
    <2> QED BY <1>1, <2>1
  <1> DEFINE F == CHOOSE f : f = [i \in 0..Len(q) |-> Step(f, i)]
  <1>3. SubQueue(q, K) = F[Len(q)]
    BY DEF SubQueue, SubQueueStep
  <1>4. F = [i \in 0..Len(q) |-> Step(F, i)]
    BY <1>2
  <1> QED BY <1>3, <1>4

(* The members of a queue that are in K are a queue of just these members. *)
LEMMA SubQueueIsQueue ==
  ASSUME NEW S, NEW q \in Seq(S), IsQueue(q), NEW K
  PROVE  /\ SubQueue(q, K) \in Seq(S)
         /\ IsQueue(SubQueue(q, K))
         /\ Range(SubQueue(q, K)) = Range(q) \cap K
  <1>1. PICK f : /\ f = [i \in 0..Len(q) |-> SubQueueStep(q, K, f, i)]
                 /\ SubQueue(q, K) = f[Len(q)]
    BY SubQueueRecursion
  <1> DEFINE Kept(n) == {q[i] : i \in {j \in 1..n : q[j] \in K}}
             Good(n) == /\ f[n] \in Seq(S)
                        /\ IsQueue(f[n])
                        /\ Range(f[n]) = Kept(n)
             T == {n \in Nat : n <= Len(q) /\ ~ Good(n)}
  <1>2. f[0] = <<>>
    BY <1>1 DEF SubQueueStep
  <1>3. \A n \in 1..Len(q) :
          f[n] = IF q[n] \in K THEN Append(f[n - 1], q[n]) ELSE f[n - 1]
    <2>1. ASSUME NEW n \in 1..Len(q) PROVE f[n] = SubQueueStep(q, K, f, n)
      BY <1>1
    <2> QED BY <2>1 DEF SubQueueStep
  <1>4. ASSUME T # {} PROVE FALSE
    <2>1. PICK n \in T : \A m \in T : n <= m
      <3> HIDE DEF Good
      <3>1. T \in SUBSET Nat
        OBVIOUS
      <3> QED BY <1>4, <3>1, LeastNat
    <2>2. Good(0)
      BY <1>2 DEF IsQueue, IsInjective, Range
    <2>3. n \in 1..Len(q)
      <3> HIDE DEF Good
      <3> QED BY <2>1, <2>2
    <2>4. Good(n - 1)
      <3> HIDE DEF Good
      <3> QED BY <2>1, <2>3
    <2>5. CASE q[n] \in K
      <3>1. Kept(n) = Kept(n - 1) \cup {q[n]}
        BY <2>3, <2>5
      <3>2. q[n] \in S /\ q[n] \notin Kept(n - 1)
        BY <2>3 DEF IsQueue, IsInjective
      <3>3. f[n] = Append(f[n - 1], q[n])
        BY <1>3, <2>3, <2>5
      <3> HIDE DEF Kept
      <3>4. Good(n)
        BY <2>4, <3>1, <3>2, <3>3, AppendQueue
      <3> QED BY <2>1, <3>4
    <2>6. CASE q[n] \notin K
      <3>1. Kept(n) = Kept(n - 1)
        BY <2>3, <2>6
      <3>2. f[n] = f[n - 1]
        BY <1>3, <2>3, <2>6
      <3> HIDE DEF Kept
      <3>3. Good(n)
        BY <2>4, <3>1, <3>2
      <3> QED BY <2>1, <3>3
    <2> QED BY <2>5, <2>6
  <1>5. Good(Len(q))
    <2>1. Len(q) \in Nat
      OBVIOUS
    <2> HIDE DEF Good
    <2> QED BY <1>4, <2>1
  <1>6. Kept(Len(q)) = Range(q) \cap K
    BY InQueue DEF Range
  <1> QED BY <1>1, <1>5, <1>6

(* The part of any sequence that is in K. *)
LEMMA SubQueueMembers ==
  ASSUME NEW S, NEW q \in Seq(S), NEW K
  PROVE  /\ SubQueue(q, K) \in Seq(S)
         /\ Range(SubQueue(q, K)) \subseteq K
  <1>1. PICK f : /\ f = [i \in 0..Len(q) |-> SubQueueStep(q, K, f, i)]
                 /\ SubQueue(q, K) = f[Len(q)]
    BY SubQueueRecursion
  <1> DEFINE Good(n) == f[n] \in Seq(S) /\ Range(f[n]) \subseteq K
             T == {n \in Nat : n <= Len(q) /\ ~ Good(n)}
  <1>2. f[0] = <<>>
    BY <1>1 DEF SubQueueStep
  <1>3. \A n \in 1..Len(q) :
          f[n] = IF q[n] \in K THEN Append(f[n - 1], q[n]) ELSE f[n - 1]
    <2>1. ASSUME NEW n \in 1..Len(q) PROVE f[n] = SubQueueStep(q, K, f, n)
      BY <1>1
    <2> QED BY <2>1 DEF SubQueueStep
  <1>4. ASSUME T # {} PROVE FALSE
    <2>1. PICK n \in T : \A m \in T : n <= m
      <3> HIDE DEF Good
      <3>1. T \in SUBSET Nat
        OBVIOUS
      <3> QED BY <1>4, <3>1, LeastNat
    <2>2. Good(0)
      BY <1>2 DEF Range
    <2>3. n \in 1..Len(q)
      <3> HIDE DEF Good
      <3> QED BY <2>1, <2>2
    <2>4. Good(n - 1)
      <3> HIDE DEF Good
      <3> QED BY <2>1, <2>3
    <2>5. CASE q[n] \in K
      <3>1. f[n] = Append(f[n - 1], q[n])
        BY <1>3, <2>3, <2>5
      <3>2. q[n] \in S
        BY <2>3
      <3>3. Good(n)
        BY <2>4, <2>5, <3>1, <3>2 DEF Range
      <3> QED BY <2>1, <3>3
    <2>6. CASE q[n] \notin K
      <3>1. Good(n)
        BY <1>3, <2>3, <2>4, <2>6
      <3> QED BY <2>1, <3>1
    <2> QED BY <2>5, <2>6
  <1>5. Good(Len(q))
    <2>1. Len(q) \in Nat
      OBVIOUS
    <2> HIDE DEF Good
    <2> QED BY <1>4, <2>1
  <1> QED BY <1>1, <1>5

(* That part is in the order of the whole: a member of q that is in K has  *)
(* a place in it before which only earlier members of q come.              *)
LEMMA SubQueueOrder ==
  ASSUME NEW S, NEW q \in Seq(S), NEW K
  PROVE  /\ \A j \in 1..Len(SubQueue(q, K)) : \E m \in 1..Len(q) : SubQueue(q, K)[j] = q[m]
         /\ \A p \in 1..Len(q) : q[p] \in K =>
              \E i \in 1..Len(SubQueue(q, K)) :
                /\ SubQueue(q, K)[i] = q[p]
                /\ \A j \in 1..(i - 1) : \E m \in 1..(p - 1) : SubQueue(q, K)[j] = q[m]
  <1>1. PICK f : /\ f = [i \in 0..Len(q) |-> SubQueueStep(q, K, f, i)]
                 /\ SubQueue(q, K) = f[Len(q)]
    BY SubQueueRecursion
  <1> DEFINE From(s, n) == \A j \in 1..Len(s) : \E m \in 1..n : s[j] = q[m]
             Placed(s, p) == \E i \in 1..Len(s) :
                               /\ s[i] = q[p]
                               /\ \A j \in 1..(i - 1) : \E m \in 1..(p - 1) : s[j] = q[m]
             Good(n) == /\ f[n] \in Seq(S) /\ From(f[n], n)
                        /\ \A p \in 1..n : q[p] \in K => Placed(f[n], p)
             T == {n \in Nat : n <= Len(q) /\ ~ Good(n)}
  <1>2. f[0] = <<>>
    BY <1>1 DEF SubQueueStep
  <1>3. \A n \in 1..Len(q) :
          f[n] = IF q[n] \in K THEN Append(f[n - 1], q[n]) ELSE f[n - 1]
    <2>1. ASSUME NEW n \in 1..Len(q) PROVE f[n] = SubQueueStep(q, K, f, n)
      BY <1>1
    <2> QED BY <2>1 DEF SubQueueStep
  <1>4. ASSUME T # {} PROVE FALSE
    <2>1. PICK n \in T : \A m \in T : n <= m
      <3> HIDE DEF Good
      <3>1. T \in SUBSET Nat
        OBVIOUS
      <3> QED BY <1>4, <3>1, LeastNat
    <2>2. Good(0)
      BY <1>2
    <2>3. n \in 1..Len(q)
      <3> HIDE DEF Good
      <3> QED BY <2>1, <2>2
    <2>4. Good(n - 1)
      <3> HIDE DEF Good
      <3> QED BY <2>1, <2>3
    <2> DEFINE s == f[n - 1]
    <2>5. /\ s \in Seq(S) /\ From(s, n - 1) /\ n - 1 \in Nat
          /\ \A p \in 1..(n - 1) : q[p] \in K => Placed(s, p)
      BY <2>3, <2>4
    <2>6. \A p \in 1..n : p = n \/ p \in 1..(n - 1)
      BY <2>3
    <2>7. CASE q[n] \in K
      <3> DEFINE r == Append(s, q[n])
                 l == Len(s)
      <3>1. f[n] = r
        BY <1>3, <2>3, <2>7
      <3>2. q[n] \in S
        BY <2>3
      <3> HIDE DEF s
      <3>3. /\ r \in Seq(S) /\ Len(r) = l + 1 /\ l \in Nat /\ r[l + 1] = q[n]
            /\ \A j \in 1..l : r[j] = s[j]
        BY <2>5, <3>2
      <3> HIDE DEF r
      <3>4. From(r, n)
        <4>1. ASSUME NEW j \in 1..(l + 1) PROVE \E m \in 1..n : r[j] = q[m]
          <5>1. CASE j = l + 1
            <6>1. n \in 1..n
              BY <2>3
            <6> QED BY <3>3, <5>1, <6>1
          <5>2. CASE j # l + 1
            <6>1. j \in 1..l
              BY <3>3, <5>2
            <6>2. PICK m \in 1..(n - 1) : s[j] = q[m]
              BY <2>5, <6>1
            <6>3. m \in 1..n
              BY <2>3
            <6> QED BY <3>3, <6>1, <6>2, <6>3
          <5> QED BY <5>1, <5>2
        <4> QED BY <3>3, <4>1
      <3>5. ASSUME NEW p \in 1..(n - 1), q[p] \in K PROVE Placed(r, p)
        <4>1. PICK i \in 1..l : /\ s[i] = q[p]
                                /\ \A j \in 1..(i - 1) : \E m \in 1..(p - 1) : s[j] = q[m]
          BY <2>5, <3>5
        <4>2. i \in 1..Len(r) /\ r[i] = q[p]
          BY <3>3, <4>1
        <4>3. \A j \in 1..(i - 1) : r[j] = s[j]
          BY <3>3
        <4> QED BY <4>1, <4>2, <4>3
      <3>6. Placed(r, n)
        <4>1. l + 1 \in 1..Len(r) /\ (l + 1) - 1 = l
          BY <3>3
        <4>2. \A j \in 1..l : \E m \in 1..(n - 1) : r[j] = q[m]
          BY <2>5, <3>3
        <4> QED BY <3>3, <4>1, <4>2
      <3>7. Good(n)
        <4> HIDE DEF From, Placed
        <4> QED BY <2>6, <3>1, <3>3, <3>4, <3>5, <3>6
      <3> QED BY <2>1, <3>7
    <2>8. CASE q[n] \notin K
      <3>1. f[n] = s
        BY <1>3, <2>3, <2>8
      <3> HIDE DEF s
      <3>2. From(s, n)
        <4>1. 1..(n - 1) \subseteq 1..n
          BY <2>3
        <4> QED BY <2>5, <4>1
      <3>3. Good(n)
        <4> HIDE DEF From, Placed
        <4> QED BY <2>5, <2>6, <2>8, <3>1, <3>2
      <3> QED BY <2>1, <3>3
    <2> QED BY <2>7, <2>8
  <1>5. Good(Len(q))
    <2>1. Len(q) \in Nat
      OBVIOUS
    <2> HIDE DEF Good
    <2> QED BY <1>4, <2>1
  <1> DEFINE r == f[Len(q)]
  <1>6. SubQueue(q, K) = r /\ From(r, Len(q)) /\ \A p \in 1..Len(q) : q[p] \in K => Placed(r, p)
    BY <1>1, <1>5
  <1> HIDE DEF r
  <1> QED BY <1>6

-----------------------------------------------------------------------------
(***************************************************************************)
(* A function defined by recursion on a position: its value at 0 is given, *)
(* and F takes a position and the value before it to the value there.      *)
(***************************************************************************)
Follows(g, n, a, F) ==
  g = [i \in 0..n |-> IF i = 0 THEN a ELSE F[<<i, g[i - 1]>>]]

(* Such a function exists. *)
LEMMA RecursionExists ==
  ASSUME NEW S, NEW a \in S, NEW n \in Nat, NEW F \in [(1..n) \X S -> S]
  PROVE  \E g \in [0..n -> S] : Follows(g, n, a, F)
  <1> DEFINE UpTo(k) == \E g \in [0..k -> S] : Follows(g, k, a, F)
             T == {k \in Nat : k <= n /\ ~ UpTo(k)}
  <1>1. UpTo(0)
    <2> DEFINE g == [i \in 0..0 |-> a]
    <2>1. g \in [0..0 -> S] /\ Follows(g, 0, a, F)
      BY DEF Follows
    <2> QED BY <2>1
  <1>2. ASSUME NEW k \in 1..n, UpTo(k - 1) PROVE UpTo(k)
    <2>1. PICK f \in [0..(k - 1) -> S] : Follows(f, k - 1, a, F)
      BY <1>2
    <2> DEFINE next == F[<<k, f[k - 1]>>]
               g == [i \in 0..k |-> IF i = k THEN next ELSE f[i]]
    <2>2. k - 1 \in 0..(k - 1) /\ f[k - 1] \in S /\ <<k, f[k - 1]>> \in (1..n) \X S
      OBVIOUS
    <2>3. next \in S
      BY <2>2
    <2> HIDE DEF next
    <2>4. g \in [0..k -> S]
      BY <2>1, <2>3
    <2>5. \A i \in 0..(k - 1) : f[i] = IF i = 0 THEN a ELSE F[<<i, f[i - 1]>>]
      BY <2>1 DEF Follows
    <2>6. /\ g[k] = next
          /\ \A i \in 0..(k - 1) : g[i] = f[i]
      OBVIOUS
    <2>7. ASSUME NEW i \in 0..k
          PROVE  g[i] = IF i = 0 THEN a ELSE F[<<i, g[i - 1]>>]
      <3> HIDE DEF g
      <3>1. CASE i = k
        <4>1. g[k - 1] = f[k - 1]
          BY <2>6
        <4> QED BY <2>6, <3>1, <4>1 DEF next
      <3>2. CASE i # k
        <4>1. i \in 0..(k - 1) /\ (i # 0 => i - 1 \in 0..(k - 1))
          BY <3>2
        <4>2. g[i] = f[i] /\ (i # 0 => g[i - 1] = f[i - 1])
          BY <2>6, <4>1
        <4> QED BY <2>5, <4>1, <4>2
      <3> QED BY <3>1, <3>2
    <2>8. g = [i \in 0..k |-> g[i]]
      OBVIOUS
    <2> HIDE DEF g
    <2>9. Follows(g, k, a, F)
      BY <2>7, <2>8 DEF Follows
    <2> QED BY <2>4, <2>9
  <1> HIDE DEF UpTo
  <1>3. ASSUME T # {} PROVE FALSE
    <2>1. PICK k \in T : \A m \in T : k <= m
      <3>1. T \in SUBSET Nat
        OBVIOUS
      <3> QED BY <1>3, <3>1, LeastNat
    <2>2. k \in 1..n
      BY <1>1, <2>1
    <2>3. UpTo(k - 1)
      BY <2>1, <2>2
    <2> QED BY <1>2, <2>1, <2>2, <2>3
  <1>4. UpTo(n)
    BY <1>3
  <1> QED BY <1>4 DEF UpTo

(* Its values, and that they are determined. *)
LEMMA RecursionValues ==
  ASSUME NEW S, NEW a \in S, NEW n \in Nat, NEW F \in [(1..n) \X S -> S],
         NEW g, Follows(g, n, a, F)
  PROVE  /\ g \in [0..n -> S]
         /\ g[0] = a
         /\ \A i \in 1..n : g[i] = F[<<i, g[i - 1]>>]
  <1>1. g[0] = a
    BY DEF Follows
  <1>2. ASSUME NEW i \in 1..n PROVE g[i] = F[<<i, g[i - 1]>>]
    BY DEF Follows
  <1> DEFINE T == {i \in Nat : i <= n /\ g[i] \notin S}
  <1>3. ASSUME T # {} PROVE FALSE
    <2>1. PICK k \in T : \A m \in T : k <= m
      <3>1. T \in SUBSET Nat
        OBVIOUS
      <3> QED BY <1>3, <3>1, LeastNat
    <2>2. k \in 1..n
      BY <1>1, <2>1
    <2>3. g[k - 1] \in S
      BY <2>1, <2>2
    <2>4. <<k, g[k - 1]>> \in (1..n) \X S
      BY <2>2, <2>3
    <2>5. g[k] \in S
      BY <1>2, <2>2, <2>4
    <2> QED BY <2>1, <2>5
  <1>4. \A i \in 0..n : g[i] \in S
    BY <1>3
  <1>5. g \in [0..n -> S]
    <2>1. g = [i \in 0..n |-> IF i = 0 THEN a ELSE F[<<i, g[i - 1]>>]]
      BY DEF Follows
    <2>2. DOMAIN g = 0..n /\ g = [i \in 0..n |-> g[i]]
      BY <2>1
    <2> QED BY <1>4, <2>2
  <1> QED BY <1>1, <1>2, <1>5
-----------------------------------------------------------------------------
(***************************************************************************)
(* Folds.  FoldLeft is defined by recursion on the set of the positions    *)
(* that are still to come, the last of them first.                         *)
(***************************************************************************)

(* A non-empty set of positions has a greatest member. *)
LEMMA MaxPosition ==
  ASSUME NEW n \in Nat, NEW s \in SUBSET (1..n), s # {}
  PROVE  Max(s) \in s /\ Max(s) \in 1..n /\ \A x \in s : x <= Max(s)
  <1> DEFINE T == {n - x : x \in s}
  <1>1. PICK y \in T : \A z \in T : y <= z
    <2>1. \A x \in s : n - x \in Nat
      OBVIOUS
    <2>2. T \in SUBSET Nat /\ T # {}
      BY <2>1
    <2> QED BY <2>2, LeastNat
  <1>2. PICK m \in s : y = n - m
    OBVIOUS
  <1>3. ASSUME NEW x \in s PROVE x <= m
    <2>1. n - m <= n - x
      BY <1>1, <1>2
    <2>2. x \in Nat /\ m \in Nat
      OBVIOUS
    <2> QED BY <2>1, <2>2
  <1>4. \E x \in s : \A z \in s : x >= z
    BY <1>3
  <1> QED BY <1>4 DEF Max

(* The last of the first k positions, and the others. *)
LEMMA FirstPositions ==
  ASSUME NEW k \in Nat \ {0}
  PROVE  /\ 1..k # {} /\ Max(1..k) = k /\ (1..k) \ {k} = 1..(k - 1)
         /\ \A s \in SUBSET (1..k) : k \in s => Max(s) = k /\ s \ {k} \in SUBSET (1..(k - 1))
         /\ \A s \in SUBSET (1..k) : k \notin s => s \in SUBSET (1..(k - 1))
  <1>1. ASSUME NEW s \in SUBSET (1..k), k \in s PROVE Max(s) = k
    <2>1. Max(s) \in 1..k /\ k <= Max(s)
      BY <1>1, MaxPosition
    <2> QED BY <2>1
  <1>2. 1..k # {} /\ k \in 1..k /\ 1..k \in SUBSET (1..k) /\ (1..k) \ {k} = 1..(k - 1)
    OBVIOUS
  <1>3. ASSUME NEW s \in SUBSET (1..k)
        PROVE  /\ s \ {k} \in SUBSET (1..(k - 1))
               /\ k \notin s => s \in SUBSET (1..(k - 1))
    OBVIOUS
  <1> QED BY <1>1, <1>2, <1>3

(* What such a recursion does at one set, when the step is a function of   *)
(* the last position and the value without it.                             *)
FoldStep(a, F, f, s) == IF s = {} THEN a ELSE F[<<Max(s), f[s \ {Max(s)}]>>]
Folds(f, n, a, F) == \A s \in SUBSET (1..n) : f[s] = FoldStep(a, F, f, s)

(* The function that the recursion defines exists. *)
LEMMA FoldExists ==
  ASSUME NEW S, NEW a \in S, NEW n \in Nat, NEW F \in [(1..n) \X S -> S]
  PROVE  \E f \in [SUBSET (1..n) -> S] : Folds(f, n, a, F)
  <1> DEFINE UpTo(k) == \E f \in [SUBSET (1..k) -> S] : Folds(f, k, a, F)
             T == {k \in Nat : k <= n /\ ~ UpTo(k)}
  <1>1. UpTo(0)
    <2> DEFINE f == [s \in SUBSET (1..0) |-> a]
    <2>1. SUBSET (1..0) = {{}}
      OBVIOUS
    <2>2. f \in [SUBSET (1..0) -> S] /\ Folds(f, 0, a, F)
      BY <2>1 DEF FoldStep, Folds
    <2> QED BY <2>2
  <1>2. ASSUME NEW k \in 1..n, UpTo(k - 1) PROVE UpTo(k)
    <2>1. PICK f \in [SUBSET (1..(k - 1)) -> S] : Folds(f, k - 1, a, F)
      BY <1>2
    <2> DEFINE g == [s \in SUBSET (1..k) |->
                       IF k \in s THEN F[<<k, f[s \ {k}]>>] ELSE f[s]]
    <2>2. k \in Nat \ {0}
      OBVIOUS
    <2>3. ASSUME NEW s \in SUBSET (1..k) PROVE g[s] \in S
      <3>1. CASE k \in s
        <4>1. f[s \ {k}] \in S
          BY <2>1, <2>2, <3>1, FirstPositions
        <4>2. <<k, f[s \ {k}]>> \in (1..n) \X S
          BY <4>1
        <4> QED BY <3>1, <4>2
      <3>2. CASE k \notin s
        BY <2>1, <2>2, <3>2, FirstPositions
      <3> QED BY <3>1, <3>2
    <2>4. ASSUME NEW s \in SUBSET (1..(k - 1)) PROVE g[s] = f[s]
      <3>1. k \notin s /\ s \in SUBSET (1..k)
        BY <2>2
      <3> QED BY <3>1
    <2>5. ASSUME NEW s \in SUBSET (1..k) PROVE g[s] = FoldStep(a, F, g, s)
      <3>1. CASE k \in s
        <4>1. s # {} /\ Max(s) = k /\ s \ {k} \in SUBSET (1..(k - 1))
          BY <2>2, <3>1, FirstPositions
        <4>2. g[s] = F[<<k, f[s \ {k}]>>]
          BY <3>1
        <4>3. g[s \ {k}] = f[s \ {k}]
          BY <2>4, <4>1
        <4> HIDE DEF g
        <4> QED BY <4>1, <4>2, <4>3 DEF FoldStep
      <3>2. CASE k \notin s
        <4>1. s \in SUBSET (1..(k - 1))
          BY <2>2, <3>2, FirstPositions
        <4>2. g[s] = FoldStep(a, F, f, s)
          BY <2>1, <2>4, <4>1 DEF Folds
        <4>3. s # {} => s \ {Max(s)} \in SUBSET (1..(k - 1))
          BY <4>1
        <4>4. s # {} => g[s \ {Max(s)}] = f[s \ {Max(s)}]
          BY <2>4, <4>3
        <4> HIDE DEF g
        <4> QED BY <4>2, <4>4 DEF FoldStep
      <3> QED BY <3>1, <3>2
    <2>6. g \in [SUBSET (1..k) -> S]
      BY <2>3
    <2> HIDE DEF g
    <2> QED BY <2>5, <2>6 DEF Folds
  <1> HIDE DEF UpTo
  <1>3. ASSUME T # {} PROVE FALSE
    <2>1. PICK k \in T : \A m \in T : k <= m
      <3>1. T \in SUBSET Nat
        OBVIOUS
      <3> QED BY <1>3, <3>1, LeastNat
    <2>2. k \in 1..n
      BY <1>1, <2>1
    <2>3. UpTo(k - 1)
      BY <2>1, <2>2
    <2> QED BY <1>2, <2>1, <2>2, <2>3
  <1>4. UpTo(n)
    BY <1>3
  <1> QED BY <1>4 DEF UpTo
-----------------------------------------------------------------------------
(***************************************************************************)
(* Queues taken apart and put together.                                    *)
(***************************************************************************)

(* A member put at the head of a queue it was not on. *)
LEMMA ConsQueue ==
  ASSUME NEW S, NEW q \in Seq(S), IsQueue(q), NEW t \in S, t \notin Range(q)
  PROVE  /\ <<t>> \o q \in Seq(S)
         /\ IsQueue(<<t>> \o q)
         /\ Range(<<t>> \o q) = Range(q) \cup {t}
  <1> DEFINE u == <<t>>
  <1>1. u \in Seq(S) /\ DOMAIN u = {1} /\ u[1] = t
    OBVIOUS
  <1> HIDE DEF u
  <1>2. IsQueue(u) /\ Range(u) = {t}
    BY <1>1 DEF IsQueue, IsInjective, Range
  <1>3. /\ u \o q \in Seq(S) /\ IsQueue(u \o q)
        /\ Range(u \o q) = Range(q) \cup {t}
    BY <1>1, <1>2, JoinQueues
  <1> QED BY <1>3 DEF u

(* The member at one place unlinked. *)
LEMMA RemoveAtQueue ==
  ASSUME NEW S, NEW q \in Seq(S), IsQueue(q), NEW k \in DOMAIN q
  PROVE  /\ RemoveAt(q, k) \in Seq(S)
         /\ IsQueue(RemoveAt(q, k))
         /\ Range(RemoveAt(q, k)) = Range(q) \ {q[k]}
  <1>1. k \in 1..Len(q) /\ q[k] \in Range(q)
    BY InQueue
  <1>2. {i \in 1..Len(q) : q[i] = q[k]} = {k}
    BY <1>1 DEF IsQueue, IsInjective
  <1>3. SelectInSeq(q, LAMBDA v : v = q[k]) = k
    <2>1. Min({k}) = k
      BY <1>1 DEF Min
    <2> QED BY <1>2, <2>1 DEF SelectInSeq
  <1>4. Without(q, q[k]) = RemoveAt(q, k)
    BY <1>1, <1>3 DEF Without, RemoveFirst
  <1> QED BY <1>1, <1>4, WithoutQueue

(* A queue read backwards. *)
LEMMA ReverseQueue ==
  ASSUME NEW S, NEW q \in Seq(S), IsQueue(q)
  PROVE  /\ Reverse(q) \in Seq(S)
         /\ IsQueue(Reverse(q))
         /\ Range(Reverse(q)) = Range(q)
  <1> DEFINE r == Reverse(q)
             back(k) == Len(q) - k + 1
  <1>1. /\ r \in Seq(S) /\ DOMAIN r = 1..Len(q)
        /\ \A k \in 1..Len(q) : back(k) \in 1..Len(q) /\ r[k] = q[back(k)]
    BY DEF Reverse
  <1>2. \A k \in 1..Len(q) : back(back(k)) = k
    OBVIOUS
  <1>3. \A j, k \in 1..Len(q) : back(j) = back(k) => j = k
    OBVIOUS
  <1> HIDE DEF r, back
  <1>4. IsQueue(r)
    BY <1>1, <1>3 DEF IsQueue, IsInjective
  <1>5. Range(r) \subseteq Range(q)
    BY <1>1, InQueue DEF Range
  <1>6. ASSUME NEW k \in 1..Len(q) PROVE q[k] \in Range(r)
    <2>1. r[back(k)] = q[k]
      BY <1>1, <1>2
    <2> QED BY <1>1, <2>1 DEF Range
  <1>7. Range(q) \subseteq Range(r)
    BY <1>6, InQueue
  <1>8. r \in Seq(S) /\ IsQueue(r) /\ Range(r) = Range(q)
    BY <1>1, <1>4, <1>5, <1>7
  <1> QED BY <1>8 DEF r

(* What the recursion of FlattenSeq computes at step i. *)
FlattenStep(seqs, f, i) == IF i = 1 THEN seqs[i] ELSE f[i - 1] \o seqs[i]

(* The recursive function inside FlattenSeq exists. *)
LEMMA FlattenRecursion ==
  ASSUME NEW n \in Nat \ {0}, NEW seqs, Len(seqs) = n
  PROVE  \E f : /\ f = [i \in 1..n |-> FlattenStep(seqs, f, i)]
                /\ FlattenSeq(seqs) = f[n]
  <1> DEFINE UpTo(k) == \E f : f = [i \in 1..k |-> FlattenStep(seqs, f, i)]
             T == {k \in Nat \ {0} : k <= n /\ ~ UpTo(k)}
  <1>1. UpTo(1)
    <2> DEFINE f == [i \in 1..1 |-> seqs[i]]
    <2>1. f = [i \in 1..1 |-> FlattenStep(seqs, f, i)]
      BY DEF FlattenStep
    <2> QED BY <2>1
  <1>2. ASSUME NEW k \in 2..n, UpTo(k - 1) PROVE UpTo(k)
    <2>1. PICK f : f = [i \in 1..(k - 1) |-> FlattenStep(seqs, f, i)]
      BY <1>2
    <2> DEFINE g == [i \in 1..k |-> IF i = k THEN FlattenStep(seqs, f, k) ELSE f[i]]
    <2>2. ASSUME NEW i \in 1..k PROVE g[i] = FlattenStep(seqs, g, i)
      <3>1. CASE i = k
        <4>1. g[k - 1] = f[k - 1]
          OBVIOUS
        <4> QED BY <3>1, <4>1 DEF FlattenStep
      <3>2. CASE i # k
        <4>1. f[i] = FlattenStep(seqs, f, i)
          BY <2>1, <3>2
        <4>2. i # 1 => g[i - 1] = f[i - 1]
          BY <3>2
        <4> QED BY <3>2, <4>1, <4>2 DEF FlattenStep
      <3> QED BY <3>1, <3>2
    <2>3. g = [i \in 1..k |-> g[i]]
      OBVIOUS
    <2> HIDE DEF g
    <2>4. g = [i \in 1..k |-> FlattenStep(seqs, g, i)]
      BY <2>2, <2>3
    <2> QED BY <2>4
  <1>3. UpTo(n)
    <2> HIDE DEF UpTo
    <2>1. ASSUME T # {} PROVE FALSE
      <3>1. PICK k \in T : \A m \in T : k <= m
        <4>1. T \in SUBSET Nat
          OBVIOUS
        <4> QED BY <2>1, <4>1, LeastNat
      <3>2. k \in 2..n
        BY <1>1, <3>1
      <3>3. UpTo(k - 1)
        BY <3>1, <3>2
      <3> QED BY <1>2, <3>1, <3>2, <3>3
    <2> QED BY <2>1
  <1> DEFINE F == CHOOSE f : f = [i \in 1..n |-> FlattenStep(seqs, f, i)]
  <1>4. FlattenSeq(seqs) = F[n]
    BY DEF FlattenSeq, FlattenStep
  <1>5. F = [i \in 1..n |-> FlattenStep(seqs, F, i)]
    BY <1>3
  <1> QED BY <1>4, <1>5

(* Queues with no common member, joined in their order. *)
LEMMA FlattenQueues ==
  ASSUME NEW S, NEW n \in Nat \ {0}, NEW seqs \in [1..n -> Seq(S)],
         \A k \in 1..n : IsQueue(seqs[k]),
         \A j, k \in 1..n : j # k => Range(seqs[j]) \cap Range(seqs[k]) = {}
  PROVE  /\ FlattenSeq(seqs) \in Seq(S)
         /\ IsQueue(FlattenSeq(seqs))
         /\ Range(FlattenSeq(seqs)) = UNION {Range(seqs[k]) : k \in 1..n}
  <1>1. Len(seqs) = n
    OBVIOUS
  <1>2. PICK f : /\ f = [i \in 1..n |-> FlattenStep(seqs, f, i)]
                 /\ FlattenSeq(seqs) = f[n]
    BY <1>1, FlattenRecursion
  <1> DEFINE All(k) == UNION {Range(seqs[j]) : j \in 1..k}
             Good(k) == f[k] \in Seq(S) /\ IsQueue(f[k]) /\ Range(f[k]) = All(k)
             T == {k \in Nat \ {0} : k <= n /\ ~ Good(k)}
  <1>3. f[1] = seqs[1] /\ \A k \in 2..n : f[k] = f[k - 1] \o seqs[k]
    <2>1. ASSUME NEW k \in 1..n PROVE f[k] = FlattenStep(seqs, f, k)
      BY <1>2
    <2>2. f[1] = seqs[1]
      BY <2>1 DEF FlattenStep
    <2>3. ASSUME NEW k \in 2..n PROVE f[k] = f[k - 1] \o seqs[k]
      <3>1. k \in 1..n /\ k # 1
        OBVIOUS
      <3> QED BY <2>1, <3>1 DEF FlattenStep
    <2> QED BY <2>2, <2>3
  <1>4. Good(1)
    <2>1. All(1) = Range(seqs[1])
      OBVIOUS
    <2> QED BY <1>3, <2>1
  <1>5. ASSUME NEW k \in 2..n, Good(k - 1) PROVE Good(k)
    <2>1. All(k) = All(k - 1) \cup Range(seqs[k])
      <3>1. 1..k = (1..(k - 1)) \cup {k}
        OBVIOUS
      <3> QED BY <3>1
    <2>2. All(k - 1) \cap Range(seqs[k]) = {}
      OBVIOUS
    <2>3. f[k] = f[k - 1] \o seqs[k]
      BY Zenon, <1>3
    <2>4. k \in 1..n
      OBVIOUS
    <2>5. seqs[k] \in Seq(S) /\ IsQueue(seqs[k])
      BY <2>4
    <2> HIDE DEF All
    <2> QED BY <1>5, <2>1, <2>2, <2>3, <2>5, JoinQueues
  <1>6. Good(n)
    <2> HIDE DEF Good
    <2>1. ASSUME T # {} PROVE FALSE
      <3>1. PICK k \in T : \A m \in T : k <= m
        <4>1. T \in SUBSET Nat
          OBVIOUS
        <4> QED BY <2>1, <4>1, LeastNat
      <3>2. k \in 2..n
        BY <1>4, <3>1
      <3>3. Good(k - 1)
        BY <3>1, <3>2
      <3> QED BY <1>5, <3>1, <3>2, <3>3
    <2>2. n \in Nat \ {0} /\ n <= n
      OBVIOUS
    <2>3. ~ Good(n) => n \in T
      BY <2>2
    <2> HIDE DEF T
    <2> QED BY <2>1, <2>3
  <1> QED BY <1>2, <1>6

(* One member exchanged for another that is not elsewhere in the queue. *)
LEMMA ReplaceQueue ==
  ASSUME NEW S, NEW q \in Seq(S), IsQueue(q), NEW k \in DOMAIN q, NEW t \in S,
         t \notin Range(q) \ {q[k]}
  PROVE  /\ [q EXCEPT ![k] = t] \in Seq(S)
         /\ IsQueue([q EXCEPT ![k] = t])
         /\ Range([q EXCEPT ![k] = t]) = (Range(q) \ {q[k]}) \cup {t}
  <1> DEFINE r == [q EXCEPT ![k] = t]
  <1>1. /\ r \in Seq(S) /\ DOMAIN r = DOMAIN q /\ DOMAIN q = 1..Len(q)
        /\ \A j \in DOMAIN q : r[j] = IF j = k THEN t ELSE q[j]
    OBVIOUS
  <1> HIDE DEF r
  <1>2. ASSUME NEW j \in DOMAIN q, j # k PROVE q[j] \in Range(q) \ {q[k]}
    BY <1>2 DEF Range, IsQueue, IsInjective
  <1>3. IsQueue(r)
    BY <1>1, <1>2 DEF IsQueue, IsInjective
  <1>4. Range(r) \subseteq (Range(q) \ {q[k]}) \cup {t}
    BY <1>1, <1>2 DEF Range
  <1>5. ASSUME NEW u \in (Range(q) \ {q[k]}) \cup {t} PROVE u \in Range(r)
    <2>1. CASE u = t
      BY <1>1, <2>1 DEF Range
    <2>2. CASE u # t
      <3>1. PICK j \in DOMAIN q : q[j] = u
        BY <2>2 DEF Range
      <3>2. j # k
        BY <1>5, <2>2, <3>1
      <3> QED BY <1>1, <3>1, <3>2 DEF Range
    <2> QED BY <2>1, <2>2
  <1>6. Range(r) = (Range(q) \ {q[k]}) \cup {t}
    BY <1>4, <1>5
  <1> QED BY <1>1, <1>3, <1>6 DEF r
=============================================================================
