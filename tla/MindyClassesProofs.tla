------------------------ MODULE MindyClassesProofs -------------------------
(***************************************************************************)
(* Proofs about classes and what is built on them: about the definitions   *)
(* of MindyClasses, for any hierarchy; about MindyDispatch, which calls    *)
(* generic functions by the classes of the arguments, for any objects and  *)
(* methods; and about MindyLoader, which brings the definitions, for any   *)
(* files and threads.                                                      *)
(***************************************************************************)
EXTENDS MindyDispatch, MindyLoader, QueueLemmas, FiniteSetTheorems

-----------------------------------------------------------------------------
(***************************************************************************)
(* Hierarchies of classes.  A set of classes that is closed holds the      *)
(* superclasses of its members; those above a class are in every such set. *)
(***************************************************************************)
Hierarchy(sup) ==
  /\ IsFiniteSet(DOMAIN sup)
  /\ \A k \in DOMAIN sup : sup[k] \in Seq(DOMAIN sup)
  /\ \A B \in SUBSET DOMAIN sup : B # {} => \E k \in B : Range(sup[k]) \cap B = {}

IsClosed(sup, A) == \A k \in A : Range(sup[k]) \subseteq A

Above(sup, k) ==
  {x \in DOMAIN sup : \A A \in SUBSET DOMAIN sup : k \in A /\ IsClosed(sup, A) => x \in A}

LEMMA AboveFacts ==
  ASSUME NEW sup, Hierarchy(sup), NEW k \in DOMAIN sup
  PROVE  /\ k \in Above(sup, k) /\ Above(sup, k) \subseteq DOMAIN sup
         /\ IsClosed(sup, Above(sup, k))
         /\ IsFiniteSet(Above(sup, k))
         /\ \A x \in Above(sup, k) : Range(sup[x]) \subseteq Above(sup, k)
         /\ \A x \in Above(sup, k) \ {k} : \E y \in Above(sup, k) : x \in Range(sup[y])
         /\ \A x \in Above(sup, k) : Above(sup, x) \subseteq Above(sup, k)
  <1>1. \A x \in DOMAIN sup : Range(sup[x]) \subseteq DOMAIN sup
    BY InQueue DEF Hierarchy
  <1>2. k \in Above(sup, k) /\ Above(sup, k) \subseteq DOMAIN sup
    BY DEF Above
  <1>3. IsClosed(sup, Above(sup, k))
    BY <1>1 DEF Above, IsClosed
  <1>4. IsFiniteSet(Above(sup, k))
    BY <1>2, FS_Subset DEF Hierarchy
  <1>5. ASSUME NEW x \in Above(sup, k) \ {k} PROVE \E y \in Above(sup, k) : x \in Range(sup[y])
    <2> SUFFICES ASSUME \A y \in Above(sup, k) : x \notin Range(sup[y]) PROVE FALSE
      OBVIOUS
    <2> DEFINE A == Above(sup, k) \ {x}
    <2>1. k \in A /\ A \in SUBSET DOMAIN sup
      BY <1>2
    <2>2. IsClosed(sup, A)
      BY <1>3 DEF IsClosed
    <2>3. x \in A
      BY <2>1, <2>2 DEF Above
    <2> QED BY <2>3
  <1>6. ASSUME NEW x \in Above(sup, k) PROVE Above(sup, x) \subseteq Above(sup, k)
    BY <1>2, <1>3 DEF Above
  <1> QED BY <1>2, <1>3, <1>4, <1>5, <1>6 DEF IsClosed

LEMMA AboveUnfolds ==
  ASSUME NEW sup, Hierarchy(sup), NEW k \in DOMAIN sup
  PROVE  Above(sup, k) = {k} \cup UNION {Above(sup, k2) : k2 \in Range(sup[k])}
  <1> DEFINE A == {k} \cup (UNION {Above(sup, k2) : k2 \in Range(sup[k])})
  <1>1. Range(sup[k]) \subseteq DOMAIN sup
    BY InQueue DEF Hierarchy
  <1>2. \A k2 \in Range(sup[k]) :
          /\ k2 \in Above(sup, k2) /\ IsClosed(sup, Above(sup, k2))
          /\ Above(sup, k2) \subseteq DOMAIN sup
    BY <1>1, AboveFacts
  <1>3. A \subseteq Above(sup, k)
    <2>1. k \in Above(sup, k) /\ Range(sup[k]) \subseteq Above(sup, k)
      BY AboveFacts
    <2>2. \A k2 \in Range(sup[k]) : Above(sup, k2) \subseteq Above(sup, k)
      BY <2>1, AboveFacts
    <2> QED BY <2>1, <2>2
  <1>4. A \in SUBSET DOMAIN sup /\ k \in A
    BY <1>2
  <1>5. IsClosed(sup, A)
    <2>1. ASSUME NEW y \in A PROVE Range(sup[y]) \subseteq A
      <3>1. CASE y = k
        BY <1>2, <3>1
      <3>2. CASE y # k
        <4>1. PICK k2 \in Range(sup[k]) : y \in Above(sup, k2)
          BY <3>2
        <4>2. Range(sup[y]) \subseteq Above(sup, k2)
          BY <1>2, <4>1 DEF IsClosed
        <4> QED BY <4>2
      <3> QED BY <3>1, <3>2
    <2> HIDE DEF A
    <2> QED BY <2>1 DEF IsClosed
  <1>6. Above(sup, k) \subseteq A
    <2> HIDE DEF A
    <2> QED BY <1>4, <1>5 DEF Above
  <1> QED BY <1>3, <1>6

(* The recursion of Ancestors has one solution.                            *)
LEMMA AncestorsAre ==
  ASSUME Hierarchy(superclasses), NEW c \in DOMAIN superclasses
  PROVE  Ancestors(c) = Above(superclasses, c)
  <1> DEFINE sup == superclasses
             D == DOMAIN sup
             Up(f) == [k \in D |-> {k} \cup UNION {f[k2] : k2 \in Range(sup[k])}]
             up == CHOOSE f : f = Up(f)
             above == [k \in D |-> Above(sup, k)]
  <1>1. Ancestors(c) = up[c]
    BY DEF Ancestors
  <1>2. \A k \in D : Range(sup[k]) \subseteq D
    BY InQueue DEF Hierarchy
  <1>3. above = Up(above)
    <2>1. ASSUME NEW k \in D PROVE above[k] = {k} \cup UNION {above[k2] : k2 \in Range(sup[k])}
      <3>1. \A k2 \in Range(sup[k]) : above[k2] = Above(sup, k2)
        BY <1>2
      <3>2. {above[k2] : k2 \in Range(sup[k])} = {Above(sup, k2) : k2 \in Range(sup[k])}
        BY <3>1
      <3>3. above[k] = Above(sup, k)
        OBVIOUS
      <3> HIDE DEF above
      <3> QED BY <3>2, <3>3, AboveUnfolds
    <2>2. above = [k \in D |-> above[k]]
      OBVIOUS
    <2> HIDE DEF above
    <2> QED BY <2>1, <2>2
  <1>4. up = Up(up)
    <2>1. \E f : f = Up(f)
      BY <1>3
    <2> QED BY <2>1
  <1> HIDE DEF up, above
  <1>5. \A k \in D : up[k] = {k} \cup UNION {up[k2] : k2 \in Range(sup[k])}
    BY <1>4
  <1>6. \A k \in D : above[k] = {k} \cup UNION {above[k2] : k2 \in Range(sup[k])}
    BY <1>3
  <1> DEFINE B == {k \in D : up[k] # above[k]}
  <1>7. ASSUME B # {} PROVE FALSE
    <2>1. PICK k \in B : Range(sup[k]) \cap B = {}
      BY <1>7 DEF Hierarchy
    <2>2. \A k2 \in Range(sup[k]) : up[k2] = above[k2]
      BY <1>2, <2>1
    <2>3. {up[k2] : k2 \in Range(sup[k])} = {above[k2] : k2 \in Range(sup[k])}
      BY <2>2
    <2>4. up[k] = above[k]
      BY <1>5, <1>6, <2>3
    <2> QED BY <2>4
  <1>8. up[c] = above[c]
    BY <1>7
  <1> QED BY <1>1, <1>8 DEF above

(* A class that is new, below classes that are not.                        *)
Grown(sup, c, s, larger) ==
  /\ Hierarchy(larger)
  /\ DOMAIN larger = DOMAIN sup \cup {c}
  /\ larger[c] = s /\ \A k \in DOMAIN sup : larger[k] = sup[k]
  /\ \A k \in DOMAIN sup : Above(larger, k) = Above(sup, k)
  /\ Above(larger, c) = {c} \cup UNION {Above(sup, k) : k \in Range(s)}

LEMMA HierarchyGrows ==
  ASSUME NEW sup, Hierarchy(sup), NEW c, c \notin DOMAIN sup, NEW s \in Seq(DOMAIN sup)
  PROVE  Grown(sup, c, s, With(sup, c, s))
  <1> DEFINE D == DOMAIN sup
             larger == With(sup, c, s)
  <1>1. DOMAIN larger = D \cup {c} /\ larger[c] = s /\ \A k \in D : larger[k] = sup[k]
    BY DEF With
  <1> HIDE DEF larger
  <1>2. Range(s) \subseteq D /\ \A k \in D : Range(sup[k]) \subseteq D
    BY InQueue DEF Hierarchy
  <1>3. Hierarchy(larger)
    <2>1. IsFiniteSet(DOMAIN larger)
      BY <1>1, FS_AddElement DEF Hierarchy
    <2>2. ASSUME NEW k \in DOMAIN larger PROVE larger[k] \in Seq(DOMAIN larger)
      <3>1. larger[k] \in Seq(D)
        BY <1>1 DEF Hierarchy
      <3>2. D \subseteq DOMAIN larger
        BY <1>1
      <3> QED BY <3>1, <3>2
    <2>3. ASSUME NEW B \in SUBSET DOMAIN larger, B # {}
          PROVE  \E k \in B : Range(larger[k]) \cap B = {}
      <3>1. CASE B \ {c} # {}
        <4>1. PICK k \in B \ {c} : Range(sup[k]) \cap (B \ {c}) = {}
          <5>1. B \ {c} \in SUBSET D
            BY <1>1
          <5> QED BY <3>1, <5>1 DEF Hierarchy
        <4>2. k \in D
          BY <1>1
        <4>3. Range(larger[k]) \cap B = {}
          BY <1>1, <1>2, <4>1, <4>2
        <4> QED BY <4>1, <4>3
      <3>2. CASE B \ {c} = {}
        <4>1. B = {c}
          BY <2>3, <3>2
        <4> QED BY <1>1, <1>2, <4>1
      <3> QED BY <3>1, <3>2
    <2> QED BY <2>1, <2>2, <2>3 DEF Hierarchy
  <1>4. ASSUME NEW k \in D PROVE Above(larger, k) = Above(sup, k)
    <2>1. ASSUME NEW x \in Above(larger, k) PROVE x \in Above(sup, k)
      <3>1. ASSUME NEW A \in SUBSET D, k \in A, IsClosed(sup, A) PROVE x \in A
        <4>1. A \in SUBSET DOMAIN larger /\ IsClosed(larger, A)
          BY <1>1, <3>1 DEF IsClosed
        <4> QED BY <2>1, <3>1, <4>1 DEF Above
      <3>2. IsClosed(sup, D)
        BY <1>2 DEF IsClosed
      <3>3. x \in D
        BY <3>1, <3>2
      <3> QED BY <3>1, <3>3 DEF Above
    <2>2. ASSUME NEW x \in Above(sup, k) PROVE x \in Above(larger, k)
      <3>1. ASSUME NEW A \in SUBSET DOMAIN larger, k \in A, IsClosed(larger, A) PROVE x \in A
        <4>1. A \cap D \in SUBSET D /\ k \in A \cap D
          BY <3>1
        <4>2. IsClosed(sup, A \cap D)
          BY <1>1, <1>2, <3>1 DEF IsClosed
        <4>3. x \in A \cap D
          BY <2>2, <4>1, <4>2 DEF Above
        <4> QED BY <4>3
      <3>2. x \in DOMAIN larger
        BY <1>1, <2>2 DEF Above
      <3> QED BY <3>1, <3>2 DEF Above
    <2> QED BY <2>1, <2>2
  <1>5. Above(larger, c) = {c} \cup UNION {Above(sup, k) : k \in Range(s)}
    <2>1. Above(larger, c) = {c} \cup UNION {Above(larger, k) : k \in Range(larger[c])}
      BY <1>1, <1>3, AboveUnfolds
    <2>2. larger[c] = s /\ \A k \in Range(s) : Above(larger, k) = Above(sup, k)
      BY <1>1, <1>2, <1>4
    <2> QED BY <2>1, <2>2
  <1> QED BY <1>1, <1>3, <1>4, <1>5 DEF larger, Grown
-----------------------------------------------------------------------------
(* Lists that name each member of a set once.                              *)
LEMMA AllOnce ==
  ASSUME NEW S, IsFiniteSet(S), NEW p \in Seq(S), IsInjective(p)
  PROVE  /\ Cardinality(S) \in Nat /\ Len(p) <= Cardinality(S)
         /\ Range(p) = S <=> Len(p) = Cardinality(S)
         /\ Len(p) = Cardinality(S) <=> p \in SetToSeqs(S)
  <1> DEFINE n == Len(p)
             R == Range(p)
  <1>1. n \in Nat /\ DOMAIN p = 1..n /\ p \in [1..n -> S] /\ p \in [1..n -> R] /\ R \subseteq S
    BY InQueue DEF Range
  <1>2. p \in Surjection(1..n, R) /\ p \in Injection(1..n, R)
    BY <1>1 DEF Surjection, Injection, IsInjective, Range
  <1>3. IsFiniteSet(1..n) /\ Cardinality(1..n) = n
    BY <1>1, FS_Interval
  <1>4. Cardinality(R) = n
    BY <1>2, <1>3, FS_Surjection
  <1>5. /\ Cardinality(R) <= Cardinality(S) /\ Cardinality(S) \in Nat
        /\ Cardinality(S) = Cardinality(R) => S = R
    BY <1>1, FS_Subset, FS_CardinalityType
  <1>6. ASSUME n = Cardinality(S) PROVE p \in SetToSeqs(S)
    BY <1>1, <1>6 DEF SetToSeqs, IsInjective
  <1>7. ASSUME p \in SetToSeqs(S) PROVE n = Cardinality(S)
    <2>1. DOMAIN p = 1..Cardinality(S)
      BY <1>7 DEF SetToSeqs
    <2> QED BY <1>1, <1>5, <2>1
  <1> QED BY <1>4, <1>5, <1>6, <1>7

LEMMA OnceEach ==
  ASSUME NEW S, IsFiniteSet(S), NEW p \in SetToSeqs(S)
  PROVE  p \in Seq(S) /\ IsInjective(p) /\ Range(p) = S /\ Len(p) = Cardinality(S)
  <1>1. Cardinality(S) \in Nat
    BY FS_CardinalityType
  <1>2. p \in [1..Cardinality(S) -> S] /\ IsInjective(p)
    BY DEF SetToSeqs, IsInjective
  <1>3. p \in Seq(S)
    BY <1>1, <1>2
  <1> QED BY <1>2, <1>3, AllOnce

-----------------------------------------------------------------------------
(***************************************************************************)
(* Precedence lists.  A superclass list, with its class before it, says of *)
(* each superclass what comes just before it.                              *)
(***************************************************************************)
Written(known, k) == <<k>> \o known[k]
JustBefore(known, k, i) == IF i = 1 THEN k ELSE known[k][i - 1]

Obeys(list, known, S) ==
  \A k \in S : \A i, j \in DOMAIN Written(known, k) :
    i < j => Before(list, Written(known, k)[i], Written(known, k)[j])

LEMMA RespectsIs ==
  ASSUME Hierarchy(superclasses), NEW c \in DOMAIN superclasses, NEW list
  PROVE  Respects(list, c) <=> Obeys(list, superclasses, Above(superclasses, c))
  BY AncestorsAre DEF Respects, Obeys, Written

LEMMA WrittenFacts ==
  ASSUME NEW S, NEW k \in S, NEW known, known[k] \in Seq(S)
  PROVE  /\ Len(known[k]) \in Nat /\ Len(Written(known, k)) = Len(known[k]) + 1
         /\ DOMAIN Written(known, k) = 1..(Len(known[k]) + 1)
         /\ Written(known, k)[1] = k
         /\ \A i \in 1..Len(known[k]) :
              /\ Written(known, k)[i + 1] = known[k][i] /\ known[k][i] \in S
              /\ Written(known, k)[i] = JustBefore(known, k, i) /\ JustBefore(known, k, i) \in S
         /\ WrittenOrder(k, known) =
              {<<JustBefore(known, k, i), known[k][i]>> : i \in 1..Len(known[k])}
  <1> DEFINE s == known[k]
             n == Len(s)
             w == <<k>> \o s
  <1>1. n \in Nat /\ s \in Seq(S)
    OBVIOUS
  <1> HIDE DEF s, n
  <1>2. /\ Len(w) = n + 1 /\ w[1] = k /\ w \in Seq(S)
        /\ \A i \in 1..n : w[i + 1] = s[i] /\ s[i] \in S
    BY <1>1 DEF n
  <1> HIDE DEF w
  <1>3. DOMAIN w = 1..(n + 1) /\ Len(w) - 1 = n
    BY <1>1, <1>2
  <1>4. ASSUME NEW i \in 1..n PROVE w[i] = JustBefore(known, k, i) /\ w[i] \in S
    <2>1. CASE i = 1
      BY <1>2, <2>1 DEF JustBefore
    <2>2. CASE i # 1
      <3>1. i - 1 \in 1..n /\ (i - 1) + 1 = i
        BY <1>1, <2>2
      <3>2. w[i] = s[i - 1] /\ s[i - 1] \in S
        BY <1>2, <3>1
      <3> QED BY <2>2, <3>2 DEF JustBefore, s
    <2> QED BY <2>1, <2>2
  <1>5. WrittenOrder(k, known) = {<<w[i], w[i + 1]>> : i \in 1..n}
    BY <1>3 DEF WrittenOrder, w, s
  <1>6. WrittenOrder(k, known) = {<<JustBefore(known, k, i), s[i]>> : i \in 1..n}
    BY <1>2, <1>4, <1>5
  <1>7. w = Written(known, k)
    BY DEF w, s, Written
  <1> QED BY <1>1, <1>2, <1>3, <1>4, <1>6, <1>7 DEF s, n

(* The classes below which a list is to be made: c and all above it.       *)
Base(members, known, c) ==
  /\ IsFiniteSet(members) /\ c \in members
  /\ \A k \in members : known[k] \in Seq(members) /\ c \notin Range(known[k])
  /\ \A x \in members \ {c} : \E y \in members : x \in Range(known[y])

(* What the superclass lists say comes just before x has been placed.      *)
Ready(x, placed, members, known) ==
  \A k \in members : \A i \in 1..Len(known[k]) :
    known[k][i] = x => JustBefore(known, k, i) \in placed

(* A beginning of a list that obeys. *)
Beginning(p, members, known, c) ==
  /\ p \in Seq(members) /\ IsInjective(p)
  /\ p # <<>> => p[1] = c
  /\ \A b \in DOMAIN p : Ready(p[b], {p[a] : a \in 1..(b - 1)}, members, known)

LEMMA CandidatesAre ==
  ASSUME NEW members, NEW known, NEW c, Base(members, known, c), NEW p
  PROVE  Candidates(p, members, known) =
           {x \in members \ Range(p) : Ready(x, Range(p), members, known)}
  <1>1. ASSUME NEW k \in members, NEW x
        PROVE  (\A edge \in WrittenOrder(k, known) : edge[2] = x => edge[1] \in Range(p))
                 <=> \A i \in 1..Len(known[k]) :
                       known[k][i] = x => JustBefore(known, k, i) \in Range(p)
    <2>1. known[k] \in Seq(members)
      BY DEF Base
    <2>2. WrittenOrder(k, known) =
            {<<JustBefore(known, k, i), known[k][i]>> : i \in 1..Len(known[k])}
      BY <2>1, WrittenFacts
    <2>3. ASSUME NEW edge \in WrittenOrder(k, known)
          PROVE  \E i \in 1..Len(known[k]) :
                   edge[1] = JustBefore(known, k, i) /\ edge[2] = known[k][i]
      BY <2>2
    <2>4. ASSUME NEW i \in 1..Len(known[k])
          PROVE  \E edge \in WrittenOrder(k, known) :
                   edge[1] = JustBefore(known, k, i) /\ edge[2] = known[k][i]
      <3>1. <<JustBefore(known, k, i), known[k][i]>> \in WrittenOrder(k, known)
        BY <2>2
      <3> QED BY <3>1
    <2> QED BY <2>3, <2>4
  <1> QED BY <1>1 DEF Candidates, Ready
(* The first class is c itself, and only c is a candidate for it.          *)
LEMMA FirstIsBase ==
  ASSUME NEW members, NEW known, NEW c, Base(members, known, c)
  PROVE  Candidates(<<>>, members, known) = {c}
  <1>1. Range(<<>>) = {}
    BY DEF Range
  <1>2. \A x : x \in Candidates(<<>>, members, known)
                 <=> x \in members /\ Ready(x, {}, members, known)
    BY <1>1, CandidatesAre
  <1>3. \A k \in members : known[k] \in Seq(members)
    BY DEF Base
  <1>4. Ready(c, {}, members, known)
    <2>1. ASSUME NEW k \in members, NEW i \in 1..Len(known[k]) PROVE known[k][i] # c
      <3>1. known[k][i] \in Range(known[k])
        BY <1>3, InQueue
      <3> QED BY <3>1 DEF Base
    <2> QED BY <2>1 DEF Ready
  <1>5. ASSUME NEW x \in members, x # c PROVE ~ Ready(x, {}, members, known)
    <2>1. PICK y \in members : x \in Range(known[y])
      BY <1>5 DEF Base
    <2>2. PICK i \in 1..Len(known[y]) : known[y][i] = x
      BY <1>3, <2>1, InQueue
    <2> QED BY <2>1, <2>2 DEF Ready
  <1> QED BY <1>2, <1>4, <1>5 DEF Base

(* A class that is ready when something has been placed is a superclass of *)
(* one that has: its predecessors have been placed from the last to the    *)
(* first, which is the class whose list it is on.                          *)
LEMMA ReadyHasPlacedSubclass ==
  ASSUME NEW members, NEW known, NEW c, Base(members, known, c),
         NEW p, Beginning(p, members, known, c), p # <<>>,
         NEW x \in Candidates(p, members, known)
  PROVE  \E b \in 1..Len(p) : x \in Range(known[p[b]])
  <1>1. /\ x \in members \ Range(p) /\ Ready(x, Range(p), members, known)
        /\ p \in Seq(members) /\ Len(p) \in Nat \ {0} /\ DOMAIN p = 1..Len(p)
    BY CandidatesAre, InQueue DEF Beginning
  <1>2. c \in Range(p)
    BY <1>1 DEF Beginning, Range
  <1>3. PICK k \in members : x \in Range(known[k])
    BY <1>1, <1>2 DEF Base
  <1>4. known[k] \in Seq(members) /\ Len(known[k]) \in Nat
    BY DEF Base
  <1>5. PICK n \in 1..Len(known[k]) : known[k][n] = x
    BY <1>3, <1>4, InQueue
  <1> DEFINE T == {i \in 1..n : JustBefore(known, k, i) \notin Range(p)}
  <1>6. ASSUME T # {} PROVE FALSE
    <2>1. T \in SUBSET (1..n) /\ n \in Nat
      OBVIOUS
    <2>2. PICK m \in T : \A i \in T : i <= m
      BY <1>6, <2>1, MaxPosition
    <2>3. JustBefore(known, k, n) \in Range(p)
      BY <1>1, <1>5 DEF Ready
    <2>4. m + 1 \in 1..n /\ m + 1 \notin T /\ m \in 1..Len(known[k]) /\ m + 1 # 1
      BY <1>4, <2>1, <2>2, <2>3
    <2>5. JustBefore(known, k, m + 1) = known[k][m] /\ known[k][m] \in Range(p)
      BY <2>4 DEF JustBefore
    <2>6. PICK b \in 1..Len(p) : p[b] = known[k][m]
      BY <1>1, <2>5, InQueue
    <2>7. JustBefore(known, k, m) \in {p[a] : a \in 1..(b - 1)}
      BY <1>1, <2>4, <2>6 DEF Beginning, Ready
    <2>8. \A a \in 1..(b - 1) : p[a] \in Range(p)
      BY <1>1 DEF Range
    <2> QED BY <2>2, <2>7, <2>8
  <1>7. JustBefore(known, k, 1) = k /\ 1 \in 1..n
    BY DEF JustBefore
  <1>8. k \in Range(p)
    BY <1>6, <1>7
  <1> QED BY <1>1, <1>3, <1>8, InQueue

LEMMA TieBreakerChooses ==
  ASSUME NEW members, NEW known, NEW c, Base(members, known, c),
         NEW p, Beginning(p, members, known, c), Candidates(p, members, known) # {}
  PROVE  TieBreaker(Candidates(p, members, known), p, known) \in Candidates(p, members, known)
  <1> DEFINE C == Candidates(p, members, known)
             I == {i \in 1..Len(p) : Range(known[p[i]]) \cap C # {}}
  <1>1. CASE Cardinality(C) = 1
    BY <1>1 DEF TieBreaker
  <1>2. CASE Cardinality(C) # 1
    <2>1. p # <<>>
      <3>1. CASE p = <<>>
        <4>1. Cardinality({c}) = 1
          BY FS_Singleton
        <4> QED BY <1>2, <3>1, <4>1, FirstIsBase
      <3> QED BY <3>1
    <2>2. PICK x : x \in C
      OBVIOUS
    <2>3. \E b \in 1..Len(p) : x \in Range(known[p[b]])
      BY <2>1, <2>2, ReadyHasPlacedSubclass
    <2>4. I # {} /\ I \in SUBSET (1..Len(p)) /\ Len(p) \in Nat
      BY <2>2, <2>3 DEF Beginning
    <2>5. Max(I) \in I
      BY <2>4, MaxPosition
    <2>6. TieBreaker(C, p, known) = CHOOSE k \in C : k \in Range(known[p[Max(I)]])
      <3> HIDE DEF C
      <3> QED BY <1>2, <2>4 DEF TieBreaker, SelectLastInSeq
    <2>7. \E k \in C : k \in Range(known[p[Max(I)]])
      BY <2>5
    <2> HIDE DEF C, I
    <2>8. TieBreaker(C, p, known) \in C
      BY <2>6, <2>7
    <2> QED BY <2>8 DEF C
  <1> QED BY <1>1, <1>2

LEMMA OneIsPlaced ==
  ASSUME NEW members, NEW known, NEW c, Base(members, known, c),
         NEW p, Beginning(p, members, known, c)
  PROVE  /\ Beginning(PlaceOne(p, members, known), members, known, c)
         /\ Candidates(p, members, known) = {} => PlaceOne(p, members, known) = p
         /\ Candidates(p, members, known) # {} =>
              Len(PlaceOne(p, members, known)) = Len(p) + 1
  <1> DEFINE C == Candidates(p, members, known)
             x == TieBreaker(C, p, known)
             q == Append(p, x)
  <1>1. CASE C = {}
    BY <1>1 DEF PlaceOne
  <1>2. CASE C # {}
    <2>1. PlaceOne(p, members, known) = q
      BY <1>2 DEF PlaceOne
    <2>2. x \in C
      BY <1>2, TieBreakerChooses
    <2>3. x \in members /\ x \notin Range(p) /\ Ready(x, Range(p), members, known)
      BY <2>2, CandidatesAre
    <2>4. p = <<>> => x = c
      BY <2>2, FirstIsBase
    <2> HIDE DEF x, C
    <2>5. /\ p \in Seq(members) /\ Len(p) \in Nat /\ IsInjective(p) /\ DOMAIN p = 1..Len(p)
          /\ p # <<>> => p[1] = c
          /\ \A b \in 1..Len(p) : Ready(p[b], {p[a] : a \in 1..(b - 1)}, members, known)
      BY DEF Beginning
    <2>6. /\ q \in Seq(members) /\ Len(q) = Len(p) + 1 /\ q[Len(p) + 1] = x
          /\ \A i \in 1..Len(p) : q[i] = p[i]
          /\ DOMAIN q = 1..(Len(p) + 1)
      BY <2>3, <2>5
    <2>7. IsInjective(q)
      BY <2>3, <2>5, AppendQueue DEF IsQueue
    <2> HIDE DEF q
    <2>8. q[1] = c
      <3>1. CASE p = <<>>
        <4>1. Len(p) + 1 = 1
          BY <3>1
        <4> QED BY <2>4, <2>6, <3>1, <4>1
      <3>2. CASE p # <<>>
        <4>1. 1 \in 1..Len(p)
          BY <2>5, <3>2
        <4> QED BY <2>5, <2>6, <3>2, <4>1
      <3> QED BY <3>1, <3>2
    <2>9. ASSUME NEW b \in 1..(Len(p) + 1)
          PROVE  Ready(q[b], {q[a] : a \in 1..(b - 1)}, members, known)
      <3>1. CASE b = Len(p) + 1
        <4>1. b - 1 = Len(p)
          BY <2>5, <3>1
        <4>2. {q[a] : a \in 1..Len(p)} = {p[a] : a \in 1..Len(p)}
          BY <2>6
        <4>3. Range(p) = {p[a] : a \in 1..Len(p)}
          BY <2>5 DEF Range
        <4> QED BY <2>3, <2>6, <3>1, <4>1, <4>2, <4>3
      <3>2. CASE b # Len(p) + 1
        <4>1. b \in 1..Len(p) /\ \A a \in 1..(b - 1) : a \in 1..Len(p)
          BY <2>5, <3>2
        <4>2. {q[a] : a \in 1..(b - 1)} = {p[a] : a \in 1..(b - 1)}
          BY <2>6, <4>1
        <4> QED BY <2>5, <2>6, <4>1, <4>2
      <3> QED BY <3>1, <3>2
    <2>10. Beginning(q, members, known, c)
      BY <2>6, <2>7, <2>8, <2>9 DEF Beginning
    <2> QED BY <1>2, <2>1, <2>6, <2>10 DEF C
  <1> QED BY <1>1, <1>2
(* What the fold of SlowComputeCpl does at one set of rounds. *)
PlaceStep(members, known, f, s) ==
  IF s = {} THEN <<>> ELSE PlaceOne(f[s \ {Max(s)}], members, known)

(* The list obeys as far as it goes, and it is complete or stuck. *)
LEMMA SlowListIs ==
  ASSUME NEW members, NEW known, NEW c, Base(members, known, c)
  PROVE  LET list == SlowComputeCpl(members, known)
         IN /\ Beginning(list, members, known, c)
            /\ \/ Len(list) = Cardinality(members)
               \/ Candidates(list, members, known) = {}
  <1> DEFINE n == Cardinality(members)
             S == {p \in Seq(members) : Beginning(p, members, known, c)}
             F == [x \in (1..n) \X S |-> PlaceOne(x[2], members, known)]
             Step(f, s) == PlaceStep(members, known, f, s)
             f0 == CHOOSE f : f = [s \in SUBSET (1..n) |-> Step(f, s)]
             list == SlowComputeCpl(members, known)
  <1>1. n \in Nat
    BY FS_CardinalityType DEF Base
  <1>2. list = f0[1..n]
    <2>1. DOMAIN [i \in 1..n |-> i] = 1..n
      OBVIOUS
    <2> QED BY <2>1 DEF SlowComputeCpl, FoldLeft, MapThenFoldSet, PlaceStep
  <1> HIDE DEF n, S, list
  <1>3. ASSUME NEW p \in S
        PROVE  /\ PlaceOne(p, members, known) \in S
               /\ Candidates(p, members, known) = {} => PlaceOne(p, members, known) = p
               /\ Candidates(p, members, known) # {} =>
                    Len(PlaceOne(p, members, known)) = Len(p) + 1
    <2>1. Beginning(p, members, known, c)
      BY DEF S
    <2>2. Beginning(PlaceOne(p, members, known), members, known, c)
      BY <2>1, OneIsPlaced
    <2>3. PlaceOne(p, members, known) \in S
      BY <2>2 DEF S, Beginning
    <2> QED BY <2>1, <2>3, OneIsPlaced
  <1>4. <<>> \in S
    <2>1. <<>> \in Seq(members) /\ DOMAIN <<>> = {}
      OBVIOUS
    <2> QED BY <2>1 DEF S, Beginning, IsInjective
  <1>5. F \in [(1..n) \X S -> S]
    BY <1>3
  <1>6. \E f : f = [s \in SUBSET (1..n) |-> Step(f, s)]
    <2>1. PICK f \in [SUBSET (1..n) -> S] : Folds(f, n, <<>>, F)
      <3> HIDE DEF F
      <3> QED BY <1>1, <1>4, <1>5, FoldExists
    <2>2. ASSUME NEW s \in SUBSET (1..n) PROVE f[s] = Step(f, s)
      <3>1. CASE s = {}
        BY <2>1, <3>1 DEF Folds, FoldStep, PlaceStep
      <3>2. CASE s # {}
        <4>1. Max(s) \in 1..n /\ s \ {Max(s)} \in SUBSET (1..n)
          BY <1>1, <3>2, MaxPosition
        <4>2. <<Max(s), f[s \ {Max(s)}]>> \in (1..n) \X S
          BY <2>1, <4>1
        <4> QED BY <2>1, <3>2, <4>2 DEF Folds, FoldStep, PlaceStep
      <3> QED BY <3>1, <3>2
    <2>3. f = [s \in SUBSET (1..n) |-> f[s]]
      OBVIOUS
    <2>4. f = [s \in SUBSET (1..n) |-> Step(f, s)]
      BY <2>2, <2>3
    <2> QED BY <2>4
  <1>7. f0 = [s \in SUBSET (1..n) |-> Step(f0, s)]
    BY <1>6
  <1> HIDE DEF f0
  <1>8. f0[1..0] = <<>>
    BY <1>7 DEF PlaceStep
  <1>9. ASSUME NEW k \in 1..n PROVE f0[1..k] = PlaceOne(f0[1..(k - 1)], members, known)
    <2>1. k \in Nat \ {0} /\ 1..k \in SUBSET (1..n)
      BY <1>1
    <2>2. 1..k # {} /\ Max(1..k) = k /\ (1..k) \ {k} = 1..(k - 1)
      BY <2>1, FirstPositions
    <2>3. f0[1..k] = Step(f0, 1..k)
      BY <1>7, <2>1
    <2> QED BY <2>2, <2>3 DEF PlaceStep
  <1> DEFINE Good(k) == /\ f0[1..k] \in S
                        /\ \/ Len(f0[1..k]) = k
                           \/ Candidates(f0[1..k], members, known) = {}
             T == {k \in Nat : k <= n /\ ~ Good(k)}
  <1>10. Good(0)
    BY <1>4, <1>8
  <1>11. ASSUME NEW k \in 1..n, Good(k - 1) PROVE Good(k)
    <2> DEFINE p == f0[1..(k - 1)]
               q == f0[1..k]
    <2>1. q = PlaceOne(p, members, known) /\ p \in S
      BY <1>9, <1>11
    <2>2. Len(p) = k - 1 \/ Candidates(p, members, known) = {}
      BY <1>11
    <2> HIDE DEF p, q
    <2>3. /\ q \in S
          /\ Candidates(p, members, known) = {} => q = p
          /\ Candidates(p, members, known) # {} => Len(q) = Len(p) + 1
      BY <1>3, <2>1
    <2>4. q \in S /\ (Len(q) = k \/ Candidates(q, members, known) = {})
      <3>1. CASE Candidates(p, members, known) = {}
        BY <2>3, <3>1
      <3>2. CASE Candidates(p, members, known) # {}
        BY <2>2, <2>3, <3>2
      <3> QED BY <3>1, <3>2
    <2> QED BY <2>4 DEF q
  <1>12. Good(n)
    <2> HIDE DEF Good
    <2>1. ASSUME T # {} PROVE FALSE
      <3>1. PICK k \in T : \A m \in T : k <= m
        <4>1. T \in SUBSET Nat
          OBVIOUS
        <4> QED BY <2>1, <4>1, LeastNat
      <3>2. k \in 1..n
        BY <1>1, <1>10, <3>1
      <3>3. Good(k - 1)
        BY <1>1, <3>1, <3>2
      <3> QED BY <1>11, <3>1, <3>2, <3>3
    <2> QED BY <1>1, <2>1
  <1> QED BY <1>2, <1>12 DEF S, n, list

(* A list of all the classes whose beginnings obey does so: from one class *)
(* of a superclass list to a later one it is step by step.                 *)
LEMMA WholeListObeys ==
  ASSUME NEW members, NEW known, NEW c, Base(members, known, c),
         NEW p, Beginning(p, members, known, c), Range(p) = members
  PROVE  Obeys(p, known, members)
  <1>1. p \in Seq(members) /\ IsInjective(p) /\ DOMAIN p = 1..Len(p) /\ Len(p) \in Nat
    BY DEF Beginning
  <1> SUFFICES ASSUME NEW k \in members,
                      NEW i \in DOMAIN Written(known, k), NEW j \in DOMAIN Written(known, k), i < j
               PROVE  Before(p, Written(known, k)[i], Written(known, k)[j])
    BY DEF Obeys
  <1> DEFINE w == Written(known, k)
             n == Len(known[k])
  <1>2. known[k] \in Seq(members)
    BY DEF Base
  <1>3. /\ n \in Nat /\ DOMAIN w = 1..(n + 1)
        /\ \A m \in 1..n : w[m + 1] = known[k][m] /\ w[m] = JustBefore(known, k, m)
                           /\ w[m + 1] \in members
    BY <1>2, WrittenFacts
  <1> HIDE DEF w
  <1>4. ASSUME NEW m \in 1..n, NEW b \in 1..Len(p), p[b] = w[m + 1]
        PROVE  \E a \in 1..(b - 1) : p[a] = w[m]
    <2>1. JustBefore(known, k, m) \in {p[a] : a \in 1..(b - 1)}
      BY <1>1, <1>3, <1>4 DEF Beginning, Ready
    <2> QED BY <1>3, <2>1
  <1> HIDE DEF n
  <1>5. \A m \in 1..n : \E b \in 1..Len(p) : p[b] = w[m + 1]
    <2>1. \A x \in members : \E b \in 1..Len(p) : p[b] = x
      BY <1>1, InQueue
    <2> QED BY <1>3, <2>1
  <1>6. i \in 1..(n + 1) /\ j \in 1..(n + 1)
    BY <1>3 DEF w
  <1> DEFINE T == {m \in Nat : m \in 1..(n + 1) /\ i < m /\ ~ Before(p, w[i], w[m])}
  <1>7. ASSUME T # {} PROVE FALSE
    <2>1. PICK m \in T : \A l \in T : m <= l
      <3>1. T \in SUBSET Nat
        OBVIOUS
      <3> QED BY <1>7, <3>1, LeastNat
    <2>2. m \in Nat /\ m - 1 \in 1..n /\ (m - 1) + 1 = m /\ m \in 1..(n + 1)
      BY <1>3, <1>6, <2>1
    <2>3. PICK b \in 1..Len(p) : p[b] = w[m]
      BY <1>5, <2>2
    <2>4. PICK a \in 1..(b - 1) : p[a] = w[m - 1]
      BY <1>4, <2>2, <2>3
    <2>5. CASE m - 1 = i
      <3>1. a < b /\ a \in 1..Len(p)
        BY <1>1
      <3>2. Before(p, w[i], w[m])
        BY <1>1, <2>3, <2>4, <2>5, <3>1 DEF Before
      <3> QED BY <2>1, <3>2
    <2>6. CASE m - 1 # i
      <3>1. m - 1 \in Nat /\ m - 1 \in 1..(n + 1) /\ i < m - 1 /\ ~ (m <= m - 1)
        BY <1>3, <1>6, <2>1, <2>2, <2>6
      <3>2. Before(p, w[i], w[m - 1])
        BY <2>1, <3>1
      <3>3. PICK x, y \in 1..Len(p) : x < y /\ p[x] = w[i] /\ p[y] = w[m - 1]
        BY <1>1, <3>2 DEF Before
      <3>4. a \in 1..Len(p) /\ a < b
        BY <1>1
      <3>5. y = a
        BY <1>1, <2>4, <3>3, <3>4 DEF IsInjective
      <3>6. Before(p, w[i], w[m])
        BY <1>1, <2>3, <3>3, <3>4, <3>5 DEF Before
      <3> QED BY <2>1, <3>6
    <2> QED BY <2>5, <2>6
  <1>8. j \in Nat
    BY <1>6
  <1>9. Before(p, w[i], w[j])
    BY <1>6, <1>7, <1>8
  <1> QED BY <1>9 DEF w

(* Where the list is stuck there is no list of all the classes that obeys: *)
(* the first class on it that has not been placed would be ready.          *)
LEMMA StuckIsInconsistent ==
  ASSUME NEW members, NEW known, NEW c, Base(members, known, c),
         NEW p, Candidates(p, members, known) = {}, p \in Seq(members), Range(p) # members,
         NEW list \in SetToSeqs(members)
  PROVE  ~ Obeys(list, known, members)
  <1> SUFFICES ASSUME Obeys(list, known, members) PROVE FALSE
    OBVIOUS
  <1>1. /\ list \in Seq(members) /\ IsInjective(list) /\ Range(list) = members
        /\ DOMAIN list = 1..Len(list) /\ Len(list) \in Nat
    BY OnceEach DEF Base
  <1>2. Range(p) \subseteq members
    BY InQueue
  <1> DEFINE T == {m \in Nat : m \in 1..Len(list) /\ list[m] \notin Range(p)}
  <1>3. T # {}
    <2>1. PICK x \in members : x \notin Range(p)
      BY <1>2
    <2>2. PICK m \in 1..Len(list) : list[m] = x
      BY <1>1, <2>1, InQueue
    <2>3. m \in T
      BY <2>1, <2>2
    <2> QED BY <2>3
  <1>4. PICK m \in T : \A l \in T : m <= l
    <2>1. T \in SUBSET Nat
      OBVIOUS
    <2> QED BY <1>3, <2>1, LeastNat
  <1>5. ASSUME NEW k \in members, NEW i \in 1..Len(known[k]), known[k][i] = list[m]
        PROVE  JustBefore(known, k, i) \in Range(p)
    <2>1. known[k] \in Seq(members)
      BY DEF Base
    <2>2. /\ Written(known, k)[i + 1] = list[m]
          /\ Written(known, k)[i] = JustBefore(known, k, i)
          /\ DOMAIN Written(known, k) = 1..(Len(known[k]) + 1) /\ Len(known[k]) \in Nat
      BY <1>5, <2>1, WrittenFacts
    <2>3. i \in DOMAIN Written(known, k) /\ i + 1 \in DOMAIN Written(known, k) /\ i < i + 1
      BY <2>2
    <2>4. Before(list, JustBefore(known, k, i), list[m])
      BY <2>2, <2>3 DEF Obeys
    <2>5. PICK x, y \in 1..Len(list) :
            x < y /\ list[x] = JustBefore(known, k, i) /\ list[y] = list[m]
      BY <1>1, <2>4 DEF Before
    <2>6. m \in 1..Len(list)
      BY <1>4
    <2>7. y = m
      BY <1>1, <2>5, <2>6 DEF IsInjective
    <2>8. x \in Nat /\ ~ (m <= x)
      BY <1>4, <2>5, <2>7
    <2>9. x \notin T
      BY <1>4, <2>8
    <2> QED BY <2>5, <2>8, <2>9
  <1>6. list[m] \in members /\ list[m] \notin Range(p)
    BY <1>1, <1>4
  <1>7. list[m] \in Candidates(p, members, known)
    BY <1>5, <1>6, CandidatesAre DEF Ready
  <1> QED BY <1>7

(* compute_cpl: a list that names each class once and obeys, or else there *)
(* is no such list.                                                        *)
LEMMA SlowListIsRight ==
  ASSUME NEW members, NEW known, NEW c, Base(members, known, c)
  PROVE  LET list == SlowComputeCpl(members, known)
         IN IF Len(list) = Cardinality(members)
              THEN list \in SetToSeqs(members) /\ Obeys(list, known, members)
              ELSE \A other \in SetToSeqs(members) : ~ Obeys(other, known, members)
  <1> DEFINE list == SlowComputeCpl(members, known)
  <1>1. /\ Beginning(list, members, known, c)
        /\ Len(list) = Cardinality(members) \/ Candidates(list, members, known) = {}
    BY SlowListIs
  <1> HIDE DEF list
  <1>2. list \in Seq(members) /\ IsInjective(list) /\ IsFiniteSet(members)
    BY <1>1 DEF Beginning, Base
  <1>3. /\ Range(list) = members <=> Len(list) = Cardinality(members)
        /\ Len(list) = Cardinality(members) <=> list \in SetToSeqs(members)
    BY <1>2, AllOnce
  <1>4. CASE Len(list) = Cardinality(members)
    <2>1. list \in SetToSeqs(members) /\ Obeys(list, known, members)
      BY <1>1, <1>3, <1>4, WholeListObeys
    <2> QED BY <1>4, <2>1 DEF list
  <1>5. CASE Len(list) # Cardinality(members)
    <2>1. \A other \in SetToSeqs(members) : ~ Obeys(other, known, members)
      BY <1>1, <1>2, <1>3, <1>5, StuckIsInconsistent
    <2> QED BY <1>5, <2>1 DEF list
  <1> QED BY <1>4, <1>5
-----------------------------------------------------------------------------
(***************************************************************************)
(* The inductive invariant of class definitions.  A class has a precedence *)
(* list if and only if there is one; and while the code does not follow #f *)
(* the superclasses form a hierarchy.                                      *)
(***************************************************************************)
HasRightCpl(c, sup, lists) ==
  IF c \in DOMAIN lists
    THEN lists[c] \in SetToSeqs(Above(sup, c)) /\ Obeys(lists[c], sup, Above(sup, c))
    ELSE \A list \in SetToSeqs(Above(sup, c)) : ~ Obeys(list, sup, Above(sup, c))

CplsRight(sup, lists) ==
  /\ Hierarchy(sup) /\ Root \in DOMAIN sup
  /\ DOMAIN sup \subseteq Classes \cup {Root} /\ DOMAIN lists \subseteq DOMAIN sup
  /\ \A c \in DOMAIN sup : HasRightCpl(c, sup, lists)

CplInv == ~ fault => CplsRight(superclasses, cpl)

LEMMA CplInvMeans == CplInv => CplIsRight
  <1> SUFFICES ASSUME CplInv, ~ fault, NEW c \in DOMAIN superclasses
               PROVE  IF c \in DOMAIN cpl
                      THEN cpl[c] \in SetToSeqs(Ancestors(c)) /\ Respects(cpl[c], c)
                      ELSE \A list \in SetToSeqs(Ancestors(c)) : ~ Respects(list, c)
    BY DEF CplIsRight
  <1>1. Hierarchy(superclasses) /\ HasRightCpl(c, superclasses, cpl)
    BY DEF CplInv, CplsRight
  <1>2. Ancestors(c) = Above(superclasses, c)
    BY <1>1, AncestorsAre
  <1>3. \A list : Respects(list, c) <=> Obeys(list, superclasses, Above(superclasses, c))
    BY <1>1, RespectsIs
  <1> QED BY <1>1, <1>2, <1>3 DEF HasRightCpl

(* Obeying depends on nothing but the superclass lists of the classes.     *)
LEMMA SameLists ==
  ASSUME NEW sup, NEW larger, NEW S, \A k \in S : larger[k] = sup[k], NEW list
  PROVE  Obeys(list, larger, S) <=> Obeys(list, sup, S)
  BY DEF Obeys, Written

(* A class that is added changes nothing for those that were there.        *)
LEMMA OthersStayRight ==
  ASSUME NEW sup, NEW lists, CplsRight(sup, lists), NEW c \in Classes, c \notin DOMAIN sup,
         NEW s \in Seq(DOMAIN sup), NEW nowLists,
         DOMAIN nowLists \subseteq DOMAIN lists \cup {c}, DOMAIN lists \subseteq DOMAIN nowLists,
         \A k \in DOMAIN lists : nowLists[k] = lists[k],
         HasRightCpl(c, With(sup, c, s), nowLists)
  PROVE  CplsRight(With(sup, c, s), nowLists)
  <1> DEFINE larger == With(sup, c, s)
  <1>1. /\ Hierarchy(larger) /\ DOMAIN larger = DOMAIN sup \cup {c}
        /\ \A k \in DOMAIN sup : larger[k] = sup[k] /\ Above(larger, k) = Above(sup, k)
    <2>1. Grown(sup, c, s, larger)
      BY HierarchyGrows DEF CplsRight
    <2> QED BY <2>1 DEF Grown
  <1>2. HasRightCpl(c, larger, nowLists)
    OBVIOUS
  <1> HIDE DEF larger
  <1>3. ASSUME NEW k \in DOMAIN sup PROVE HasRightCpl(k, larger, nowLists)
    <2>1. Above(sup, k) \subseteq DOMAIN sup
      BY DEF Above
    <2>2. \A list : Obeys(list, larger, Above(sup, k)) <=> Obeys(list, sup, Above(sup, k))
      BY <1>1, <2>1, SameLists
    <2>3. k \in DOMAIN nowLists <=> k \in DOMAIN lists
      OBVIOUS
    <2>4. k \in DOMAIN lists => nowLists[k] = lists[k]
      OBVIOUS
    <2>5. HasRightCpl(k, sup, lists)
      BY DEF CplsRight
    <2> QED BY <1>1, <2>2, <2>3, <2>4, <2>5 DEF HasRightCpl
  <1>4. \A k \in DOMAIN larger : HasRightCpl(k, larger, nowLists)
    BY <1>1, <1>2, <1>3
  <1>5. Root \in DOMAIN larger /\ DOMAIN larger \subseteq Classes \cup {Root}
        /\ DOMAIN nowLists \subseteq DOMAIN larger
    BY <1>1 DEF CplsRight
  <1> QED BY <1>1, <1>4, <1>5 DEF CplsRight, larger

(* A new class is the base of what is above it. *)
LEMMA NewIsBase ==
  ASSUME NEW sup, Hierarchy(sup), NEW c, c \notin DOMAIN sup, NEW s \in Seq(DOMAIN sup)
  PROVE  LET larger == With(sup, c, s) IN Base(Above(larger, c), larger, c)
  <1> DEFINE larger == With(sup, c, s)
             M == Above(larger, c)
  <1>1. /\ Hierarchy(larger) /\ DOMAIN larger = DOMAIN sup \cup {c}
        /\ larger[c] = s /\ \A k \in DOMAIN sup : larger[k] = sup[k]
    <2>1. Grown(sup, c, s, larger)
      BY HierarchyGrows
    <2> QED BY <2>1 DEF Grown
  <1> HIDE DEF larger
  <1>2. /\ c \in M /\ M \subseteq DOMAIN larger /\ IsFiniteSet(M)
        /\ \A x \in M : Range(larger[x]) \subseteq M
        /\ \A x \in M \ {c} : \E y \in M : x \in Range(larger[y])
    BY <1>1, AboveFacts
  <1> HIDE DEF M
  <1>3. ASSUME NEW k \in M PROVE larger[k] \in Seq(M) /\ c \notin Range(larger[k])
    <2>1. larger[k] \in Seq(DOMAIN sup)
      BY <1>1, <1>2 DEF Hierarchy
    <2>2. \A i \in 1..Len(larger[k]) : larger[k][i] \in M
      BY <1>2, <2>1, InQueue
    <2>3. larger[k] \in Seq(M)
      BY <2>1, <2>2
    <2>4. Range(larger[k]) \subseteq DOMAIN sup
      BY <2>1, InQueue
    <2> QED BY <2>3, <2>4
  <1>4. Base(M, larger, c)
    BY <1>2, <1>3 DEF Base
  <1> QED BY <1>4 DEF larger, M

(* With one superclass the list is that class's, and c before it.          *)
LEMMA OneSuperclass ==
  ASSUME NEW sup, NEW lists, CplsRight(sup, lists), NEW c, c \notin DOMAIN sup,
         NEW s \in Seq(DOMAIN sup), Len(s) = 1, s[1] \in DOMAIN lists
  PROVE  LET larger == With(sup, c, s)
             list == <<c>> \o lists[s[1]]
         IN /\ list \in SetToSeqs(Above(larger, c)) /\ Obeys(list, larger, Above(larger, c))
            /\ Len(list) = Cardinality(Above(larger, c))
  <1> DEFINE larger == With(sup, c, s)
             k == s[1]
             M == Above(larger, c)
             A == Above(sup, k)
             old == lists[k]
             list == <<c>> \o old
  <1>1. k \in DOMAIN sup /\ Range(s) = {k} /\ DOMAIN s = {1}
    BY DEF Range
  <1>2. /\ Hierarchy(sup) /\ HasRightCpl(k, sup, lists)
    BY <1>1 DEF CplsRight
  <1>3. /\ larger[c] = s /\ \A x \in DOMAIN sup : larger[x] = sup[x]
        /\ M = {c} \cup UNION {Above(sup, x) : x \in Range(s)}
        /\ Hierarchy(larger) /\ DOMAIN larger = DOMAIN sup \cup {c}
    <2>1. Grown(sup, c, s, larger)
      BY <1>2, HierarchyGrows
    <2> HIDE DEF larger
    <2> QED BY <2>1 DEF Grown
  <1>4. M = {c} \cup A
    BY <1>1, <1>3
  <1>5. A \subseteq DOMAIN sup /\ IsFiniteSet(A) /\ k \in A
    BY <1>1, <1>2, AboveFacts
  <1>6. c \notin A
    BY <1>5
  <1>7. old \in SetToSeqs(A) /\ Obeys(old, sup, A)
    BY <1>2 DEF HasRightCpl
  <1>8. Hierarchy(larger) /\ c \in DOMAIN larger
    BY <1>3
  <1>9. IsFiniteSet(M) /\ c \in M /\ A \subseteq M
    BY <1>4, <1>8, AboveFacts
  <1> HIDE DEF larger, M, A, old, k
  <1>10. old \in Seq(A) /\ IsInjective(old) /\ Range(old) = A /\ Len(old) = Cardinality(A)
    BY <1>5, <1>7, OnceEach
  <1>11. old \in Seq(M) /\ c \notin Range(old)
    BY <1>6, <1>9, <1>10
  <1>12. list \in Seq(M) /\ IsInjective(list) /\ Range(list) = M
    BY <1>4, <1>9, <1>10, <1>11, ConsQueue DEF IsQueue
  <1>13. list \in SetToSeqs(M) /\ Len(list) = Cardinality(M)
    BY <1>9, <1>12, AllOnce
  <1>14. /\ Len(old) \in Nat /\ DOMAIN old = 1..Len(old) /\ DOMAIN list = 1..(Len(old) + 1)
         /\ list[1] = c /\ \A i \in 1..Len(old) : list[i + 1] = old[i]
    BY <1>10
  <1> HIDE DEF list
  <1>15. ASSUME NEW x, NEW y, Before(old, x, y) PROVE Before(list, x, y)
    <2>1. PICK i, j \in 1..Len(old) : i < j /\ old[i] = x /\ old[j] = y
      BY <1>14, <1>15 DEF Before
    <2>2. i + 1 \in DOMAIN list /\ j + 1 \in DOMAIN list /\ i + 1 < j + 1
      BY <1>14, <2>1
    <2>3. list[i + 1] = x /\ list[j + 1] = y
      BY <1>14, <2>1
    <2> QED BY <2>2, <2>3 DEF Before
  <1>16. Before(list, c, k)
    <2>1. PICK i \in 1..Len(old) : old[i] = k
      BY <1>5, <1>10, InQueue
    <2>2. i + 1 \in DOMAIN list /\ 1 \in DOMAIN list /\ 1 < i + 1
      BY <1>14
    <2>3. list[i + 1] = k
      BY <1>14, <2>1
    <2> QED BY <1>14, <2>2, <2>3 DEF Before
  <1>17. ASSUME NEW x \in M,
                NEW i \in DOMAIN Written(larger, x), NEW j \in DOMAIN Written(larger, x), i < j
         PROVE  Before(list, Written(larger, x)[i], Written(larger, x)[j])
    <2>1. CASE x = c
      <3>1. /\ larger[c] \in Seq(DOMAIN larger) /\ c \in DOMAIN larger
            /\ Len(larger[c]) = 1 /\ larger[c][1] = k
        BY <1>3 DEF k, Hierarchy
      <3>2. /\ DOMAIN Written(larger, c) = 1..2
            /\ Written(larger, c)[1] = c /\ Written(larger, c)[2] = k
        <4>1. 1 + 1 = 2 /\ 1 \in 1..1
          OBVIOUS
        <4>2. /\ DOMAIN Written(larger, c) = 1..(Len(larger[c]) + 1) /\ Written(larger, c)[1] = c
              /\ \A m \in 1..Len(larger[c]) : Written(larger, c)[m + 1] = larger[c][m]
          <5> DEFINE S == DOMAIN larger
          <5>1. larger[c] \in Seq(S) /\ c \in S
            BY <3>1
          <5> HIDE DEF S
          <5> QED BY <5>1, WrittenFacts
        <4>3. Written(larger, c)[1 + 1] = larger[c][1]
          BY <3>1, <4>1, <4>2
        <4> QED BY <3>1, <4>1, <4>2, <4>3
      <3>3. i = 1 /\ j = 2
        BY <1>17, <2>1, <3>2
      <3> QED BY <1>16, <2>1, <3>2, <3>3
    <2>2. CASE x # c
      <3>1. x \in A /\ Written(larger, x) = Written(sup, x)
        BY <1>3, <1>4, <1>5, <2>2 DEF Written
      <3>2. Before(old, Written(larger, x)[i], Written(larger, x)[j])
        BY <1>7, <1>17, <3>1 DEF Obeys
      <3> QED BY <1>15, <3>2
    <2> QED BY <2>1, <2>2
  <1>18. Obeys(list, larger, M)
    BY <1>17 DEF Obeys
  <1> QED BY <1>13, <1>18 DEF list, larger, M, old, k
(* defclass1 makes the list of its class right and keeps the others. *)
LEMMA DefClass1Inv ==
  ASSUME CplInv, NEW c \in Classes, NEW supers \in SuperChoices[c], DefClass1(c, supers)
  PROVE  CplInv'
  <1> SUFFICES ASSUME ~ fault' PROVE CplsRight(superclasses', cpl')
    BY DEF CplInv
  <1> DEFINE sup == superclasses
             larger == With(sup, c, supers)
             members == {c} \cup UNION {Ancestors(s) : s \in Range(supers)}
             list == IF Len(supers) = 1 THEN <<c>> \o cpl[supers[1]]
                     ELSE SlowComputeCpl(members, larger)
             M == Above(larger, c)
  <1>1. /\ ~ fault /\ c \notin DOMAIN sup /\ Range(supers) \subseteq DOMAIN sup
        /\ superclasses' = larger
        /\ Len(supers) = 1 => supers[1] \in DOMAIN cpl
        /\ cpl' = IF Len(list) = Cardinality(members) THEN With(cpl, c, list) ELSE cpl
    BY Zenon DEF DefClass1
  <1>2. CplsRight(sup, cpl) /\ Hierarchy(sup)
    BY <1>1 DEF CplInv, CplsRight
  <1>3. supers \in Seq(DOMAIN sup)
    <2>1. supers \in Seq(Classes \cup {Root})
      BY ClassesAssumption
    <2>2. \A i \in 1..Len(supers) : supers[i] \in DOMAIN sup
      BY <1>1, <2>1, InQueue
    <2> QED BY <2>1, <2>2
  <1>4. members = M
    <2>1. \A s \in Range(supers) : Ancestors(s) = Above(sup, s)
      BY <1>1, <1>2, AncestorsAre
    <2>2. {Ancestors(s) : s \in Range(supers)} = {Above(sup, s) : s \in Range(supers)}
      BY <2>1
    <2>3. Grown(sup, c, supers, larger)
      BY <1>1, <1>2, <1>3, HierarchyGrows
    <2>4. M = {c} \cup UNION {Above(sup, s) : s \in Range(supers)}
      BY <2>3 DEF Grown
    <2> QED BY <2>2, <2>4
  <1>5. IF Len(list) = Cardinality(M)
          THEN list \in SetToSeqs(M) /\ Obeys(list, larger, M)
          ELSE \A other \in SetToSeqs(M) : ~ Obeys(other, larger, M)
    <2>1. CASE Len(supers) = 1
      <3>1. list = <<c>> \o cpl[supers[1]]
        BY <2>1
      <3>2. /\ list \in SetToSeqs(M) /\ Obeys(list, larger, M)
            /\ Len(list) = Cardinality(M)
        BY <1>1, <1>2, <1>3, <2>1, <3>1, OneSuperclass
      <3> QED BY <3>2
    <2>2. CASE Len(supers) # 1
      <3>1. list = SlowComputeCpl(M, larger)
        BY <1>4, <2>2
      <3>2. Base(M, larger, c)
        BY <1>1, <1>2, <1>3, NewIsBase
      <3> HIDE DEF M, larger, list
      <3> QED BY <3>1, <3>2, SlowListIsRight
    <2> QED BY <2>1, <2>2
  <1> HIDE DEF list, members
  <1>6. cpl' = IF Len(list) = Cardinality(M) THEN With(cpl, c, list) ELSE cpl
    <2> HIDE DEF M
    <2> QED BY <1>1, <1>4
  <1>7. DOMAIN cpl \subseteq DOMAIN sup /\ c \notin DOMAIN cpl
    BY <1>1, <1>2 DEF CplsRight
  <1>8. /\ DOMAIN cpl' \subseteq DOMAIN cpl \cup {c} /\ DOMAIN cpl \subseteq DOMAIN cpl'
        /\ \A k \in DOMAIN cpl : cpl'[k] = cpl[k]
        /\ HasRightCpl(c, larger, cpl')
    <2>1. CASE Len(list) = Cardinality(M)
      <3>1. cpl' = With(cpl, c, list)
        BY <1>6, <2>1
      <3>2. /\ DOMAIN cpl' = DOMAIN cpl \cup {c} /\ cpl'[c] = list
            /\ \A k \in DOMAIN cpl : cpl'[k] = cpl[k]
        BY <1>7, <3>1 DEF With
      <3>3. HasRightCpl(c, larger, cpl')
        <4> HIDE DEF M
        <4>1. list \in SetToSeqs(M) /\ Obeys(list, larger, M)
          BY <1>5, <2>1
        <4> QED BY <3>2, <4>1 DEF HasRightCpl, M
      <3> QED BY <3>2, <3>3
    <2>2. CASE Len(list) # Cardinality(M)
      <3>1. cpl' = cpl
        BY <1>6, <2>2
      <3>2. HasRightCpl(c, larger, cpl')
        <4> HIDE DEF M
        <4>1. \A other \in SetToSeqs(M) : ~ Obeys(other, larger, M)
          BY <1>5, <2>2
        <4> QED BY <1>7, <3>1, <4>1 DEF HasRightCpl, M
      <3> QED BY <3>1, <3>2
    <2> QED BY <2>1, <2>2
  <1>9. CplsRight(larger, cpl')
    <2> HIDE DEF M
    <2> QED BY <1>1, <1>2, <1>3, <1>8, OthersStayRight
  <1> QED BY <1>1, <1>9

LEMMA ClassStepInv == CplInv /\ [ClassNext]_classVars => CplInv'
  <1> SUFFICES ASSUME CplInv, [ClassNext]_classVars PROVE CplInv'
    OBVIOUS
  <1>1. ASSUME NEW c \in Classes, NEW supers \in SuperChoices[c], DefClass1(c, supers)
        PROVE  CplInv'
    BY <1>1, DefClass1Inv
  <1>2. ASSUME NEW c \in Classes, NEW names \in SlotChoices[c], DefClass2(c, names)
        PROVE  CplInv'
    <2>1. ~ fault /\ superclasses' = superclasses /\ cpl' = cpl
      BY <1>2 DEF DefClass2
    <2> QED BY <2>1 DEF CplInv
  <1>3. CASE UNCHANGED classVars
    BY <1>3 DEF classVars, CplInv
  <1> QED BY <1>1, <1>2, <1>3 DEF ClassNext

LEMMA ClassStarts == ClassInit => CplInv
  <1> SUFFICES ASSUME ClassInit PROVE CplsRight(superclasses, cpl)
    BY DEF CplInv
  <1>1. /\ superclasses = [k \in {Root} |-> <<>>] /\ cpl = [k \in {Root} |-> <<Root>>]
    BY DEF ClassInit
  <1>2. DOMAIN superclasses = {Root} /\ superclasses[Root] = <<>> /\ Range(<<>>) = {}
        /\ DOMAIN cpl = {Root} /\ cpl[Root] = <<Root>>
    BY <1>1 DEF Range
  <1>3. Hierarchy(superclasses)
    <2>1. IsFiniteSet({Root}) /\ <<>> \in Seq({Root})
      <3>1. <<>> \in Seq({Root})
        OBVIOUS
      <3> QED BY <3>1, FS_Singleton
    <2>2. \A B \in SUBSET {Root} : B # {} => Root \in B
      OBVIOUS
    <2> QED BY <1>2, <2>1, <2>2 DEF Hierarchy
  <1>4. Above(superclasses, Root) = {Root}
    BY <1>2, <1>3, AboveFacts
  <1>5. <<Root>> \in SetToSeqs({Root})
    <2>1. <<Root>> \in Seq({Root}) /\ IsInjective(<<Root>>) /\ Len(<<Root>>) = 1
      BY DEF IsInjective
    <2>2. IsFiniteSet({Root}) /\ Cardinality({Root}) = 1
      BY FS_Singleton
    <2> QED BY <2>1, <2>2, AllOnce
  <1>6. Obeys(<<Root>>, superclasses, {Root})
    <2>1. superclasses[Root] \in Seq({Root}) /\ Len(superclasses[Root]) = 0
      BY <1>2
    <2>2. DOMAIN Written(superclasses, Root) = 1..(0 + 1)
      BY <2>1, WrittenFacts
    <2>3. \A i, j \in 1..(0 + 1) : ~ (i < j)
      OBVIOUS
    <2> QED BY <2>2, <2>3 DEF Obeys
  <1>7. HasRightCpl(Root, superclasses, cpl)
    BY <1>2, <1>4, <1>5, <1>6 DEF HasRightCpl
  <1> QED BY <1>2, <1>3, <1>7 DEF CplsRight

(* Class definitions keep a hierarchy, and in it a precedence list for     *)
(* just the classes that can have one: compute_cpl and setup_class_supers, *)
(* over any sequence of defclass1 and defclass2.                           *)
THEOREM ClassInvariance == ClassSpec => []CplInv
  BY ClassStarts, ClassStepInv, PTL DEF ClassSpec

(* The lists name the class and all above it once, in an order that every  *)
(* superclass list among them agrees with; and slow_compute_cpl gives up   *)
(* ("Inconsistent CPL") only when there is no such order.                  *)
THEOREM PrecedenceIsRight == ClassSpec => []CplIsRight
  BY ClassInvariance, CplInvMeans, PTL

-----------------------------------------------------------------------------
(***************************************************************************)
(* What the precedence lists say of the types: a list has just the classes *)
(* above its class, each before those above it; and above a class without  *)
(* several superclasses, all are one above the other.                      *)
(***************************************************************************)

(* No class is above one that is above it. *)
LEMMA AboveIsPartial ==
  ASSUME NEW sup, Hierarchy(sup), NEW x \in DOMAIN sup, NEW y \in DOMAIN sup,
         x \in Above(sup, y), y \in Above(sup, x)
  PROVE  x = y
  <1> SUFFICES ASSUME x # y PROVE FALSE
    OBVIOUS
  <1> DEFINE B == {z \in DOMAIN sup : x \in Above(sup, z) /\ z \in Above(sup, x)}
  <1>1. x \in B /\ y \in B
    BY AboveFacts
  <1>2. PICK k \in B : Range(sup[k]) \cap B = {}
    BY <1>1 DEF Hierarchy
  <1>3. PICK z \in B : z # k
    BY <1>1
  <1>4. z \in Above(sup, k)
    BY <1>2, <1>3, AboveFacts
  <1>5. Above(sup, k) = {k} \cup UNION {Above(sup, k2) : k2 \in Range(sup[k])}
    BY <1>2, AboveUnfolds
  <1>6. PICK k2 \in Range(sup[k]) : z \in Above(sup, k2)
    BY <1>3, <1>4, <1>5
  <1>7. k2 \in Above(sup, k) /\ k2 \in DOMAIN sup
    BY <1>2, AboveFacts
  <1>8. x \in Above(sup, k2)
    BY <1>3, <1>6, <1>7, AboveFacts
  <1>9. k2 \in Above(sup, x)
    BY <1>2, <1>7, AboveFacts
  <1> QED BY <1>2, <1>6, <1>7, <1>8, <1>9

(* A list that obeys has each class before the others above it. *)
LEMMA ObeyingIsMonotone ==
  ASSUME NEW sup, Hierarchy(sup), NEW c \in DOMAIN sup, NEW list,
         list \in SetToSeqs(Above(sup, c)), Obeys(list, sup, Above(sup, c)),
         NEW y \in Above(sup, c), NEW x \in Above(sup, y), x # y
  PROVE  Before(list, y, x)
  <1> DEFINE A == {z \in Above(sup, y) : z = y \/ Before(list, y, z)}
  <1>1. /\ y \in DOMAIN sup /\ Above(sup, y) \subseteq Above(sup, c) /\ y \in Above(sup, y)
        /\ \A z \in Above(sup, y) : Range(sup[z]) \subseteq Above(sup, y)
        /\ Above(sup, y) \subseteq DOMAIN sup
    BY AboveFacts
  <1>2. /\ list \in Seq(Above(sup, c)) /\ IsInjective(list)
        /\ DOMAIN list = 1..Len(list) /\ Len(list) \in Nat
    BY OnceEach, AboveFacts
  <1>3. ASSUME NEW z \in A, NEW w \in Range(sup[z]) PROVE w \in A
    <2>1. w \in Above(sup, y)
      BY <1>1
    <2>2. sup[z] \in Seq(DOMAIN sup)
      BY <1>1 DEF Hierarchy
    <2>3. PICK m \in 1..Len(sup[z]) : sup[z][m] = w
      BY <2>2, InQueue
    <2>4. /\ DOMAIN Written(sup, z) = 1..(Len(sup[z]) + 1)
          /\ Written(sup, z)[m + 1] = w /\ Written(sup, z)[1] = z
      BY <2>2, <2>3 DEF Written
    <2>5. Len(sup[z]) \in Nat
      BY <2>2
    <2>6. Before(list, z, w)
      BY <1>1, <2>4, <2>5 DEF Obeys
    <2>7. z = y \/ Before(list, y, z)
      OBVIOUS
    <2>8. Before(list, y, w)
      BY <1>2, <2>6, <2>7 DEF Before, IsInjective
    <2> QED BY <2>1, <2>8
  <1>4. A \in SUBSET DOMAIN sup /\ y \in A /\ IsClosed(sup, A)
    <2> HIDE DEF A
    <2>1. IsClosed(sup, A)
      BY <1>3 DEF IsClosed
    <2> QED BY <1>1, <2>1 DEF A
  <1>5. x \in A
    BY <1>4 DEF Above
  <1> QED BY <1>5

(* Above a class of which no ancestor has several superclasses. *)
LEMMA PlainIsChain ==
  ASSUME NEW sup, Hierarchy(sup), NEW c \in DOMAIN sup,
         \A k \in Above(sup, c) : Len(sup[k]) <= 1,
         NEW x \in Above(sup, c), NEW y \in Above(sup, c)
  PROVE  x \in Above(sup, y) \/ y \in Above(sup, x)
  <1> DEFINE A == {z \in Above(sup, c) : x \in Above(sup, z) \/ z \in Above(sup, x)}
  <1>1. /\ Above(sup, c) \subseteq DOMAIN sup /\ c \in Above(sup, c)
        /\ \A z \in Above(sup, c) : Range(sup[z]) \subseteq Above(sup, c)
    BY AboveFacts
  <1>2. ASSUME NEW z \in A, NEW w \in Range(sup[z]) PROVE w \in A
    <2>1. w \in Above(sup, c) /\ w \in DOMAIN sup /\ z \in DOMAIN sup
      BY <1>1
    <2>2. w \in Above(sup, z)
      BY <2>1, AboveFacts
    <2>3. CASE z \in Above(sup, x)
      BY <1>1, <2>1, <2>2, <2>3, AboveFacts
    <2>4. CASE z \notin Above(sup, x)
      <3>1. x \in Above(sup, z) /\ x # z
        BY <2>1, <2>4, AboveFacts
      <3>2. Above(sup, z) = {z} \cup UNION {Above(sup, k2) : k2 \in Range(sup[z])}
        BY <2>1, AboveUnfolds
      <3>3. PICK k2 \in Range(sup[z]) : x \in Above(sup, k2)
        BY <3>1, <3>2
      <3>4. sup[z] \in Seq(DOMAIN sup) /\ Len(sup[z]) <= 1
        BY <2>1 DEF Hierarchy
      <3>5. PICK i \in 1..Len(sup[z]) : sup[z][i] = k2
        BY <3>4, InQueue
      <3>6. PICK j \in 1..Len(sup[z]) : sup[z][j] = w
        BY <3>4, InQueue
      <3>7. i = j
        BY <3>4
      <3> QED BY <2>1, <3>3, <3>5, <3>6, <3>7
    <2> QED BY <2>3, <2>4
  <1>3. A \in SUBSET DOMAIN sup /\ c \in A /\ IsClosed(sup, A)
    <2>1. c \in A
      BY <1>1
    <2>2. A \in SUBSET DOMAIN sup
      BY <1>1
    <2> HIDE DEF A
    <2>3. IsClosed(sup, A)
      BY <1>2 DEF IsClosed
    <2> QED BY <2>1, <2>2, <2>3
  <1>4. y \in A
    BY <1>3 DEF Above
  <1> QED BY <1>4

(* What the precedence lists that are there say. *)
LEMMA ListsAre ==
  ASSUME CplsRight(superclasses, cpl), NEW c \in DOMAIN cpl
  PROVE  /\ c \in DOMAIN superclasses /\ c \in Range(cpl[c])
         /\ Range(cpl[c]) = Above(superclasses, c)
         /\ \A d \in DOMAIN cpl : d \in Range(cpl[c]) => Range(cpl[d]) \subseteq Range(cpl[c])
         /\ \A d \in DOMAIN cpl : d \in Range(cpl[c]) /\ c \in Range(cpl[d]) => c = d
         /\ cpl[c] \in Seq(Range(cpl[c])) /\ IsInjective(cpl[c])
         /\ \A d \in DOMAIN cpl : d \in Range(cpl[c]) =>
              \A e \in Range(cpl[d]) : e # d => Before(cpl[c], d, e)
         /\ Plain(c) => \A d, e \in DOMAIN cpl : d \in Range(cpl[c]) /\ e \in Range(cpl[c]) =>
                            d \in Range(cpl[e]) \/ e \in Range(cpl[d])
  <1> DEFINE sup == superclasses
  <1>1. Hierarchy(sup) /\ \A d \in DOMAIN cpl : d \in DOMAIN sup
    BY DEF CplsRight
  <1>2. \A d \in DOMAIN cpl : /\ cpl[d] \in SetToSeqs(Above(sup, d))
                              /\ Obeys(cpl[d], sup, Above(sup, d))
    BY <1>1 DEF CplsRight, HasRightCpl
  <1>3. \A d \in DOMAIN cpl : Range(cpl[d]) = Above(sup, d)
    BY <1>1, <1>2, AboveFacts, OnceEach
  <1>4. cpl[c] \in Seq(Above(sup, c)) /\ IsInjective(cpl[c])
    BY <1>1, <1>2, AboveFacts, OnceEach
  <1>5. c \in Above(sup, c) /\ \A d \in Above(sup, c) : Above(sup, d) \subseteq Above(sup, c)
    BY <1>1, AboveFacts
  <1>6. \A d \in DOMAIN cpl : d \in Above(sup, c) /\ c \in Above(sup, d) => c = d
    BY <1>1, AboveIsPartial
  <1>7. ASSUME NEW d \in DOMAIN cpl, d \in Above(sup, c), NEW e \in Above(sup, d), e # d
        PROVE  Before(cpl[c], d, e)
    BY <1>1, <1>2, <1>7, ObeyingIsMonotone
  <1>8. ASSUME Plain(c), NEW d \in Above(sup, c), NEW e \in Above(sup, c)
        PROVE  d \in Above(sup, e) \/ e \in Above(sup, d)
    <2>1. \A k \in Above(sup, c) : Len(sup[k]) <= 1
      BY <1>1, <1>8, AncestorsAre DEF Plain
    <2> QED BY <1>1, <2>1, PlainIsChain
  <1> QED BY <1>1, <1>3, <1>4, <1>5, <1>6, <1>7, <1>8

-----------------------------------------------------------------------------
(***************************************************************************)
(* Types.  Those that methods are specialized on, and those of the caches. *)
(***************************************************************************)
SimpleTypes == {Class(c) : c \in Classes \cup {Root}} \cup {Singleton(o) : o \in Objects}
Types ==
  SimpleTypes \cup [kind : {"none-of"}, of : Classes, exclude : SUBSET SimpleTypes]

LEMMA TypesAre ==
  /\ \A t \in SimpleTypes :
       \/ t.kind = "class" /\ t = Class(t.of) /\ t.of \in Classes \cup {Root}
       \/ t.kind = "singleton" /\ t = Singleton(t.of) /\ t.of \in Objects
  /\ \A t \in Types :
       \/ t \in SimpleTypes /\ t.kind \in {"class", "singleton"}
       \/ t.kind = "none-of" /\ t.of \in Classes /\ t.exclude \in SUBSET SimpleTypes
  /\ \A c \in Classes \cup {Root} : Class(c) \in Types /\ Class(c) \in SimpleTypes
  /\ \A o \in Objects : Singleton(o) \in Types /\ Singleton(o) \in SimpleTypes
  /\ \A c : Class(c).kind = "class" /\ Class(c).of = c
  /\ \A o : Singleton(o).kind = "singleton" /\ Singleton(o).of = o
  <1>1. /\ \A c : Class(c).kind = "class" /\ Class(c).of = c
        /\ \A o : Singleton(o).kind = "singleton" /\ Singleton(o).of = o
    BY DEF Class, Singleton
  <1>2. /\ \A c \in Classes \cup {Root} : Class(c) \in Types /\ Class(c) \in SimpleTypes
        /\ \A o \in Objects : Singleton(o) \in Types /\ Singleton(o) \in SimpleTypes
    BY DEF SimpleTypes, Types
  <1>3. ASSUME NEW t \in SimpleTypes
        PROVE  \/ t.kind = "class" /\ t = Class(t.of) /\ t.of \in Classes \cup {Root}
               \/ t.kind = "singleton" /\ t = Singleton(t.of) /\ t.of \in Objects
    BY <1>1 DEF SimpleTypes
  <1>4. ASSUME NEW t \in Types, t \notin SimpleTypes
        PROVE  t.kind = "none-of" /\ t.of \in Classes /\ t.exclude \in SUBSET SimpleTypes
    <2>1. t \in [kind : {"none-of"}, of : Classes, exclude : SUBSET SimpleTypes]
      BY <1>4 DEF Types
    <2> QED BY <2>1
  <1> QED BY <1>1, <1>2, <1>3, <1>4

(* The classes that a type names are there. *)
There(t) ==
  IF t.kind = "class" THEN t.of \in DOMAIN cpl ELSE ClassOf[t.of] \in DOMAIN newSlots

LEMMA MethodTypes ==
  ASSUME NEW m \in Methods
  PROVE  /\ Specializers[m] \in Seq(SimpleTypes)
         /\ DOMAIN Specializers[m] = 1..Len(Specializers[m]) /\ Len(Specializers[m]) \in Nat
         /\ \A i \in DOMAIN Specializers[m] : Specializers[m][i] \in SimpleTypes
         /\ Initialized(m) <=> \A i \in DOMAIN Specializers[m] : There(Specializers[m][i])
         /\ \A args \in ArgLists : /\ DOMAIN args = DOMAIN Specializers[m]
                                   /\ Len(args) = Len(Specializers[m])
                                   /\ args \in Seq(Objects)
         /\ \A m2 \in Methods : DOMAIN Specializers[m2] = DOMAIN Specializers[m]
  <1>1. Specializers[m] \in Seq(SimpleTypes)
    BY MethodsAssumption DEF SimpleTypes
  <1>2. \A m2 \in Methods : /\ Specializers[m2] \in Seq(SimpleTypes)
                            /\ Len(Specializers[m2]) = Len(Specializers[m])
    BY MethodsAssumption DEF SimpleTypes
  <1>3. Initialized(m) <=> \A i \in DOMAIN Specializers[m] : There(Specializers[m][i])
    BY DEF Initialized, There
  <1>4. \A args \in ArgLists : args \in Seq(Objects) /\ Len(args) = Len(Specializers[m])
    BY MethodsAssumption, DispatchAssumption
  <1> QED BY <1>1, <1>2, <1>3, <1>4

LEMMA InstanceIs ==
  ASSUME NEW o
  PROVE  /\ \A t : t.kind = "class" => (Instance(o, t) <=> t.of \in Range(cpl[ClassOf[o]]))
         /\ \A t : t.kind = "singleton" => (Instance(o, t) <=> o = t.of)
         /\ \A t : t.kind = "none-of" /\ t.exclude \in SUBSET SimpleTypes =>
              (Instance(o, t) <=> /\ t.of \in Range(cpl[ClassOf[o]])
                                  /\ \A u \in t.exclude : ~ Instance(o, u))
  <1>1. \A u \in SimpleTypes : u.kind # "none-of"
    BY TypesAre
  <1>2. \A u : u.kind # "none-of" =>
          (Instance(o, u) <=> IF u.kind = "singleton" THEN o = u.of ELSE u.of \in Range(cpl[ClassOf[o]]))
    BY DEF Instance
  <1>3. ASSUME NEW t, t.kind = "none-of", t.exclude \in SUBSET SimpleTypes
        PROVE  Instance(o, t) <=> /\ t.of \in Range(cpl[ClassOf[o]])
                                  /\ \A u \in t.exclude : ~ Instance(o, u)
    <2>1. \A u \in t.exclude :
            (Instance(o, u) <=> IF u.kind = "singleton" THEN o = u.of ELSE u.of \in Range(cpl[ClassOf[o]]))
      BY <1>1, <1>2, <1>3
    <2>2. Instance(o, t) <=> /\ t.of \in Range(cpl[ClassOf[o]])
                             /\ \A u \in t.exclude :
                                   ~ (IF u.kind = "singleton" THEN o = u.of
                                      ELSE u.of \in Range(cpl[ClassOf[o]]))
      BY <1>3 DEF Instance
    <2> QED BY <2>1, <2>2
  <1> QED BY <1>2, <1>3

-----------------------------------------------------------------------------
(***************************************************************************)
(* A type that a cache keeps was made for one object, and fits others; it  *)
(* settles a type of a method when it tells, for all that it fits, whether *)
(* they are instances of that.                                             *)
(***************************************************************************)
Fits(t, o) ==
  Instance(o, t) /\ (t.kind = "singleton" \/ t.of = ClassOf[o] \/ Plain(ClassOf[o]))

MadeOfOne(t, o) ==
  t \in Types /\ Instance(o, t) /\ (t.kind = "singleton" \/ t.of = ClassOf[o])

Settles(t, u) ==
  \/ t.kind = "singleton"
  \/ u.kind = "class" /\ u.of \in Range(cpl[t.of])
  \/ t.kind = "none-of" /\ u \in t.exclude
  \/ u.kind = "class" /\ t.of \notin Range(cpl[u.of])
  \/ u.kind = "singleton" /\ t.of \notin Range(cpl[ClassOf[u.of]])

Laid == CplsRight(superclasses, cpl) /\ DOMAIN newSlots \subseteq DOMAIN cpl

LEMMA SettledIsSame ==
  ASSUME Laid, NEW t, NEW u \in SimpleTypes, There(u), Settles(t, u),
         NEW a \in Objects, ClassOf[a] \in DOMAIN newSlots, MadeOfOne(t, a),
         NEW b \in Objects, ClassOf[b] \in DOMAIN newSlots, Fits(t, b)
  PROVE  Instance(a, u) <=> Instance(b, u)
  <1> DEFINE A == ClassOf[a]
             B == ClassOf[b]
  <1>1. A \in DOMAIN cpl /\ B \in DOMAIN cpl /\ CplsRight(superclasses, cpl)
    BY DEF Laid
  <1>2. CASE t.kind = "singleton"
    <2>1. a = t.of /\ b = t.of
      BY <1>2, InstanceIs DEF Fits, MadeOfOne
    <2> QED BY <2>1
  <1>3. CASE t.kind # "singleton"
    <2>1. t.of = A /\ (t.kind = "class" \/ (t.kind = "none-of" /\ t.exclude \in SUBSET SimpleTypes))
      BY <1>3, TypesAre DEF MadeOfOne
    <2>2. A \in Range(cpl[B]) /\ (A = B \/ Plain(B))
      BY <1>3, <2>1, InstanceIs DEF Fits
    <2>3. A \in Range(cpl[A]) /\ Range(cpl[A]) \subseteq Range(cpl[B])
      BY <1>1, <2>2, ListsAre
    <2>4. CASE t.kind = "none-of" /\ u \in t.exclude
      BY <2>1, <2>4, InstanceIs DEF Fits, MadeOfOne
    <2>5. CASE u.kind = "class"
      <3>1. /\ Instance(a, u) <=> u.of \in Range(cpl[A])
            /\ Instance(b, u) <=> u.of \in Range(cpl[B])
        BY <2>5, InstanceIs
      <3>2. CASE u.of \in Range(cpl[A])
        BY <2>3, <3>1, <3>2
      <3>3. CASE u.of \notin Range(cpl[A])
        <4>1. (t.kind = "none-of" /\ u \in t.exclude) \/ A \notin Range(cpl[u.of])
          BY <1>3, <2>1, <2>5, <3>3 DEF Settles
        <4>2. CASE A \notin Range(cpl[u.of])
          <5>1. u.of \in DOMAIN cpl
            BY <2>5 DEF There
          <5>2. A # B => (u.of \notin Range(cpl[B]))
            BY <1>1, <2>2, <3>3, <4>2, <5>1, ListsAre
          <5> QED BY <3>1, <3>3, <5>2
        <4> QED BY <2>4, <4>1, <4>2
      <3> QED BY <3>2, <3>3
    <2>6. CASE u.kind = "singleton"
      <3>1. /\ Instance(a, u) <=> a = u.of
            /\ Instance(b, u) <=> b = u.of
        BY <2>6, InstanceIs
      <3>2. CASE A \notin Range(cpl[ClassOf[u.of]])
        BY <2>2, <2>3, <3>1, <3>2
      <3>3. (t.kind = "none-of" /\ u \in t.exclude) \/ A \notin Range(cpl[ClassOf[u.of]])
        BY <1>3, <2>1, <2>6 DEF Settles
      <3> QED BY <2>4, <3>2, <3>3
    <2> QED BY <2>5, <2>6, TypesAre
  <1> QED BY <1>2, <1>3

(* A fold goes through the first k positions for each k. *)
GoesOn(f, S, n, a, F) ==
  /\ f[{}] = a
  /\ \A k \in 1..n : f[1..(k - 1)] \in S => f[1..k] = F[<<k, f[1..(k - 1)]>>]

RunsThrough(g, f, n, a, F) ==
  /\ g[0] = a /\ g[n] = f[1..n]
  /\ \A k \in 1..n : g[k] = F[<<k, g[k - 1]>>]

(* Its values are those of a recursion on the position. *)
LEMMA FoldRuns ==
  ASSUME NEW S, NEW a \in S, NEW n \in Nat, NEW F \in [(1..n) \X S -> S],
         NEW f, GoesOn(f, S, n, a, F)
  PROVE  \E g \in [0..n -> S] : RunsThrough(g, f, n, a, F)
  <1> USE DEF GoesOn
  <1> DEFINE T == {k \in Nat : k <= n /\ f[1..k] \notin S}
             g == [k \in 0..n |-> f[1..k]]
  <1>1. f[1..0] = a
    <2>1. 1..0 = {}
      OBVIOUS
    <2> QED BY <2>1
  <1>2. ASSUME T # {} PROVE FALSE
    <2>1. PICK k \in T : \A m \in T : k <= m
      <3>1. T \in SUBSET Nat
        OBVIOUS
      <3> QED BY <1>2, <3>1, LeastNat
    <2>2. k \in 1..n
      BY <1>1, <2>1
    <2>3. f[1..(k - 1)] \in S
      BY <2>1, <2>2
    <2>4. <<k, f[1..(k - 1)]>> \in (1..n) \X S
      BY <2>2, <2>3
    <2> QED BY <2>1, <2>2, <2>3, <2>4
  <1>3. \A k \in 0..n : f[1..k] \in S
    BY <1>2
  <1>4. g \in [0..n -> S]
    BY <1>3
  <1>5. g[0] = a /\ g[n] = f[1..n]
    BY <1>1
  <1>6. ASSUME NEW k \in 1..n PROVE g[k] = F[<<k, g[k - 1]>>]
    <2>1. k \in 0..n /\ k - 1 \in 0..n
      OBVIOUS
    <2> QED BY <1>3, <2>1
  <1> HIDE DEF g
  <1> QED BY <1>4, <1>5, <1>6 DEF RunsThrough

-----------------------------------------------------------------------------
(***************************************************************************)
(* The narrowing of the types of a cache entry by the types of a method.   *)
(***************************************************************************)
Tighter(t2, t) == \A u \in SimpleTypes : Settles(t, u) => Settles(t2, u)

Answers == [applicable : BOOLEAN, types : Seq(Types)]

(* One type more that the argument is not an instance of is excluded. *)
LEMMA NoneOfIs ==
  ASSUME Laid, NEW o \in Objects, NEW t, MadeOfOne(t, o), t.kind # "singleton",
         NEW u \in SimpleTypes, ~ Instance(o, u)
  PROVE  MadeOfOne(NoneOf(t, u), o) /\ Tighter(NoneOf(t, u), t) /\ Settles(NoneOf(t, u), u)
  <1> DEFINE t2 == NoneOf(t, u)
             E == {u} \cup (IF t.kind = "none-of" THEN t.exclude ELSE {})
  <1>1. /\ t.of = ClassOf[o] /\ ClassOf[o] \in Classes
        /\ t.kind = "class" \/ (t.kind = "none-of" /\ t.exclude \in SUBSET SimpleTypes)
    BY TypesAre, DispatchAssumption DEF MadeOfOne
  <1>2. t2 = [kind |-> "none-of", of |-> t.of, exclude |-> E]
    BY DEF NoneOf
  <1>3. t2.kind = "none-of" /\ t2.of = t.of /\ t2.exclude = E
    BY <1>2
  <1>4. E \in SUBSET SimpleTypes
    BY <1>1
  <1>5. t2 \in Types
    BY <1>1, <1>2, <1>4 DEF Types
  <1> HIDE DEF t2
  <1>6. Instance(o, t2)
    <2>1. t.of \in Range(cpl[ClassOf[o]])
      BY <1>1, InstanceIs DEF MadeOfOne
    <2>2. \A v \in E : ~ Instance(o, v)
      BY <1>1, InstanceIs DEF MadeOfOne
    <2> QED BY <1>3, <1>4, <2>1, <2>2, InstanceIs
  <1>7. MadeOfOne(t2, o)
    BY <1>1, <1>3, <1>5, <1>6 DEF MadeOfOne
  <1>8. Settles(t2, u)
    BY <1>3 DEF Settles
  <1>9. Tighter(t2, t)
    BY <1>1, <1>3 DEF Tighter, Settles
  <1> QED BY <1>7, <1>8, <1>9 DEF t2

LEMMA NarrowIs ==
  ASSUME Laid, NEW u \in SimpleTypes, There(u),
         NEW o \in Objects, ClassOf[o] \in DOMAIN newSlots,
         NEW r \in Answers, NEW i \in 1..Len(r.types), MadeOfOne(r.types[i], o)
  PROVE  LET q == Narrow(r, u, o, i)
         IN /\ q \in Answers /\ Len(q.types) = Len(r.types)
            /\ \A j \in 1..Len(r.types) : j # i => q.types[j] = r.types[j]
            /\ MadeOfOne(q.types[i], o) /\ Tighter(q.types[i], r.types[i])
            /\ ~ r.applicable => q = r
            /\ r.applicable => /\ q.applicable <=> Instance(o, u)
                               /\ Settles(q.types[i], u)
  <1> DEFINE q == Narrow(r, u, o, i)
             t == r.types[i]
             A == ClassOf[o]
  <1>1. /\ A \in DOMAIN cpl /\ CplsRight(superclasses, cpl) /\ t \in Types
        /\ A \in Range(cpl[A])
    BY ListsAre DEF Laid, MadeOfOne
  <1>2. Tighter(t, t) /\ r.types \in Seq(Types) /\ r.applicable \in BOOLEAN
    BY DEF Tighter, Answers
  <1>3. /\ t.kind = "singleton" => t.of = o
        /\ t.kind # "singleton" => t.of = A
    BY InstanceIs DEF MadeOfOne
  <1>4. CASE ~ r.applicable
    <2>1. q = r
      BY <1>4 DEF Narrow
    <2> QED BY <1>2, <1>4, <2>1
  <1>5. CASE r.applicable /\ Subtype(t, u)
    <2>1. q = r
      BY <1>5 DEF Narrow
    <2>2. CASE t.kind = "singleton"
      <3>1. Instance(o, u)
        BY <1>3, <1>5, <2>2 DEF Subtype
      <3>2. Settles(t, u)
        BY <2>2 DEF Settles
      <3> QED BY <1>2, <1>5, <2>1, <3>1, <3>2
    <2>3. CASE t.kind # "singleton"
      <3>1. u.kind = "class" /\ u.of \in Range(cpl[A]) /\ t.of = A
        BY <1>3, <1>5, <2>3 DEF Subtype
      <3>2. Instance(o, u) /\ Settles(t, u)
        BY <3>1, InstanceIs DEF Settles
      <3> QED BY <1>2, <1>5, <2>1, <3>2
    <2> QED BY <2>2, <2>3
  <1>6. CASE r.applicable /\ ~ Subtype(t, u) /\ Instance(o, u)
    <2> DEFINE s == Singleton(o)
    <2>1. q = [r EXCEPT !.types[i] = s]
      BY <1>6 DEF Narrow
    <2>2. s \in Types /\ s.kind = "singleton" /\ s.of = o
      BY TypesAre
    <2> HIDE DEF s
    <2>3. MadeOfOne(s, o)
      BY <2>2, InstanceIs DEF MadeOfOne
    <2>4. Settles(s, u) /\ Tighter(s, t)
      BY <2>2 DEF Settles, Tighter
    <2>5. /\ q.applicable = r.applicable /\ q \in Answers
          /\ q.types = [r.types EXCEPT ![i] = s]
      <3>1. r = [applicable |-> r.applicable, types |-> r.types]
        BY DEF Answers
      <3>2. q = [applicable |-> r.applicable, types |-> [r.types EXCEPT ![i] = s]]
        BY <2>1, <3>1
      <3>3. [r.types EXCEPT ![i] = s] \in Seq(Types)
        BY <1>2, <2>2
      <3> QED BY <1>2, <3>2, <3>3 DEF Answers
    <2>6. /\ Len(q.types) = Len(r.types) /\ q.types[i] = s
          /\ \A j \in 1..Len(r.types) : j # i => q.types[j] = r.types[j]
      BY <1>2, <2>5
    <2> QED BY <1>6, <2>3, <2>4, <2>5, <2>6
  <1>7. CASE r.applicable /\ ~ Subtype(t, u) /\ ~ Instance(o, u) /\ Overlap(t, u)
    <2> DEFINE s == NoneOf(t, u)
    <2>1. t.kind # "singleton"
      BY <1>3, <1>7 DEF Overlap
    <2>2. MadeOfOne(s, o) /\ Tighter(s, t) /\ Settles(s, u)
      BY <1>7, <2>1, NoneOfIs
    <2>3. q = [applicable |-> FALSE, types |-> [r.types EXCEPT ![i] = s]]
      BY <1>7 DEF Narrow
    <2> HIDE DEF s
    <2>4. s \in Types
      BY <2>2 DEF MadeOfOne
    <2>5. /\ q.applicable = FALSE /\ q \in Answers
          /\ q.types = [r.types EXCEPT ![i] = s]
      BY <1>2, <2>3, <2>4 DEF Answers
    <2>6. /\ Len(q.types) = Len(r.types) /\ q.types[i] = s
          /\ \A j \in 1..Len(r.types) : j # i => q.types[j] = r.types[j]
      BY <1>2, <2>5
    <2> QED BY <1>7, <2>2, <2>5, <2>6
  <1>8. CASE r.applicable /\ ~ Subtype(t, u) /\ ~ Instance(o, u) /\ ~ Overlap(t, u)
    <2>1. q = [applicable |-> FALSE, types |-> r.types]
      BY <1>8 DEF Narrow
    <2>2. q.applicable = FALSE /\ q.types = r.types /\ q \in Answers
      BY <1>2, <2>1 DEF Answers
    <2>3. Settles(t, u)
      <3>1. CASE t.kind = "singleton"
        BY <3>1 DEF Settles
      <3>2. CASE t.kind # "singleton" /\ u.kind = "singleton"
        BY <1>8, <3>2 DEF Overlap, Settles
      <3>3. CASE t.kind # "singleton" /\ u.kind = "class"
        <4>1. \A c \in {A} \cup AllSubclasses(A) : u.of \notin Range(cpl[c])
          BY <1>3, <1>8, <3>3 DEF Overlap
        <4>2. u.of \in DOMAIN cpl /\ u.of \in Range(cpl[u.of])
          BY <1>1, <3>3, ListsAre DEF There
        <4>3. A \notin Range(cpl[u.of])
          BY <4>1, <4>2 DEF AllSubclasses
        <4> QED BY <1>3, <3>3, <4>3 DEF Settles
      <3> QED BY <3>1, <3>2, <3>3, TypesAre
    <2> QED BY <1>2, <1>8, <2>2, <2>3
  <1> QED BY <1>2, <1>4, <1>5, <1>6, <1>7, <1>8

MadeOf(types, args) ==
  /\ types \in Seq(Types) /\ Len(types) = Len(args)
  /\ \A i \in DOMAIN args : MadeOfOne(types[i], args[i])

(* The types of an entry tell of a method whether it takes all they fit,   *)
(* or none.                                                                *)
Decides(types, m, args) ==
  \/ \A i \in DOMAIN args :
       Instance(args[i], Specializers[m][i]) /\ Settles(types[i], Specializers[m][i])
  \/ \E i \in DOMAIN args :
       ~ Instance(args[i], Specializers[m][i]) /\ Settles(types[i], Specializers[m][i])

(* What the fold of Applicable does at one set of positions. *)
NarrowStep(m, args, types, f, s) ==
  IF s = {} THEN [applicable |-> TRUE, types |-> types]
  ELSE LET i == [j \in DOMAIN args |-> j][Max(s)]
       IN Narrow(f[s \ {Max(s)}], Specializers[m][i], args[i], i)

(* It is one Narrow after another. *)
LEMMA ApplicableRuns ==
  ASSUME Laid, NEW args \in ArgLists, CanCall(args), NEW m \in Methods, Initialized(m),
         NEW types, MadeOf(types, args)
  PROVE  LET n == Len(args)
             S == {r \in Answers : MadeOf(r.types, args)}
         IN \E g \in [0..n -> S] :
              /\ g[0] = [applicable |-> TRUE, types |-> types]
              /\ g[n] = Applicable(m, args, types)
              /\ \A k \in 1..n : g[k] = Narrow(g[k - 1], Specializers[m][k], args[k], k)
  <1> DEFINE n == Len(args)
             S == {r \in Answers : MadeOf(r.types, args)}
             a == [applicable |-> TRUE, types |-> types]
             F == [x \in (1..n) \X S |-> Narrow(x[2], Specializers[m][x[1]], args[x[1]], x[1])]
             Step(f, s) == NarrowStep(m, args, types, f, s)
             f0 == CHOOSE f : f = [s \in SUBSET (1..n) |-> Step(f, s)]
  <1>1. args \in Seq(Objects) /\ n \in Nat /\ DOMAIN args = 1..n
    BY DispatchAssumption
  <1>2. Applicable(m, args, types) = f0[1..n]
    <2>1. DOMAIN [j \in DOMAIN args |-> j] = 1..n
      BY <1>1
    <2> HIDE DEF n
    <2> QED BY <2>1 DEF Applicable, FoldLeft, MapThenFoldSet, NarrowStep
  <1> HIDE DEF n, S, a
  <1>3. ASSUME NEW r \in S, NEW k \in 1..n
        PROVE  Narrow(r, Specializers[m][k], args[k], k) \in S
    <2> DEFINE u == Specializers[m][k]
               q == Narrow(r, u, args[k], k)
    <2>1. /\ u \in SimpleTypes /\ There(u) /\ args[k] \in Objects
          /\ ClassOf[args[k]] \in DOMAIN newSlots
      BY <1>1, MethodTypes DEF CanCall
    <2>2. r \in Answers /\ MadeOf(r.types, args)
      BY DEF S
    <2>3. k \in 1..Len(r.types) /\ MadeOfOne(r.types[k], args[k])
      BY <1>1, <2>2 DEF MadeOf, n
    <2>4. /\ q \in Answers /\ Len(q.types) = Len(r.types)
          /\ \A j \in 1..Len(r.types) : j # k => q.types[j] = r.types[j]
          /\ MadeOfOne(q.types[k], args[k])
      BY <2>1, <2>2, <2>3, NarrowIs
    <2> HIDE DEF q
    <2>5. MadeOf(q.types, args)
      BY <1>1, <2>2, <2>4 DEF MadeOf, Answers, n
    <2> QED BY <2>4, <2>5 DEF S, q
  <1>4. a \in S
    BY DEF S, a, Answers, MadeOf
  <1>5. F \in [(1..n) \X S -> S]
    BY <1>3
  <1>6. \E f : f = [s \in SUBSET (1..n) |-> Step(f, s)]
    <2>1. PICK f \in [SUBSET (1..n) -> S] : Folds(f, n, a, F)
      <3> HIDE DEF F
      <3> QED BY <1>1, <1>4, <1>5, FoldExists
    <2>2. ASSUME NEW s \in SUBSET (1..n) PROVE f[s] = Step(f, s)
      <3>1. CASE s = {}
        BY <2>1, <3>1 DEF Folds, FoldStep, NarrowStep, a
      <3>2. CASE s # {}
        <4>1. Max(s) \in 1..n /\ s \ {Max(s)} \in SUBSET (1..n)
          BY <1>1, <3>2, MaxPosition
        <4>2. <<Max(s), f[s \ {Max(s)}]>> \in (1..n) \X S
          BY <2>1, <4>1
        <4>3. [j \in DOMAIN args |-> j][Max(s)] = Max(s)
          BY <1>1, <4>1
        <4> QED BY <2>1, <3>2, <4>2, <4>3 DEF Folds, FoldStep, NarrowStep
      <3> QED BY <3>1, <3>2
    <2>3. f = [s \in SUBSET (1..n) |-> f[s]]
      OBVIOUS
    <2>4. f = [s \in SUBSET (1..n) |-> Step(f, s)]
      BY <2>2, <2>3
    <2> QED BY <2>4
  <1>7. f0 = [s \in SUBSET (1..n) |-> Step(f0, s)]
    BY <1>6
  <1> HIDE DEF f0
  <1>8. f0[{}] = a
    BY <1>7 DEF NarrowStep, a
  <1>9. ASSUME NEW k \in 1..n, f0[1..(k - 1)] \in S PROVE f0[1..k] = F[<<k, f0[1..(k - 1)]>>]
    <2>1. k \in Nat \ {0} /\ 1..k \in SUBSET (1..n)
      BY <1>1
    <2>2. 1..k # {} /\ Max(1..k) = k /\ (1..k) \ {k} = 1..(k - 1)
      BY <2>1, FirstPositions
    <2>3. f0[1..k] = Step(f0, 1..k)
      BY <1>7, <2>1
    <2>4. [j \in DOMAIN args |-> j][k] = k
      BY <1>1
    <2>5. <<k, f0[1..(k - 1)]>> \in (1..n) \X S
      BY <1>9
    <2> QED BY <2>2, <2>3, <2>4, <2>5 DEF NarrowStep
  <1>10. GoesOn(f0, S, n, a, F)
    BY <1>8, <1>9 DEF GoesOn
  <1>11. PICK g \in [0..n -> S] : RunsThrough(g, f0, n, a, F)
    <2> HIDE DEF F
    <2> QED BY <1>1, <1>4, <1>5, <1>10, FoldRuns
  <1>12. ASSUME NEW k \in 1..n PROVE g[k] = Narrow(g[k - 1], Specializers[m][k], args[k], k)
    <2>1. <<k, g[k - 1]>> \in (1..n) \X S
      BY <1>1, <1>11
    <2> QED BY <1>11, <2>1 DEF RunsThrough
  <1> HIDE DEF F
  <1> QED BY <1>2, <1>11, <1>12 DEF n, S, a, RunsThrough

(* A method is applicable if it takes the arguments, and the types decide. *)
LEMMA ApplicableIs ==
  ASSUME Laid, NEW args \in ArgLists, CanCall(args), NEW m \in Methods, Initialized(m),
         NEW types, MadeOf(types, args)
  PROVE  LET r == Applicable(m, args, types)
         IN /\ r \in Answers /\ MadeOf(r.types, args)
            /\ r.applicable <=> Takes(m, args)
            /\ Decides(r.types, m, args)
            /\ \A i \in DOMAIN args : Tighter(r.types[i], types[i])
  <1> DEFINE n == Len(args)
             S == {r \in Answers : MadeOf(r.types, args)}
             Spec(i) == Specializers[m][i]
             Is(i) == Instance(args[i], Spec(i))
  <1>1. args \in Seq(Objects) /\ n \in Nat /\ DOMAIN args = 1..n
    BY DispatchAssumption
  <1>2. PICK g \in [0..n -> S] :
              /\ g[0] = [applicable |-> TRUE, types |-> types]
              /\ g[n] = Applicable(m, args, types)
              /\ \A k \in 1..n : g[k] = Narrow(g[k - 1], Spec(k), args[k], k)
    BY ApplicableRuns
  <1> DEFINE Good(k) == /\ g[k].applicable <=> \A i \in 1..k : Is(i)
                        /\ \A i \in 1..n : Tighter(g[k].types[i], types[i])
                        /\ g[k].applicable => \A i \in 1..k : Settles(g[k].types[i], Spec(i))
                        /\ ~ g[k].applicable =>
                             \E i \in 1..k : ~ Is(i) /\ Settles(g[k].types[i], Spec(i))
             T == {k \in Nat : k <= n /\ ~ Good(k)}
  <1>3. Good(0)
    BY <1>2 DEF Tighter
  <1>4. ASSUME NEW k \in 1..n, Good(k - 1) PROVE Good(k)
    <2> DEFINE r == g[k - 1]
               q == g[k]
    <2>1. r \in Answers /\ MadeOf(r.types, args) /\ q \in Answers
      BY <1>1, <1>2 DEF S
    <2>2. /\ Spec(k) \in SimpleTypes /\ There(Spec(k)) /\ args[k] \in Objects
          /\ ClassOf[args[k]] \in DOMAIN newSlots
          /\ \A i \in 1..n : Spec(i) \in SimpleTypes
      BY <1>1, MethodTypes DEF CanCall
    <2>3. k \in 1..Len(r.types) /\ MadeOfOne(r.types[k], args[k]) /\ Len(r.types) = n
      BY <1>1, <2>1 DEF MadeOf
    <2>4. q = Narrow(r, Spec(k), args[k], k)
      BY <1>2
    <2>5. /\ \A j \in 1..n : j # k => q.types[j] = r.types[j]
          /\ Tighter(q.types[k], r.types[k])
          /\ ~ r.applicable => q = r
          /\ r.applicable => /\ q.applicable <=> Is(k)
                             /\ Settles(q.types[k], Spec(k))
      <3> HIDE DEF r, q, n
      <3> QED BY <2>1, <2>2, <2>3, <2>4, NarrowIs
    <2>6. /\ r.applicable <=> \A i \in 1..(k - 1) : Is(i)
          /\ \A i \in 1..n : Tighter(r.types[i], types[i])
          /\ r.applicable => \A i \in 1..(k - 1) : Settles(r.types[i], Spec(i))
          /\ ~ r.applicable => \E i \in 1..(k - 1) : ~ Is(i) /\ Settles(r.types[i], Spec(i))
      BY <1>4
    <2> HIDE DEF r, q, Is, Spec
    <2>7. \A i \in 1..n : Tighter(q.types[i], r.types[i])
      BY <2>5 DEF Tighter
    <2>8. \A i \in 1..n : Tighter(q.types[i], types[i])
      BY <2>6, <2>7 DEF Tighter
    <2>9. CASE ~ r.applicable
      <3>1. q = r
        BY <2>5, <2>9
      <3>2. PICK i \in 1..(k - 1) : ~ Is(i) /\ Settles(r.types[i], Spec(i))
        BY <2>6, <2>9
      <3>3. i \in 1..k
        BY <1>1
      <3>4. Good(k)
        BY <2>6, <2>9, <3>1, <3>2, <3>3 DEF q
      <3> QED BY <3>4
    <2>10. CASE r.applicable
      <3>1. \A i \in 1..k : i \in 1..(k - 1) \/ i = k
        BY <1>1
      <3>2. q.applicable <=> \A i \in 1..k : Is(i)
        BY <2>5, <2>6, <2>10, <3>1
      <3>3. \A i \in 1..k : Settles(q.types[i], Spec(i))
        BY <1>1, <2>5, <2>6, <2>10, <3>1
      <3>4. ~ q.applicable => \E i \in 1..k : ~ Is(i) /\ Settles(q.types[i], Spec(i))
        BY <3>2, <3>3
      <3>5. Good(k)
        BY <2>8, <3>2, <3>3, <3>4 DEF q
      <3> QED BY <3>5
    <2> QED BY <2>9, <2>10
  <1>5. Good(n)
    <2> HIDE DEF Good
    <2>1. ASSUME T # {} PROVE FALSE
      <3>1. PICK k \in T : \A j \in T : k <= j
        <4>1. T \in SUBSET Nat
          OBVIOUS
        <4> QED BY <2>1, <4>1, LeastNat
      <3>2. k \in 1..n
        BY <1>1, <1>3, <3>1
      <3>3. Good(k - 1)
        BY <1>1, <3>1, <3>2
      <3> QED BY <1>4, <3>1, <3>2, <3>3
    <2> QED BY <1>1, <2>1
  <1> DEFINE q == g[n]
  <1>6. /\ q.applicable <=> \A i \in 1..n : Is(i)
        /\ \A i \in 1..n : Tighter(q.types[i], types[i])
        /\ q.applicable => \A i \in 1..n : Settles(q.types[i], Spec(i))
        /\ ~ q.applicable => \E i \in 1..n : ~ Is(i) /\ Settles(q.types[i], Spec(i))
    BY <1>5
  <1>7. q \in Answers /\ MadeOf(q.types, args) /\ q = Applicable(m, args, types)
    BY <1>1, <1>2 DEF S
  <1> HIDE DEF q
  <1>8. q.applicable <=> Takes(m, args)
    BY <1>1, <1>6 DEF Takes
  <1>9. Decides(q.types, m, args)
    BY <1>1, <1>6 DEF Decides
  <1> HIDE DEF n
  <1> QED BY <1>1, <1>6, <1>7, <1>8, <1>9

(***************************************************************************)
(* How methods compare.  Among those that take given arguments each        *)
(* position has a linear order: the singletons first, then the classes in  *)
(* the order of the precedence list of the argument's class.  A method is  *)
(* more specific than another if it is nowhere behind it, and not the same.*)
(***************************************************************************)
Rank(t, o) ==
  IF t.kind = "singleton" THEN 0
  ELSE CHOOSE k \in DOMAIN cpl[ClassOf[o]] : cpl[ClassOf[o]][k] = t.of

(* Types that are subtypes of each other are the same. *)
LEMMA SubtypesBothWays ==
  ASSUME Laid, NEW t1 \in SimpleTypes, There(t1), NEW t2 \in SimpleTypes, There(t2)
  PROVE  Subtype(t1, t2) /\ Subtype(t2, t1) <=> t1 = t2
  <1>1. CplsRight(superclasses, cpl)
    BY DEF Laid
  <1>2. CASE t1.kind = "singleton"
    <2>1. Subtype(t1, t2) <=> Instance(t1.of, t2)
      BY <1>2 DEF Subtype
    <2>2. CASE t2.kind = "singleton"
      <3>1. Subtype(t1, t2) <=> t1.of = t2.of
        BY <2>1, <2>2, InstanceIs
      <3>2. Subtype(t2, t1) <=> t2.of = t1.of
        BY <1>2, <2>2, InstanceIs DEF Subtype
      <3>3. t1 = Singleton(t1.of) /\ t2 = Singleton(t2.of)
        BY <1>2, <2>2, TypesAre
      <3>4. t1 = t2 <=> t1.of = t2.of
        BY <3>3
      <3> QED BY <3>1, <3>2, <3>4
    <2>3. CASE t2.kind # "singleton"
      <3>1. ~ Subtype(t2, t1)
        BY <1>2, <2>3 DEF Subtype
      <3>2. t1 # t2
        BY <1>2, <2>3
      <3> QED BY <3>1, <3>2
    <2> QED BY <2>2, <2>3
  <1>3. CASE t1.kind # "singleton"
    <2>1. t1.kind = "class" /\ t1 = Class(t1.of) /\ t1.of \in DOMAIN cpl
      BY <1>3, TypesAre DEF There
    <2>2. Subtype(t1, t2) <=> t2.kind = "class" /\ t2.of \in Range(cpl[t1.of])
      BY <1>3 DEF Subtype
    <2>3. CASE t2.kind = "singleton"
      <3>1. ~ Subtype(t1, t2)
        BY <2>2, <2>3
      <3>2. t1 # t2
        BY <1>3, <2>3
      <3> QED BY <3>1, <3>2
    <2>4. CASE t2.kind # "singleton"
      <3>1. t2.kind = "class" /\ t2 = Class(t2.of) /\ t2.of \in DOMAIN cpl
        BY <2>4, TypesAre DEF There
      <3>2. Subtype(t2, t1) <=> t1.of \in Range(cpl[t2.of])
        BY <2>1, <2>4 DEF Subtype
      <3>3. t1.of \in Range(cpl[t1.of]) /\ t2.of \in Range(cpl[t2.of])
        BY <1>1, <2>1, <3>1, ListsAre
      <3>4. Subtype(t1, t2) /\ Subtype(t2, t1) => t1.of = t2.of
        BY <1>1, <2>1, <2>2, <3>1, <3>2, ListsAre
      <3>5. t1 = t2 <=> t1.of = t2.of
        BY <2>1, <3>1
      <3> QED BY <2>2, <3>1, <3>2, <3>3, <3>4, <3>5
    <2> QED BY <2>3, <2>4
  <1> QED BY <1>2, <1>3

(* The place of a class in a precedence list. *)
LEMMA RankIs ==
  ASSUME Laid, NEW o \in Objects, ClassOf[o] \in DOMAIN newSlots,
         NEW t \in SimpleTypes, Instance(o, t)
  PROVE  /\ Rank(t, o) \in Nat
         /\ t.kind = "singleton" => t.of = o /\ Rank(t, o) = 0
         /\ t.kind = "class" => /\ Rank(t, o) \in 1..Len(cpl[ClassOf[o]])
                                /\ cpl[ClassOf[o]][Rank(t, o)] = t.of
                                /\ t.of \in Range(cpl[ClassOf[o]])
  <1> DEFINE c == ClassOf[o]
  <1>1. c \in DOMAIN cpl /\ CplsRight(superclasses, cpl)
    BY DEF Laid
  <1>2. cpl[c] \in Seq(Range(cpl[c]))
    BY <1>1, ListsAre
  <1>3. DOMAIN cpl[c] = 1..Len(cpl[c]) /\ Len(cpl[c]) \in Nat
    BY <1>2
  <1>4. CASE t.kind = "singleton"
    BY <1>4, InstanceIs DEF Rank
  <1>5. CASE t.kind = "class"
    <2>1. t.of \in Range(cpl[c])
      BY <1>5, InstanceIs
    <2>2. \E k \in DOMAIN cpl[c] : cpl[c][k] = t.of
      BY <2>1 DEF Range
    <2>3. Rank(t, o) = CHOOSE k \in DOMAIN cpl[c] : cpl[c][k] = t.of
      BY <1>5 DEF Rank
    <2>4. Rank(t, o) \in DOMAIN cpl[c] /\ cpl[c][Rank(t, o)] = t.of
      BY <2>2, <2>3
    <2>5. Rank(t, o) \in 1..Len(cpl[c]) /\ Rank(t, o) \in Nat
      BY <1>3, <2>4
    <2> QED BY <1>5, <2>1, <2>4, <2>5
  <1> QED BY <1>4, <1>5, TypesAre

LEMMA ComparePositionIs ==
  ASSUME Laid, NEW o \in Objects, ClassOf[o] \in DOMAIN newSlots,
         NEW t1 \in SimpleTypes, There(t1), Instance(o, t1),
         NEW t2 \in SimpleTypes, There(t2), Instance(o, t2)
  PROVE  /\ Rank(t1, o) = Rank(t2, o) <=> t1 = t2
         /\ ComparePosition(t1, t2, o) =
              IF Rank(t1, o) = Rank(t2, o) THEN "same"
              ELSE IF Rank(t1, o) < Rank(t2, o) THEN "more" ELSE "less"
  <1> DEFINE c == ClassOf[o]
             list == cpl[c]
             r1 == Rank(t1, o)
             r2 == Rank(t2, o)
  <1>1. c \in DOMAIN cpl /\ CplsRight(superclasses, cpl)
    BY DEF Laid
  <1>2. /\ list \in Seq(Range(list)) /\ IsInjective(list)
        /\ \A d \in DOMAIN cpl : d \in Range(list) =>
              \A e \in Range(cpl[d]) : e # d => Before(list, d, e)
    BY <1>1, ListsAre
  <1>3. DOMAIN list = 1..Len(list) /\ Len(list) \in Nat
    BY <1>2
  <1>4. r1 \in Nat /\ r2 \in Nat
    BY RankIs
  <1>5. Subtype(t1, t2) /\ Subtype(t2, t1) <=> t1 = t2
    BY SubtypesBothWays
  <1> HIDE DEF r1, r2
  <1>6. CASE t1.kind = "singleton" /\ t2.kind = "singleton"
    <2>1. t1 = t2
      BY <1>6, RankIs, TypesAre
    <2>2. r1 = r2
      BY <2>1 DEF r1, r2
    <2>3. ComparePosition(t1, t2, o) = "same"
      BY <1>5, <2>1 DEF ComparePosition
    <2> QED BY <2>1, <2>2, <2>3 DEF r1, r2
  <1>7. CASE t1.kind = "singleton" /\ t2.kind = "class"
    <2>1. t1.of = o /\ r1 = 0 /\ r2 \in 1..Len(list)
      BY <1>7, RankIs DEF r1, r2
    <2>2. Subtype(t1, t2) /\ ~ Subtype(t2, t1)
      BY <1>7, <2>1 DEF Subtype
    <2>3. ComparePosition(t1, t2, o) = "more"
      BY <2>2 DEF ComparePosition
    <2>4. r1 < r2 /\ r1 # r2
      BY <1>3, <2>1
    <2> QED BY <1>5, <2>2, <2>3, <2>4 DEF r1, r2
  <1>8. CASE t1.kind = "class" /\ t2.kind = "singleton"
    <2>1. t2.of = o /\ r2 = 0 /\ r1 \in 1..Len(list)
      BY <1>8, RankIs DEF r1, r2
    <2>2. Subtype(t2, t1) /\ ~ Subtype(t1, t2)
      BY <1>8, <2>1 DEF Subtype
    <2>3. ComparePosition(t1, t2, o) = "less"
      BY <2>2 DEF ComparePosition
    <2>4. ~ r1 < r2 /\ r1 # r2
      BY <1>3, <2>1
    <2> QED BY <1>5, <2>2, <2>3, <2>4 DEF r1, r2
  <1>9. CASE t1.kind = "class" /\ t2.kind = "class"
    <2>1. /\ r1 \in 1..Len(list) /\ list[r1] = t1.of /\ t1.of \in Range(list)
          /\ r2 \in 1..Len(list) /\ list[r2] = t2.of /\ t2.of \in Range(list)
      BY <1>9, RankIs DEF r1, r2
    <2>2. /\ t1 = Class(t1.of) /\ t2 = Class(t2.of)
          /\ t1.of \in DOMAIN cpl /\ t2.of \in DOMAIN cpl
      BY <1>9, TypesAre DEF There
    <2>3. r1 = r2 <=> t1 = t2
      BY <1>2, <1>3, <2>1, <2>2 DEF IsInjective
    <2>4. /\ Subtype(t1, t2) <=> t2.of \in Range(cpl[t1.of])
          /\ Subtype(t2, t1) <=> t1.of \in Range(cpl[t2.of])
      BY <1>9 DEF Subtype
    <2>5. ASSUME t1 # t2, Subtype(t1, t2) PROVE r1 < r2
      <3>1. Before(list, t1.of, t2.of)
        BY <1>2, <2>1, <2>2, <2>4, <2>5
      <3> QED BY <1>2, <1>3, <2>1, <3>1 DEF Before, IsInjective
    <2>6. ASSUME t1 # t2, Subtype(t2, t1) PROVE r2 < r1
      <3>1. Before(list, t2.of, t1.of)
        BY <1>2, <2>1, <2>2, <2>4, <2>6
      <3> QED BY <1>2, <1>3, <2>1, <3>1 DEF Before, IsInjective
    <2>7. CASE t1 = t2
      <3>1. ComparePosition(t1, t2, o) = "same"
        BY <1>5, <2>7 DEF ComparePosition
      <3> QED BY <2>3, <2>7, <3>1 DEF r1, r2
    <2>8. CASE t1 # t2 /\ Subtype(t1, t2)
      <3>1. ComparePosition(t1, t2, o) = "more"
        BY <1>5, <2>8 DEF ComparePosition
      <3> QED BY <2>3, <2>5, <2>8, <3>1 DEF r1, r2
    <2>9. CASE t1 # t2 /\ Subtype(t2, t1)
      <3>1. ComparePosition(t1, t2, o) = "less"
        BY <1>5, <2>9 DEF ComparePosition
      <3>2. ~ r1 < r2
        BY <1>4, <2>6, <2>9
      <3> QED BY <2>3, <2>9, <3>1, <3>2 DEF r1, r2
    <2>10. CASE t1 # t2 /\ ~ Subtype(t1, t2) /\ ~ Subtype(t2, t1)
      <3> DEFINE I == {k \in 1..Len(list) : list[k] \in {t1.of, t2.of}}
                 first == SelectInSeq(list, LAMBDA k : k \in {t1.of, t2.of})
      <3>1. ComparePosition(t1, t2, o) = IF list[first] = t1.of THEN "more" ELSE "less"
        BY <1>9, <2>10 DEF ComparePosition
      <3>2. I = {r1, r2}
        BY <1>2, <1>3, <2>1 DEF IsInjective
      <3>3. first = Min(I)
        BY <3>2 DEF SelectInSeq
      <3>4. r1 < r2 \/ r2 < r1
        BY <1>4, <2>3, <2>10
      <3> HIDE DEF first
      <3>5. Min(I) = IF r1 < r2 THEN r1 ELSE r2
        BY <1>4, <3>2, <3>4 DEF Min
      <3>6. list[first] = t1.of <=> r1 < r2
        BY <1>4, <2>1, <2>2, <2>10, <3>3, <3>4, <3>5
      <3>7. r1 # r2
        BY <1>4, <3>4
      <3> QED BY <2>10, <3>1, <3>6, <3>7 DEF r1, r2
    <2> QED BY <2>7, <2>8, <2>9, <2>10
  <1> QED BY <1>6, <1>7, <1>8, <1>9, TypesAre

(* m1 is nowhere behind m2. *)
Ahead(m1, m2, args) ==
  \A i \in DOMAIN args : Rank(Specializers[m1][i], args[i]) <= Rank(Specializers[m2][i], args[i])

LEMMA CompareIs ==
  ASSUME Laid, NEW args \in ArgLists, CanCall(args),
         NEW m1 \in Methods, Initialized(m1), Takes(m1, args),
         NEW m2 \in Methods, Initialized(m2), Takes(m2, args)
  PROVE  /\ Specializers[m1] = Specializers[m2] <=>
              Ahead(m1, m2, args) /\ Ahead(m2, m1, args)
         /\ Compare(m1, m2, args) =
              IF Ahead(m1, m2, args)
                THEN IF Ahead(m2, m1, args) THEN "identical" ELSE "more"
                ELSE IF Ahead(m2, m1, args) THEN "less" ELSE "ambiguous"
  <1> DEFINE n == Len(args)
             r1(i) == Rank(Specializers[m1][i], args[i])
             r2(i) == Rank(Specializers[m2][i], args[i])
             Pos(i) == ComparePosition(Specializers[m1][i], Specializers[m2][i], args[i])
             each == {Pos(i) : i \in DOMAIN args} \ {"same"}
  <1>1. /\ args \in Seq(Objects) /\ n \in Nat /\ DOMAIN args = 1..n
        /\ DOMAIN Specializers[m1] = 1..n /\ DOMAIN Specializers[m2] = 1..n
        /\ Specializers[m1] \in Seq(SimpleTypes) /\ Specializers[m2] \in Seq(SimpleTypes)
    BY MethodTypes, DispatchAssumption
  <1>2. ASSUME NEW i \in 1..n
        PROVE  /\ r1(i) \in Nat /\ r2(i) \in Nat
               /\ r1(i) = r2(i) <=> Specializers[m1][i] = Specializers[m2][i]
               /\ Pos(i) = IF r1(i) = r2(i) THEN "same" ELSE IF r1(i) < r2(i) THEN "more" ELSE "less"
    <2>1. /\ args[i] \in Objects /\ ClassOf[args[i]] \in DOMAIN newSlots
          /\ Specializers[m1][i] \in SimpleTypes /\ There(Specializers[m1][i])
          /\ Specializers[m2][i] \in SimpleTypes /\ There(Specializers[m2][i])
          /\ Instance(args[i], Specializers[m1][i]) /\ Instance(args[i], Specializers[m2][i])
      BY <1>1, MethodTypes DEF CanCall, Takes
    <2> QED BY <2>1, RankIs, ComparePositionIs
  <1> HIDE DEF r1, r2, Pos
  <1>3. Specializers[m1] = Specializers[m2] <=> \A i \in 1..n : r1(i) = r2(i)
    <2>1. Specializers[m1] = Specializers[m2] <=>
            \A i \in 1..n : Specializers[m1][i] = Specializers[m2][i]
      BY <1>1
    <2> QED BY <1>2, <2>1
  <1>4. /\ Ahead(m1, m2, args) <=> \A i \in 1..n : r1(i) <= r2(i)
        /\ Ahead(m2, m1, args) <=> \A i \in 1..n : r2(i) <= r1(i)
    BY <1>1 DEF Ahead, r1, r2
  <1>5. Specializers[m1] = Specializers[m2] <=> Ahead(m1, m2, args) /\ Ahead(m2, m1, args)
    <2>1. \A i \in 1..n : r1(i) = r2(i) <=> r1(i) <= r2(i) /\ r2(i) <= r1(i)
      BY <1>2
    <2> QED BY <1>3, <1>4, <2>1
  <1>6. Compare(m1, m2, args) =
          IF Cardinality(each) = 1 THEN CHOOSE r \in each : TRUE
          ELSE IF each = {} THEN "identical" ELSE "ambiguous"
    BY DEF Compare, Pos
  <1>7. each \subseteq {"more", "less"}
    BY <1>1, <1>2
  <1>8. "more" \in each <=> ~ Ahead(m2, m1, args)
    <2>1. "more" \in each <=> \E i \in 1..n : r1(i) < r2(i)
      <3>1. "more" \in each <=> \E i \in 1..n : Pos(i) = "more"
        BY <1>1
      <3>2. \A i \in 1..n : Pos(i) = "more" <=> r1(i) < r2(i)
        BY <1>2
      <3> QED BY <3>1, <3>2
    <2>2. ~ Ahead(m2, m1, args) <=> \E i \in 1..n : ~ r2(i) <= r1(i)
      BY <1>4
    <2> QED BY <1>2, <2>1, <2>2
  <1>9. "less" \in each <=> ~ Ahead(m1, m2, args)
    <2>1. "less" \in each <=> \E i \in 1..n : r2(i) < r1(i)
      <3>1. "less" \in each <=> \E i \in 1..n : Pos(i) = "less"
        BY <1>1
      <3>2. \A i \in 1..n : Pos(i) = "less" <=> r2(i) < r1(i)
        BY <1>2
      <3> QED BY <3>1, <3>2
    <2>2. ~ Ahead(m1, m2, args) <=> \E i \in 1..n : ~ r1(i) <= r2(i)
      BY <1>4
    <2> QED BY <1>2, <2>1, <2>2
  <1> HIDE DEF each
  <1>10. CASE Ahead(m1, m2, args) /\ Ahead(m2, m1, args)
    <2>1. each = {}
      BY <1>7, <1>8, <1>9, <1>10
    <2>2. Cardinality(each) = 0
      BY <2>1, FS_EmptySet
    <2>3. Compare(m1, m2, args) = "identical"
      BY <1>6, <2>1, <2>2
    <2> QED BY <1>5, <1>10, <2>3
  <1>11. CASE Ahead(m1, m2, args) /\ ~ Ahead(m2, m1, args)
    <2>1. each = {"more"}
      BY <1>7, <1>8, <1>9, <1>11
    <2>2. Cardinality(each) = 1
      BY <2>1, FS_Singleton
    <2>3. Compare(m1, m2, args) = "more"
      BY <1>6, <2>1, <2>2
    <2> QED BY <1>5, <1>11, <2>3
  <1>12. CASE ~ Ahead(m1, m2, args) /\ Ahead(m2, m1, args)
    <2>1. each = {"less"}
      BY <1>7, <1>8, <1>9, <1>12
    <2>2. Cardinality(each) = 1
      BY <2>1, FS_Singleton
    <2>3. Compare(m1, m2, args) = "less"
      BY <1>6, <2>1, <2>2
    <2> QED BY <1>5, <1>12, <2>3
  <1>13. CASE ~ Ahead(m1, m2, args) /\ ~ Ahead(m2, m1, args)
    <2>1. each = {"more", "less"}
      BY <1>7, <1>8, <1>9, <1>13
    <2>2. Cardinality({"more"}) = 1 /\ IsFiniteSet({"more"})
      BY FS_Singleton
    <2>3. "less" \notin {"more"} /\ each = {"more"} \cup {"less"}
      BY <2>1
    <2>4. Cardinality(each) = 2
      BY <2>2, <2>3, FS_AddElement
    <2>5. Compare(m1, m2, args) = "ambiguous"
      BY <1>6, <2>1, <2>4
    <2> QED BY <1>5, <1>13, <2>5
  <1> QED BY <1>10, <1>11, <1>12, <1>13

(***************************************************************************)
(* What the sort relies on: a table of comparisons of some methods is that *)
(* of a partial order, in which no two of them are the same.               *)
(***************************************************************************)
Orders(R, T) ==
  /\ \A a, b \in T : a # b => R[<<a, b>>] \in {"more", "less", "ambiguous"}
  /\ \A a, b \in T : R[<<a, b>>] = "more" <=> R[<<b, a>>] = "less"
  /\ \A a, b \in T : R[<<a, b>>] = "ambiguous" <=> R[<<b, a>>] = "ambiguous"
  /\ \A a, b, c \in T : R[<<a, b>>] = "more" /\ R[<<b, c>>] = "more" => R[<<a, c>>] = "more"

Comparisons(T, args) == [p \in T \X T |-> Compare(p[1], p[2], args)]

LEMMA ComparisonsOrder ==
  ASSUME Laid, NEW args \in ArgLists, CanCall(args), NEW T \in SUBSET Methods,
         \A m \in T : Initialized(m) /\ Takes(m, args),
         \A a, b \in T : Specializers[a] = Specializers[b] => a = b
  PROVE  Orders(Comparisons(T, args), T)
  <1> DEFINE R == Comparisons(T, args)
             Up(a, b) == Ahead(a, b, args)
  <1>1. \A a, b \in T : R[<<a, b>>] = Compare(a, b, args)
    BY DEF Comparisons
  <1>2. \A a, b \in T :
          R[<<a, b>>] = IF Up(a, b) THEN IF Up(b, a) THEN "identical" ELSE "more"
                        ELSE IF Up(b, a) THEN "less" ELSE "ambiguous"
    <2> SUFFICES ASSUME NEW a \in T, NEW b \in T
                 PROVE  R[<<a, b>>] = IF Up(a, b) THEN IF Up(b, a) THEN "identical" ELSE "more"
                                      ELSE IF Up(b, a) THEN "less" ELSE "ambiguous"
      OBVIOUS
    <2>1. R[<<a, b>>] = Compare(a, b, args)
      BY <1>1
    <2> QED BY <2>1, CompareIs
  <1>3. \A a, b \in T : Up(a, b) /\ Up(b, a) => a = b
    BY CompareIs
  <1>4. ASSUME NEW a \in T, NEW b \in T, NEW c \in T, Up(a, b), Up(b, c) PROVE Up(a, c)
    <2>1. ASSUME NEW m \in T, NEW i \in DOMAIN args PROVE Rank(Specializers[m][i], args[i]) \in Nat
      <3>1. /\ args[i] \in Objects /\ ClassOf[args[i]] \in DOMAIN newSlots
            /\ Specializers[m][i] \in SimpleTypes /\ Instance(args[i], Specializers[m][i])
        BY MethodTypes DEF CanCall, Takes
      <3> QED BY <3>1, RankIs
    <2>2. ASSUME NEW i \in DOMAIN args
          PROVE  Rank(Specializers[a][i], args[i]) <= Rank(Specializers[c][i], args[i])
      BY <1>4, <2>1 DEF Ahead
    <2> QED BY <2>2 DEF Ahead
  <1> HIDE DEF R, Up
  <1>5. Orders(R, T)
    <2>1. \A a, b, c \in T : R[<<a, b>>] = "more" /\ R[<<b, c>>] = "more" => R[<<a, c>>] = "more"
      <3> SUFFICES ASSUME NEW a \in T, NEW b \in T, NEW c \in T,
                          R[<<a, b>>] = "more", R[<<b, c>>] = "more"
                   PROVE  R[<<a, c>>] = "more"
        OBVIOUS
      <3>1. Up(a, b) /\ ~ Up(b, a) /\ Up(b, c) /\ ~ Up(c, b)
        BY <1>2
      <3>2. Up(a, c)
        BY <1>4, <3>1
      <3>3. ~ Up(c, a)
        BY <1>4, <3>1
      <3> QED BY <1>2, <3>2, <3>3
    <2>2. \A a, b \in T : a # b => R[<<a, b>>] \in {"more", "less", "ambiguous"}
      BY <1>2, <1>3
    <2>3. \A a, b \in T : /\ R[<<a, b>>] = "more" <=> R[<<b, a>>] = "less"
                          /\ R[<<a, b>>] = "ambiguous" <=> R[<<b, a>>] = "ambiguous"
      BY <1>2
    <2> QED BY <2>1, <2>2, <2>3 DEF Orders
  <1> QED BY <1>5 DEF R

-----------------------------------------------------------------------------
(* Methods that take the arguments a type was made for, and others that it *)
(* fits, compare for these as for those.                                   *)
LEMMA ComparesTheSame ==
  ASSUME Laid, NEW a \in ArgLists, CanCall(a), NEW b \in ArgLists, CanCall(b),
         NEW types, MadeOf(types, a), \A i \in DOMAIN b : Fits(types[i], b[i]),
         NEW m1 \in Methods, Initialized(m1), Takes(m1, a), Takes(m1, b),
         NEW m2 \in Methods, Initialized(m2), Takes(m2, a), Takes(m2, b)
  PROVE  Compare(m1, m2, a) = Compare(m1, m2, b)
  <1> DEFINE t1(i) == Specializers[m1][i]
             t2(i) == Specializers[m2][i]
  <1>1. DOMAIN a = DOMAIN b
    BY MethodTypes
  <1>2. ASSUME NEW i \in DOMAIN a
        PROVE  ComparePosition(t1(i), t2(i), a[i]) = ComparePosition(t1(i), t2(i), b[i])
    <2> DEFINE A == ClassOf[a[i]]
               B == ClassOf[b[i]]
               t == types[i]
    <2>1. /\ a[i] \in Objects /\ A \in DOMAIN newSlots /\ MadeOfOne(t, a[i])
          /\ b[i] \in Objects /\ B \in DOMAIN newSlots /\ Fits(t, b[i])
          /\ t1(i) \in SimpleTypes /\ There(t1(i)) /\ t2(i) \in SimpleTypes /\ There(t2(i))
          /\ Instance(b[i], t1(i)) /\ Instance(b[i], t2(i))
      BY <1>1, MethodTypes DEF CanCall, MadeOf, Takes
    <2>2. CASE t.kind = "singleton"
      <3>1. a[i] = b[i]
        BY <2>1, <2>2, InstanceIs DEF Fits, MadeOfOne
      <3> QED BY <3>1
    <2>3. CASE t.kind # "singleton"
      <3>1. A = B \/ Plain(B)
        BY <2>1, <2>3 DEF Fits, MadeOfOne
      <3>2. CASE A = B
        BY <3>2 DEF ComparePosition
      <3>3. CASE Plain(B) /\ t1(i).kind = "class" /\ t2(i).kind = "class"
        <4>1. /\ t1(i).of \in Range(cpl[B]) /\ t2(i).of \in Range(cpl[B])
              /\ t1(i).of \in DOMAIN cpl /\ t2(i).of \in DOMAIN cpl
          BY <2>1, <3>3, InstanceIs DEF There
        <4>2. B \in DOMAIN cpl /\ CplsRight(superclasses, cpl)
          BY <2>1 DEF Laid
        <4>3. t1(i).of \in Range(cpl[t2(i).of]) \/ t2(i).of \in Range(cpl[t1(i).of])
          BY <3>3, <4>1, <4>2, ListsAre
        <4>4. Subtype(t1(i), t2(i)) \/ Subtype(t2(i), t1(i))
          BY <3>3, <4>3 DEF Subtype
        <4> HIDE DEF t1, t2
        <4> QED BY <4>4 DEF ComparePosition
      <3>4. CASE t1(i).kind # "class" \/ t2(i).kind # "class"
        BY <3>4 DEF ComparePosition
      <3> QED BY <3>1, <3>2, <3>3, <3>4
    <2> QED BY <2>2, <2>3
  <1>3. {ComparePosition(t1(i), t2(i), a[i]) : i \in DOMAIN a}
          = {ComparePosition(t1(i), t2(i), b[i]) : i \in DOMAIN b}
    BY <1>1, <1>2
  <1> DEFINE E(x) == {ComparePosition(t1(i), t2(i), x[i]) : i \in DOMAIN x} \ {"same"}
  <1>4. \A x : Compare(m1, m2, x) =
               IF Cardinality(E(x)) = 1 THEN CHOOSE r \in E(x) : TRUE
               ELSE IF E(x) = {} THEN "identical" ELSE "ambiguous"
    BY DEF Compare
  <1>5. E(a) = E(b)
    BY <1>3
  <1> HIDE DEF E
  <1> QED BY <1>4, <1>5

-----------------------------------------------------------------------------
(***************************************************************************)
(* The sort, for any table of comparisons.                                 *)
(***************************************************************************)
Sorts(T) == [ordered : Seq(T), ambiguous : SUBSET T]

(* The first that does not come before the new one, if there is one. *)
IsPlace(place, ordered, m, R) ==
  \/ /\ place = 0
     /\ \A i \in 1..Len(ordered) : R[<<m, ordered[i]>>] = "less"
  \/ /\ place \in 1..Len(ordered)
     /\ R[<<m, ordered[place]>>] # "less"
     /\ \A i \in 1..(place - 1) : R[<<m, ordered[i]>>] = "less"

(* The cases of Sort. *)
SortStep(place, s, m, R, q) ==
  LET unclear == {o \in s.ambiguous : R[<<m, o>>] = "ambiguous"}
      below == \E o \in s.ambiguous : R[<<m, o>>] = "less"
  IN \/ /\ place # 0 /\ R[<<m, s.ordered[place]>>] = "more"
        /\ q = [ordered |-> InsertAt(s.ordered, place, m), ambiguous |-> s.ambiguous]
     \/ /\ place # 0 /\ R[<<m, s.ordered[place]>>] = "ambiguous"
        /\ q = [ordered |-> SubSeq(s.ordered, 1, place - 1),
                ambiguous |-> {m, s.ordered[place]}]
     \/ /\ place = 0 /\ unclear # {}
        /\ q = [ordered |-> s.ordered, ambiguous |-> unclear]
     \/ /\ place = 0 /\ unclear = {} /\ ~ below
        /\ q = [ordered |-> Append(s.ordered, m), ambiguous |-> s.ambiguous]
     \/ /\ place = 0 /\ unclear = {} /\ below
        /\ q = s

Sorting(s, m, R) == Sort(s, m, [o \in Found(s) |-> R[<<m, o>>]])

LEMMA SortingIs ==
  ASSUME NEW T, NEW R, Orders(R, T), NEW P \in SUBSET T, NEW s \in Sorts(P), NEW m \in T, m \notin P
  PROVE  \E place \in Nat : /\ IsPlace(place, s.ordered, m, R)
                            /\ SortStep(place, s, m, R, Sorting(s, m, R))
  <1> DEFINE is == [o \in Found(s) |-> R[<<m, o>>]]
             O == s.ordered
             A == s.ambiguous
             I == {i \in 1..Len(O) : is[O[i]] # "less"}
             place == SelectInSeq(O, LAMBDA o : is[o] # "less")
             unclear == {o \in A : is[o] = "ambiguous"}
             below == \E o \in A : is[o] = "less"
             q == Sort(s, m, is)
  <1>1. /\ O \in Seq(P) /\ A \in SUBSET P /\ s = [ordered |-> O, ambiguous |-> A]
        /\ DOMAIN O = 1..Len(O) /\ Len(O) \in Nat
    BY DEF Sorts
  <1>2. /\ \A i \in 1..Len(O) : O[i] \in P /\ is[O[i]] = R[<<m, O[i]>>]
        /\ \A o \in A : is[o] = R[<<m, o>>]
    <2>1. \A i \in 1..Len(O) : O[i] \in Found(s) /\ O[i] \in P
      BY <1>1 DEF Found, Range
    <2>2. \A o \in A : o \in Found(s)
      BY DEF Found
    <2> QED BY <2>1, <2>2
  <1>3. place = IF I # {} THEN Min(I) ELSE 0
    BY DEF SelectInSeq
  <1>4. /\ unclear = {o \in A : R[<<m, o>>] = "ambiguous"}
        /\ below <=> \E o \in A : R[<<m, o>>] = "less"
    BY <1>2
  <1>5. q = CASE place # 0 /\ is[O[place]] = "more" ->
                   [s EXCEPT !.ordered = InsertAt(@, place, m)]
              [] place # 0 /\ is[O[place]] = "ambiguous" ->
                   [ordered |-> SubSeq(O, 1, place - 1), ambiguous |-> {m, O[place]}]
              [] place = 0 /\ unclear # {} -> [s EXCEPT !.ambiguous = unclear]
              [] place = 0 /\ unclear = {} /\ ~ below -> [s EXCEPT !.ordered = Append(@, m)]
              [] OTHER -> s
    BY DEF Sort
  <1>6. /\ [s EXCEPT !.ordered = InsertAt(@, place, m)] = [ordered |-> InsertAt(O, place, m), ambiguous |-> A]
        /\ [s EXCEPT !.ambiguous = unclear] = [ordered |-> O, ambiguous |-> unclear]
        /\ [s EXCEPT !.ordered = Append(@, m)] = [ordered |-> Append(O, m), ambiguous |-> A]
    <2> HIDE DEF unclear, place
    <2> QED BY <1>1
  <1>7. \A i \in 1..Len(O) : is[O[i]] \in {"more", "less", "ambiguous"}
    BY <1>2 DEF Orders
  <1>10. q = Sorting(s, m, R)
    BY DEF Sorting
  <1> HIDE DEF place, unclear, below, q, is
  <1>8. CASE I = {}
    <2>1. place = 0
      BY <1>3, <1>8
    <2>2. IsPlace(0, O, m, R)
      BY <1>2, <1>8 DEF IsPlace
    <2>3. q = IF unclear # {} THEN [ordered |-> O, ambiguous |-> unclear]
              ELSE IF ~ below THEN [ordered |-> Append(O, m), ambiguous |-> A] ELSE s
      BY <1>5, <1>6, <2>1
    <2>4. SortStep(0, s, m, R, q)
      BY <1>4, <2>3 DEF SortStep
    <2> QED BY <1>10, <2>2, <2>4
  <1>9. CASE I # {}
    <2>1. PICK k \in I : \A j \in I : k <= j
      <3>1. I \in SUBSET Nat
        OBVIOUS
      <3> QED BY <1>9, <3>1, LeastNat
    <2>2. place \in I /\ \A j \in I : place <= j
      <3> HIDE DEF I
      <3> QED BY <1>3, <1>9, <2>1 DEF Min
    <2>3. place \in 1..Len(O) /\ place # 0 /\ is[O[place]] # "less"
      BY <2>2
    <2>4. \A i \in 1..(place - 1) : i \in 1..Len(O) /\ i \notin I
      BY <1>1, <2>2, <2>3
    <2>5. IsPlace(place, O, m, R)
      BY <1>2, <2>3, <2>4 DEF IsPlace
    <2>6. is[O[place]] = R[<<m, O[place]>>] /\ is[O[place]] \in {"more", "ambiguous"}
      BY <1>2, <1>7, <2>3
    <2>7. q = IF is[O[place]] = "more" THEN [ordered |-> InsertAt(O, place, m), ambiguous |-> A]
              ELSE [ordered |-> SubSeq(O, 1, place - 1), ambiguous |-> {m, O[place]}]
      BY <1>5, <1>6, <2>3, <2>6
    <2>8. SortStep(place, s, m, R, q)
      BY <2>3, <2>6, <2>7 DEF SortStep
    <2>9. place \in Nat
      BY <2>3
    <2> QED BY <1>10, <2>5, <2>8, <2>9
  <1> QED BY <1>8, <1>9

LEMMA JoinIs ==
  ASSUME NEW S, NEW x \in Seq(S), NEW y \in Seq(S)
  PROVE  /\ x \o y \in Seq(S) /\ Len(x \o y) = Len(x) + Len(y)
         /\ \A i \in 1..(Len(x) + Len(y)) : (x \o y)[i] = IF i <= Len(x) THEN x[i] ELSE y[i - Len(x)]
  OBVIOUS

LEMMA InsertIs ==
  ASSUME NEW S, NEW q \in Seq(S), NEW k \in 1..Len(q), NEW m \in S
  PROVE  LET r == InsertAt(q, k, m)
         IN /\ r \in Seq(S) /\ Len(r) = Len(q) + 1
            /\ \A i \in 1..(Len(q) + 1) :
                 r[i] = IF i < k THEN q[i] ELSE IF i = k THEN m ELSE q[i - 1]
            /\ Range(r) = Range(q) \cup {m}
  <1> DEFINE a == SubSeq(q, 1, k - 1)
             b == SubSeq(q, k, Len(q))
             u == <<m>>
             r == InsertAt(q, k, m)
  <1>1. /\ a \in Seq(S) /\ Len(a) = k - 1 /\ \A i \in 1..(k - 1) : a[i] = q[i]
        /\ b \in Seq(S) /\ Len(b) = Len(q) - k + 1 /\ \A i \in 1..(Len(q) - k + 1) : b[i] = q[k + i - 1]
        /\ u \in Seq(S) /\ Len(u) = 1 /\ u[1] = m
    OBVIOUS
  <1>2. r = (a \o u) \o b
    BY DEF InsertAt
  <1> HIDE DEF a, b, u
  <1> DEFINE c == a \o u
  <1>7. /\ c \in Seq(S) /\ Len(c) = k
        /\ \A i \in 1..k : c[i] = IF i <= Len(a) THEN a[i] ELSE u[i - Len(a)]
    <2>1. Len(a) + Len(u) = k
      BY <1>1
    <2>2. /\ c \in Seq(S) /\ Len(c) = Len(a) + Len(u)
          /\ \A i \in 1..(Len(a) + Len(u)) : c[i] = IF i <= Len(a) THEN a[i] ELSE u[i - Len(a)]
      BY <1>1, JoinIs
    <2> HIDE DEF c
    <2> QED BY <2>1, <2>2
  <1> HIDE DEF c
  <1>3. \A i \in 1..k : c[i] = IF i < k THEN q[i] ELSE m
    <2> SUFFICES ASSUME NEW i \in 1..k PROVE c[i] = IF i < k THEN q[i] ELSE m
      OBVIOUS
    <2>1. CASE i < k
      <3>1. i \in 1..(k - 1) /\ i <= Len(a)
        BY <1>1, <2>1
      <3> QED BY <1>1, <1>7, <2>1, <3>1
    <2>2. CASE i = k
      <3>1. ~ i <= Len(a) /\ i - Len(a) = 1
        BY <1>1, <2>2
      <3> QED BY <1>1, <1>7, <2>2, <3>1
    <2> QED BY <2>1, <2>2
  <1>4. /\ r \in Seq(S) /\ Len(r) = Len(q) + 1
        /\ \A i \in 1..(Len(q) + 1) : r[i] = IF i <= Len(c) THEN c[i] ELSE b[i - Len(c)]
    <2>1. r = c \o b
      BY <1>2 DEF c
    <2>2. Len(c) + Len(b) = Len(q) + 1
      BY <1>1, <1>7
    <2> HIDE DEF r
    <2>3. /\ r \in Seq(S) /\ Len(r) = Len(c) + Len(b)
          /\ \A i \in 1..(Len(c) + Len(b)) : r[i] = IF i <= Len(c) THEN c[i] ELSE b[i - Len(c)]
      BY ZenonT(60), <1>1, <1>7, <2>1, JoinIs
    <2> QED BY <2>2, <2>3
  <1>5. ASSUME NEW i \in 1..(Len(q) + 1)
        PROVE  r[i] = IF i < k THEN q[i] ELSE IF i = k THEN m ELSE q[i - 1]
    <2>1. CASE i <= k
      <3>1. i \in 1..k
        BY <2>1
      <3>2. r[i] = c[i]
        BY <1>4, <1>7, <2>1
      <3> HIDE DEF r
      <3> QED BY <1>3, <2>1, <3>1, <3>2
    <2>2. CASE i > k
      <3>1. i - k \in 1..(Len(q) - k + 1) /\ k + (i - k) - 1 = i - 1
        BY <2>2
      <3>2. b[i - k] = q[k + (i - k) - 1]
        BY <1>1, <3>1
      <3>3. r[i] = b[i - k]
        BY <1>4, <1>7, <2>2
      <3> HIDE DEF r
      <3> QED BY <2>2, <3>1, <3>2, <3>3
    <2> QED BY <2>1, <2>2
  <1> HIDE DEF r
  <1>6. Range(r) = Range(q) \cup {m}
    <2>1. DOMAIN r = 1..(Len(q) + 1) /\ DOMAIN q = 1..Len(q) /\ Len(q) \in Nat
      BY <1>4
    <2>2. \A x \in Range(r) : x \in Range(q) \cup {m}
      <3> SUFFICES ASSUME NEW i \in 1..(Len(q) + 1) PROVE r[i] \in Range(q) \cup {m}
        BY <2>1 DEF Range
      <3>1. CASE i < k
        BY <1>5, <2>1, <3>1 DEF Range
      <3>2. CASE i = k
        BY <1>5, <3>2
      <3>3. CASE i > k
        <4>1. i - 1 \in 1..Len(q) /\ r[i] = q[i - 1]
          BY <1>5, <2>1, <3>3
        <4> QED BY <2>1, <4>1 DEF Range
      <3> QED BY <3>1, <3>2, <3>3
    <2>3. m \in Range(r)
      <3>1. k \in 1..(Len(q) + 1) /\ r[k] = m
        BY <1>5
      <3> QED BY <2>1, <3>1 DEF Range
    <2>4. \A i \in 1..Len(q) : q[i] \in Range(r)
      <3> SUFFICES ASSUME NEW i \in 1..Len(q) PROVE q[i] \in Range(r)
        OBVIOUS
      <3>1. CASE i < k
        <4>1. i \in 1..(Len(q) + 1) /\ r[i] = q[i]
          BY <1>5, <3>1
        <4> QED BY <2>1, <4>1 DEF Range
      <3>2. CASE i >= k
        <4>1. i + 1 \in 1..(Len(q) + 1) /\ r[i + 1] = q[i]
          BY <1>5, <3>2
        <4> QED BY <2>1, <4>1 DEF Range
      <3> QED BY <3>1, <3>2
    <2> QED BY <2>1, <2>2, <2>3, <2>4 DEF Range
  <1> QED BY <1>4, <1>5, <1>6 DEF r

-----------------------------------------------------------------------------
(* What holds of the methods in P after they were sorted. *)
WellSorted(s, P, R) ==
  /\ s \in Sorts(P)
  /\ P # {} => s # Nothing
  /\ \A i, j \in 1..Len(s.ordered) : i < j => R[<<s.ordered[i], s.ordered[j]>>] = "more"
  /\ \A m \in Range(s.ordered) : \A o \in s.ambiguous : R[<<m, o>>] = "more"

(* No method is ambiguous with two others. *)
Quiet(R, T) ==
  \A a, b, c \in T : R[<<a, b>>] = "ambiguous" /\ R[<<a, c>>] = "ambiguous" => b = c

Kept(s, P, R) ==
  /\ \/ s.ambiguous = {}
     \/ \E a, b \in P : a # b /\ R[<<a, b>>] = "ambiguous" /\ s.ambiguous = {a, b}
  /\ \A p \in P : \/ p \in Range(s.ordered) \cup s.ambiguous
                  \/ \E o \in s.ambiguous : R[<<o, p>>] = "more"

LEMMA SortingKeeps ==
  ASSUME NEW T, NEW R, Orders(R, T), NEW P \in SUBSET T, NEW s, WellSorted(s, P, R),
         NEW m \in T, m \notin P
  PROVE  /\ WellSorted(Sorting(s, m, R), P \cup {m}, R)
         /\ Quiet(R, T) /\ Kept(s, P, R) => Kept(Sorting(s, m, R), P \cup {m}, R)
  <1> DEFINE O == s.ordered
             A == s.ambiguous
             n == Len(O)
             q == Sorting(s, m, R)
             P2 == P \cup {m}
  <1>1. s \in Sorts(P) /\ O \in Seq(P) /\ A \in SUBSET P /\ n \in Nat /\ DOMAIN O = 1..n
    BY DEF WellSorted, Sorts
  <1>2. PICK place \in Nat : IsPlace(place, O, m, R) /\ SortStep(place, s, m, R, q)
    BY <1>1, SortingIs
  <1>3. /\ \A i \in 1..n : O[i] \in P /\ O[i] \in Range(O)
        /\ \A p \in Range(O) : \E i \in 1..n : O[i] = p
        /\ Range(O) \subseteq P
    BY <1>1 DEF Range
  <1>4. /\ \A i, j \in 1..n : i < j => R[<<O[i], O[j]>>] = "more"
        /\ \A p \in Range(O) : \A o \in A : R[<<p, o>>] = "more"
    BY DEF WellSorted
  <1>5. /\ \A p \in P : R[<<m, p>>] \in {"more", "less", "ambiguous"}
        /\ \A a, b \in P2 : R[<<a, b>>] = "less" => R[<<b, a>>] = "more"
        /\ \A a, b \in P2 : R[<<a, b>>] = "ambiguous" => R[<<b, a>>] = "ambiguous"
        /\ \A a, b, c \in P2 : R[<<a, b>>] = "more" /\ R[<<b, c>>] = "more" => R[<<a, c>>] = "more"
    BY DEF Orders
  <1>6. place # 0 => /\ place \in 1..n
                     /\ \A i \in 1..(place - 1) : R[<<O[i], m>>] = "more"
    <2> SUFFICES ASSUME place # 0 PROVE /\ place \in 1..n
                     /\ \A i \in 1..(place - 1) : R[<<O[i], m>>] = "more"
      OBVIOUS
    <2>1. place \in 1..n /\ \A i \in 1..(place - 1) : R[<<m, O[i]>>] = "less"
      BY <1>2 DEF IsPlace
    <2>2. \A i \in 1..(place - 1) : i \in 1..n
      BY <1>1, <2>1
    <2> QED BY <1>3, <1>5, <2>1, <2>2
  <1>7. place = 0 => \A i \in 1..n : R[<<O[i], m>>] = "more"
    <2> SUFFICES ASSUME place = 0, NEW i \in 1..n PROVE R[<<O[i], m>>] = "more"
      OBVIOUS
    <2>1. R[<<m, O[i]>>] = "less"
      BY <1>1, <1>2 DEF IsPlace
    <2> QED BY <1>3, <1>5, <2>1
  <1> DEFINE unclear == {o \in A : R[<<m, o>>] = "ambiguous"}
             below == \E o \in A : R[<<m, o>>] = "less"
  <1>8. /\ Quiet(R, T) /\ Kept(s, P, R) =>
             /\ A = {} \/ \E a, b \in P : a # b /\ R[<<a, b>>] = "ambiguous" /\ A = {a, b}
             /\ \A p \in P : \/ p \in Range(O) \cup A
                             \/ \E o \in A : R[<<o, p>>] = "more"
    BY DEF Kept
  <1>20. CASE place # 0 /\ R[<<m, O[place]>>] = "more"
                /\ q = [ordered |-> InsertAt(O, place, m), ambiguous |-> A]
    <2> DEFINE r == InsertAt(O, place, m)
    <2>1. place \in 1..n /\ O \in Seq(P2) /\ m \in P2
      BY <1>1, <1>6, <1>20
    <2>2. /\ r \in Seq(P2) /\ Len(r) = n + 1
          /\ \A i \in 1..(n + 1) : r[i] = IF i < place THEN O[i] ELSE IF i = place THEN m ELSE O[i - 1]
          /\ Range(r) = Range(O) \cup {m}
      <3> HIDE DEF O, P2
      <3> QED BY <2>1, InsertIs DEF n
    <2> HIDE DEF r
    <2>3. q.ordered = r /\ q.ambiguous = A /\ q \in Sorts(P2)
      BY <1>1, <1>20, <2>2 DEF r, Sorts
    <2>4. \A i \in place..n : R[<<m, O[i]>>] = "more"
      <3> SUFFICES ASSUME NEW i \in place..n PROVE R[<<m, O[i]>>] = "more"
        OBVIOUS
      <3>1. CASE i = place
        BY <1>20, <3>1
      <3>2. CASE i # place
        <4>2. i \in 1..n /\ place < i
          BY <1>1, <2>1, <3>2
        <4>1. R[<<O[place], O[i]>>] = "more" /\ O[place] \in P2 /\ O[i] \in P2
          <5> HIDE DEF O, n
          <5> QED BY <1>3, <1>4, <2>1, <4>2
        <4> QED BY <1>5, <1>20, <2>1, <4>1
      <3> QED BY <3>1, <3>2
    <2>5. ASSUME NEW i \in 1..(n + 1), NEW j \in 1..(n + 1), i < j PROVE R[<<r[i], r[j]>>] = "more"
      <3>1. CASE j < place
        <4>1. i \in 1..n /\ j \in 1..n /\ i < place
          BY <1>1, <2>1, <2>5, <3>1
        <4>2. R[<<O[i], O[j]>>] = "more"
          BY <1>4, <2>5, <4>1
        <4> QED BY <2>2, <3>1, <4>1, <4>2
      <3>2. CASE j = place
        <4>1. i \in 1..(place - 1)
          BY <2>1, <2>5, <3>2
        <4> QED BY <1>6, <2>1, <2>2, <3>2, <4>1
      <3>3. CASE j > place /\ i = place
        <4>1. j - 1 \in place..n
          BY <2>1, <3>3
        <4>2. r[i] = m /\ r[j] = O[j - 1]
          BY <2>1, <2>2, <3>3
        <4> QED BY <2>4, <4>1, <4>2
      <3>4. CASE j > place /\ i < place
        <4>1. i \in 1..n /\ j - 1 \in 1..n /\ i < j - 1
          BY <1>1, <2>1, <3>4
        <4>2. r[i] = O[i] /\ r[j] = O[j - 1]
          BY <2>1, <2>2, <3>4
        <4> QED BY <1>4, <4>1, <4>2
      <3>5. CASE j > place /\ i > place
        <4>1. i - 1 \in 1..n /\ j - 1 \in 1..n /\ i - 1 < j - 1
          BY <1>1, <2>1, <2>5, <3>5
        <4>2. r[i] = O[i - 1] /\ r[j] = O[j - 1]
          BY <2>1, <2>2, <3>5
        <4> QED BY <1>4, <4>1, <4>2
      <3> QED BY <2>1, <3>1, <3>2, <3>3, <3>4, <3>5
    <2>6. \A p \in Range(r) : \A o \in A : R[<<p, o>>] = "more"
      <3>1. O[place] \in Range(O) /\ O[place] \in P2
        BY <1>3, <2>1
      <3>2. \A o \in A : R[<<m, o>>] = "more"
        <4> SUFFICES ASSUME NEW o \in A PROVE R[<<m, o>>] = "more"
          OBVIOUS
        <4>1. R[<<O[place], o>>] = "more" /\ o \in P2
          BY <1>1, <1>4, <3>1
        <4> QED BY <1>5, <1>20, <2>1, <3>1, <4>1
      <3>3. \A p \in Range(r) : p \in Range(O) \/ p = m
        BY <2>2
      <3> HIDE DEF A, O
      <3> QED BY <1>4, <3>2, <3>3
    <2>7. q # Nothing
      <3>1. q.ordered # <<>>
        BY <1>1, <2>2, <2>3
      <3> QED BY <3>1 DEF Nothing
    <2>8. WellSorted(q, P2, R)
      BY <2>2, <2>3, <2>5, <2>6, <2>7 DEF WellSorted
    <2>9. Quiet(R, T) /\ Kept(s, P, R) => Kept(q, P2, R)
      <3> SUFFICES ASSUME Quiet(R, T), Kept(s, P, R) PROVE Kept(q, P2, R)
        OBVIOUS
      <3> QED BY ZenonT(60), <1>8, <2>2, <2>3 DEF Kept
    <2> QED BY <2>8, <2>9
  <1>21. CASE place # 0 /\ R[<<m, O[place]>>] = "ambiguous"
                /\ q = [ordered |-> SubSeq(O, 1, place - 1), ambiguous |-> {m, O[place]}]
    <2> DEFINE r == SubSeq(O, 1, place - 1)
               x == O[place]
    <2>1. place \in 1..n /\ x \in P /\ x \in Range(O)
      BY <1>3, <1>6, <1>21
    <2>2. r \in Seq(P) /\ Len(r) = place - 1 /\ \A i \in 1..(place - 1) : r[i] = O[i]
      BY <1>1, <2>1
    <2> HIDE DEF r
    <2>3. /\ Range(r) \subseteq Range(O) /\ \A i \in 1..(place - 1) : O[i] \in Range(r)
          /\ \A p \in Range(r) : \E i \in 1..(place - 1) : p = O[i]
      <3>1. \A i \in 1..(place - 1) : i \in 1..n
        BY <1>1, <2>1
      <3>2. /\ \A i \in 1..(place - 1) : r[i] \in Range(r)
            /\ \A p \in Range(r) : \E i \in 1..(place - 1) : p = r[i]
        <4>1. Len(r) = place - 1 /\ r \in Seq(P)
          BY <2>2
        <4> QED BY <4>1, InQueue
      <3> HIDE DEF O
      <3> QED BY <1>3, <2>2, <3>1, <3>2
    <2>4. q.ordered = r /\ q.ambiguous = {m, x}
      BY <1>21 DEF r
    <2>5. q \in Sorts(P2)
      <3>1. r \in Seq(P2)
        <4>1. r \in Seq(P) /\ P \subseteq P2
          BY <2>2
        <4> HIDE DEF P2
        <4> QED BY ONLY <4>1
      <3>2. {m, x} \in SUBSET P2
        BY <2>1
      <3>3. q = [ordered |-> r, ambiguous |-> {m, x}]
        BY <1>21 DEF r
      <3> HIDE DEF P2
      <3> QED BY <3>1, <3>2, <3>3 DEF Sorts
    <2>6. ASSUME NEW i \in 1..Len(r), NEW j \in 1..Len(r), i < j
          PROVE  R[<<r[i], r[j]>>] = "more"
      <3>1. i \in 1..n /\ j \in 1..n /\ i \in 1..(place - 1) /\ j \in 1..(place - 1)
        BY <1>1, <2>1, <2>2
      <3> HIDE DEF O, n
      <3> QED BY <1>4, <2>2, <2>6, <3>1
    <2>7. ASSUME NEW p \in Range(r), NEW o \in {m, x} PROVE R[<<p, o>>] = "more"
      <3>1. PICK i \in 1..(place - 1) : p = O[i]
        BY <2>3
      <3>2. i \in 1..n /\ i < place
        BY <1>1, <2>1
      <3> QED BY <1>4, <1>6, <1>21, <2>1, <3>1, <3>2
    <2>8. q # Nothing
      BY <2>4 DEF Nothing
    <2>9. WellSorted(q, P2, R)
      BY <2>4, <2>5, <2>6, <2>7, <2>8 DEF WellSorted
    <2>10. Quiet(R, T) /\ Kept(s, P, R) => Kept(q, P2, R)
      <3> SUFFICES ASSUME Quiet(R, T), Kept(s, P, R) PROVE Kept(q, P2, R)
        OBVIOUS
      <3>1. m # x /\ R[<<m, x>>] = "ambiguous" /\ m \in P2 /\ x \in P2
        BY <1>21, <2>1
      <3>2. ASSUME NEW p \in P2
            PROVE  \/ p \in Range(r) \cup {m, x}
                   \/ \E o \in {m, x} : R[<<o, p>>] = "more"
        <4>1. CASE p = m
          BY <4>1
        <4>2. CASE p \in Range(O)
          <5>1. PICK i \in 1..n : O[i] = p
            BY <1>3, <4>2
          <5>2. CASE i < place
            BY <2>1, <2>3, <5>1, <5>2
          <5>3. CASE i = place
            BY <5>1, <5>3
          <5>4. CASE i > place
            BY <1>4, <2>1, <5>1, <5>4
          <5> QED BY <2>1, <5>2, <5>3, <5>4
        <4>3. CASE p \in A
          BY <1>4, <2>1, <4>3
        <4>4. CASE \E o \in A : R[<<o, p>>] = "more"
          <5>1. PICK o \in A : R[<<o, p>>] = "more"
            BY <4>4
          <5>2. R[<<x, o>>] = "more" /\ o \in P2
            BY <1>1, <1>4, <2>1
          <5>3. R[<<x, p>>] = "more"
            BY <1>5, <3>1, <5>1, <5>2
          <5> QED BY <5>3
        <4> QED BY <1>8, <4>1, <4>2, <4>3, <4>4
      <3> HIDE DEF x
      <3> QED BY <2>4, <3>1, <3>2 DEF Kept
    <2> QED BY <2>9, <2>10
  <1>22. CASE place = 0 /\ unclear # {} /\ q = [ordered |-> O, ambiguous |-> unclear]
    <2>1. unclear \in SUBSET A
      OBVIOUS
    <2>2. q.ordered = O /\ q.ambiguous = unclear
      BY <1>22
    <2>3. q \in Sorts(P2)
      <3>1. O \in Seq(P2) /\ unclear \in SUBSET P2
        BY <1>1
      <3> QED BY <1>22, <3>1 DEF Sorts
    <2>4. q # Nothing
      <3>1. q.ambiguous # {}
        BY <1>22, <2>2
      <3> HIDE DEF q
      <3> QED BY <3>1 DEF Nothing
    <2>5. WellSorted(q, P2, R)
      BY <1>4, <2>1, <2>2, <2>3, <2>4 DEF WellSorted
    <2>6. ASSUME Quiet(R, T), Kept(s, P, R) PROVE FALSE
      <3>1. PICK o \in A : R[<<m, o>>] = "ambiguous"
        BY <1>22
      <3>2. PICK a \in P, b \in P : a # b /\ R[<<a, b>>] = "ambiguous" /\ A = {a, b}
        BY <1>8, <2>6, <3>1
      <3>3. R[<<b, a>>] = "ambiguous" /\ R[<<o, m>>] = "ambiguous"
        BY <1>1, <1>5, <3>1, <3>2
      <3>4. PICK c \in P : R[<<o, c>>] = "ambiguous"
        BY <3>1, <3>2, <3>3
      <3>5. c = m
        BY <1>1, <2>6, <3>3, <3>4 DEF Quiet
      <3> QED BY <3>4, <3>5
    <2> QED BY <2>5, <2>6
  <1>23. CASE place = 0 /\ unclear = {} /\ ~ below
                /\ q = [ordered |-> Append(O, m), ambiguous |-> A]
    <2> DEFINE r == Append(O, m)
    <2>1. /\ r \in Seq(P2) /\ Len(r) = n + 1 /\ r[n + 1] = m /\ \A i \in 1..n : r[i] = O[i]
          /\ DOMAIN r = 1..(n + 1)
      BY <1>1
    <2> HIDE DEF r
    <2>2. Range(r) = Range(O) \cup {m}
      <3>1. \A i \in 1..(n + 1) : i \in 1..n \/ i = n + 1
        BY <1>1
      <3>2. \A i \in 1..n : i \in 1..(n + 1)
        BY <1>1
      <3>3. n + 1 \in 1..(n + 1)
        BY <1>1
      <3> QED BY <1>1, <2>1, <3>1, <3>2, <3>3 DEF Range
    <2>3. q.ordered = r /\ q.ambiguous = A /\ q \in Sorts(P2)
      BY <1>1, <1>23, <2>1 DEF Sorts, r
    <2>4. \A o \in A : R[<<m, o>>] = "more"
      BY <1>1, <1>5, <1>23
    <2>5. ASSUME NEW i \in 1..(n + 1), NEW j \in 1..(n + 1), i < j PROVE R[<<r[i], r[j]>>] = "more"
      <3>1. CASE j = n + 1
        <4>1. i \in 1..n
          BY <1>1, <2>5, <3>1
        <4>2. R[<<O[i], m>>] = "more"
          BY <1>7, <1>23, <4>1
        <4> QED BY <2>1, <3>1, <4>1, <4>2
      <3>2. CASE j # n + 1
        <4>1. i \in 1..n /\ j \in 1..n
          BY <1>1, <2>5, <3>2
        <4>2. R[<<O[i], O[j]>>] = "more"
          BY <1>4, <2>5, <4>1
        <4> QED BY <2>1, <4>1, <4>2
      <3> QED BY <3>1, <3>2
    <2>6. q # Nothing
      <3>1. q.ordered # <<>>
        BY <1>1, <2>1, <2>3
      <3> QED BY <3>1 DEF Nothing
    <2>7. WellSorted(q, P2, R)
      BY <1>4, <2>1, <2>2, <2>3, <2>4, <2>5, <2>6 DEF WellSorted
    <2>8. Quiet(R, T) /\ Kept(s, P, R) => Kept(q, P2, R)
      <3> SUFFICES ASSUME Quiet(R, T), Kept(s, P, R) PROVE Kept(q, P2, R)
        OBVIOUS
      <3> QED BY <1>8, <2>2, <2>3 DEF Kept
    <2> QED BY <2>7, <2>8
  <1>24. CASE place = 0 /\ unclear = {} /\ below /\ q = s
    <2>1. PICK o \in A : R[<<m, o>>] = "less"
      BY <1>24
    <2>2. R[<<o, m>>] = "more"
      BY <1>1, <1>5, <2>1
    <2>3. s # Nothing
      BY <2>1 DEF Nothing
    <2>4. s \in Sorts(P2)
      <3>1. s = [ordered |-> O, ambiguous |-> A]
        BY <1>1 DEF Sorts
      <3>2. O \in Seq(P2) /\ A \in SUBSET P2
        BY <1>1
      <3> QED BY <3>1, <3>2 DEF Sorts
    <2>5. WellSorted(q, P2, R)
      BY <1>4, <1>24, <2>3, <2>4 DEF WellSorted
    <2>6. Quiet(R, T) /\ Kept(s, P, R) => Kept(q, P2, R)
      <3> SUFFICES ASSUME Quiet(R, T), Kept(s, P, R) PROVE Kept(q, P2, R)
        OBVIOUS
      <3> QED BY <1>8, <1>24, <2>1, <2>2 DEF Kept
    <2> QED BY <2>5, <2>6
  <1> HIDE DEF q
  <1> QED BY <1>2, <1>20, <1>21, <1>22, <1>23, <1>24 DEF SortStep, q

(***************************************************************************)
(* The methods of a list that are in T, sorted one after the other.        *)
(***************************************************************************)
Chosen(g, ms, T, R) ==
  /\ g[0] = Nothing
  /\ \A k \in 1..Len(ms) : g[k] = IF ms[k] \in T THEN Sorting(g[k - 1], ms[k], R) ELSE g[k - 1]

IsSelection(ms, T, R, result) == \E g : Chosen(g, ms, T, R) /\ result = g[Len(ms)]

LEMMA SelectionIsOne ==
  ASSUME NEW S, NEW ms \in Seq(S), NEW T, NEW R, NEW a, IsSelection(ms, T, R, a),
         NEW b, IsSelection(ms, T, R, b)
  PROVE  a = b
  <1>1. PICK g : Chosen(g, ms, T, R) /\ a = g[Len(ms)]
    BY DEF IsSelection
  <1>2. PICK h : Chosen(h, ms, T, R) /\ b = h[Len(ms)]
    BY DEF IsSelection
  <1> DEFINE D == {k \in Nat : k <= Len(ms) /\ g[k] # h[k]}
  <1>3. Len(ms) \in Nat
    OBVIOUS
  <1>4. ASSUME D # {} PROVE FALSE
    <2>1. PICK k \in D : \A j \in D : k <= j
      <3>1. D \in SUBSET Nat
        OBVIOUS
      <3> QED BY <1>4, <3>1, LeastNat
    <2>2. k # 0
      BY <1>1, <1>2, <2>1 DEF Chosen
    <2>3. k \in 1..Len(ms) /\ k - 1 \in Nat /\ k - 1 <= Len(ms)
      BY <1>3, <2>1, <2>2
    <2>4. g[k - 1] = h[k - 1]
      BY <2>1, <2>3
    <2>5. g[k] = h[k]
      BY <1>1, <1>2, <2>3, <2>4 DEF Chosen
    <2> QED BY <2>1, <2>5
  <1> QED BY <1>1, <1>2, <1>3, <1>4

LEMMA SelectionInOrder ==
  ASSUME NEW S, NEW ms \in Seq(S), IsInjective(ms), NEW T, NEW R, Orders(R, T),
         NEW a, IsSelection(ms, T, R, a)
  PROVE  /\ WellSorted(a, Range(ms) \cap T, R)
         /\ Quiet(R, T) => Kept(a, Range(ms) \cap T, R)
  <1>1. PICK g : Chosen(g, ms, T, R) /\ a = g[Len(ms)]
    BY DEF IsSelection
  <1> DEFINE P(k) == {ms[i] : i \in 1..k} \cap T
             Good(k) == /\ WellSorted(g[k], P(k), R)
                        /\ Quiet(R, T) => Kept(g[k], P(k), R)
             D == {k \in Nat : k <= Len(ms) /\ ~ Good(k)}
  <1>2. Len(ms) \in Nat /\ DOMAIN ms = 1..Len(ms)
    OBVIOUS
  <1>3. Good(0)
    <2>1. P(0) = {}
      OBVIOUS
    <2>2. g[0] = Nothing /\ Nothing.ordered = <<>> /\ Nothing.ambiguous = {}
      BY <1>1 DEF Chosen, Nothing
    <2>3. Nothing \in Sorts({})
      BY DEF Nothing, Sorts
    <2>4. WellSorted(Nothing, {}, R)
      BY <2>2, <2>3 DEF WellSorted, Range
    <2>5. Kept(Nothing, {}, R)
      BY <2>2 DEF Kept
    <2> HIDE DEF P
    <2> QED BY <2>1, <2>2, <2>4, <2>5
  <1>4. ASSUME NEW k \in 1..Len(ms), Good(k - 1) PROVE Good(k)
    <2>1. {ms[i] : i \in 1..k} = {ms[i] : i \in 1..(k - 1)} \cup {ms[k]}
      <3>1. \A i \in 1..k : i \in 1..(k - 1) \/ i = k
        OBVIOUS
      <3>2. \A i \in 1..(k - 1) : i \in 1..k
        OBVIOUS
      <3>3. k \in 1..k
        OBVIOUS
      <3> QED BY <3>1, <3>2, <3>3
    <2>2. ms[k] \notin {ms[i] : i \in 1..(k - 1)}
      BY <1>2 DEF IsInjective
    <2>3. g[k] = IF ms[k] \in T THEN Sorting(g[k - 1], ms[k], R) ELSE g[k - 1]
      BY <1>1 DEF Chosen
    <2>4. CASE ms[k] \in T
      <3>1. P(k) = P(k - 1) \cup {ms[k]} /\ ms[k] \notin P(k - 1) /\ P(k - 1) \in SUBSET T
        BY <2>1, <2>2, <2>4
      <3>2. WellSorted(g[k - 1], P(k - 1), R) /\ (Quiet(R, T) => Kept(g[k - 1], P(k - 1), R))
        BY <1>4
      <3> HIDE DEF P
      <3>3. /\ WellSorted(Sorting(g[k - 1], ms[k], R), P(k - 1) \cup {ms[k]}, R)
            /\ Quiet(R, T) /\ Kept(g[k - 1], P(k - 1), R) =>
                 Kept(Sorting(g[k - 1], ms[k], R), P(k - 1) \cup {ms[k]}, R)
        BY <2>4, <3>1, <3>2, SortingKeeps
      <3> QED BY <2>3, <2>4, <3>1, <3>2, <3>3
    <2>5. CASE ms[k] \notin T
      <3>1. P(k) = P(k - 1)
        BY <2>1, <2>5
      <3> HIDE DEF P
      <3> QED BY <1>4, <2>3, <2>5, <3>1
    <2> QED BY <2>4, <2>5
  <1> HIDE DEF Good
  <1>5. ASSUME D # {} PROVE FALSE
    <2>1. PICK k \in D : \A j \in D : k <= j
      <3>1. D \in SUBSET Nat
        OBVIOUS
      <3> QED BY <1>5, <3>1, LeastNat
    <2>2. k \in 1..Len(ms)
      BY <1>2, <1>3, <2>1
    <2>3. Good(k - 1)
      BY <1>2, <2>1, <2>2
    <2> QED BY <1>4, <2>1, <2>2, <2>3
  <1>6. Good(Len(ms))
    BY <1>2, <1>5
  <1>7. {ms[i] : i \in 1..Len(ms)} = Range(ms)
    BY <1>2 DEF Range
  <1> QED BY <1>1, <1>6, <1>7 DEF Good

(* Whatever the comparisons say, sorting finds nothing but methods. *)
LEMMA SortTypes ==
  ASSUME NEW T, NEW s \in Sorts(T), NEW m \in T, NEW is
  PROVE  Sort(s, m, is) \in Sorts(T)
  <1> DEFINE O == s.ordered
             A == s.ambiguous
             I == {i \in 1..Len(O) : is[O[i]] # "less"}
             place == SelectInSeq(O, LAMBDA o : is[o] # "less")
             unclear == {o \in A : is[o] = "ambiguous"}
             below == \E o \in A : is[o] = "less"
             q == Sort(s, m, is)
  <1>1. /\ O \in Seq(T) /\ A \in SUBSET T /\ s = [ordered |-> O, ambiguous |-> A]
        /\ DOMAIN O = 1..Len(O) /\ Len(O) \in Nat
    BY DEF Sorts
  <1>2. place = IF I # {} THEN Min(I) ELSE 0
    BY DEF SelectInSeq
  <1>3. place # 0 => place \in 1..Len(O)
    <2>1. SUFFICES ASSUME I # {} PROVE place \in 1..Len(O)
      BY <1>2
    <2>2. PICK k \in I : \A j \in I : k <= j
      <3>1. I \in SUBSET Nat
        OBVIOUS
      <3> QED BY <2>1, <3>1, LeastNat
    <2>3. place \in I
      <3> HIDE DEF I
      <3> QED BY <1>2, <2>1, <2>2 DEF Min
    <2> QED BY <2>3
  <1>4. q = CASE place # 0 /\ is[O[place]] = "more" ->
                   [s EXCEPT !.ordered = InsertAt(@, place, m)]
              [] place # 0 /\ is[O[place]] = "ambiguous" ->
                   [ordered |-> SubSeq(O, 1, place - 1), ambiguous |-> {m, O[place]}]
              [] place = 0 /\ unclear # {} -> [s EXCEPT !.ambiguous = unclear]
              [] place = 0 /\ unclear = {} /\ ~ below -> [s EXCEPT !.ordered = Append(@, m)]
              [] OTHER -> s
    BY DEF Sort
  <1> HIDE DEF place, below, q
  <1>5. /\ [s EXCEPT !.ordered = InsertAt(@, place, m)] = [ordered |-> InsertAt(O, place, m), ambiguous |-> A]
        /\ [s EXCEPT !.ambiguous = unclear] = [ordered |-> O, ambiguous |-> unclear]
        /\ [s EXCEPT !.ordered = Append(@, m)] = [ordered |-> Append(O, m), ambiguous |-> A]
    <2> HIDE DEF unclear
    <2> QED BY <1>1
  <1>6. place # 0 => /\ InsertAt(O, place, m) \in Seq(T)
                     /\ SubSeq(O, 1, place - 1) \in Seq(T) /\ {m, O[place]} \in SUBSET T
    <2> SUFFICES ASSUME place # 0
                 PROVE  /\ InsertAt(O, place, m) \in Seq(T)
                        /\ SubSeq(O, 1, place - 1) \in Seq(T) /\ {m, O[place]} \in SUBSET T
      OBVIOUS
    <2>1. InsertAt(O, place, m) \in Seq(T)
      <3> HIDE DEF O
      <3> QED BY <1>1, <1>3, InsertIs
    <2> QED BY <1>1, <1>3, <2>1
  <1>7. Append(O, m) \in Seq(T) /\ unclear \in SUBSET T
    BY <1>1
  <1>8. q \in {s, [ordered |-> O, ambiguous |-> unclear], [ordered |-> Append(O, m), ambiguous |-> A]}
        \/ /\ place # 0
           /\ q \in {[ordered |-> InsertAt(O, place, m), ambiguous |-> A],
                     [ordered |-> SubSeq(O, 1, place - 1), ambiguous |-> {m, O[place]}]}
    <2> HIDE DEF unclear
    <2> QED BY <1>4, <1>5
  <1>9. q \in Sorts(T)
    <2> HIDE DEF unclear, O, A
    <2>1. \A x \in Seq(T), y \in SUBSET T : [ordered |-> x, ambiguous |-> y] \in Sorts(T)
      BY DEF Sorts
    <2> QED BY <1>1, <1>6, <1>7, <1>8, <2>1
  <1> QED BY <1>9 DEF q

-----------------------------------------------------------------------------
(***************************************************************************)
(* The entry that is made for the arguments of a call.                     *)
(***************************************************************************)
Usable(ms) == ms \in Seq(Methods) /\ \A i \in DOMAIN ms : Initialized(ms[i])

Entries == [types : Seq(Types), result : Sorts(Methods)]

(* What the fold of SlowEntry does at one set of positions. *)
SlowStep(args, ms, f, s) ==
  IF s = {} THEN [types |-> ClassesOf(args), result |-> Nothing]
  ELSE TryMethod(f[s \ {Max(s)}], ms[Max(s)], args)

LEMMA ClassesAreMade ==
  ASSUME Laid, NEW args \in ArgLists, CanCall(args)
  PROVE  MadeOf(ClassesOf(args), args)
  <1>1. args \in Seq(Objects) /\ DOMAIN args = 1..Len(args) /\ Len(args) \in Nat
    BY DispatchAssumption
  <1> DEFINE t == ClassesOf(args)
  <1>2. /\ DOMAIN t = 1..Len(args)
        /\ \A i \in 1..Len(args) : t[i] = Class(ClassOf[args[i]])
        /\ t = [i \in 1..Len(args) |-> t[i]]
    BY <1>1 DEF ClassesOf
  <1> HIDE DEF t
  <1>3. ASSUME NEW i \in 1..Len(args) PROVE MadeOfOne(t[i], args[i])
    <2>1. args[i] \in Objects /\ ClassOf[args[i]] \in Classes /\ ClassOf[args[i]] \in DOMAIN cpl
      BY <1>1, DispatchAssumption DEF CanCall, Laid
    <2>2. ClassOf[args[i]] \in Range(cpl[ClassOf[args[i]]])
      BY <2>1, ListsAre DEF Laid
    <2>3. t[i].kind = "class" /\ t[i].of = ClassOf[args[i]] /\ t[i] \in Types
      BY <1>2, <2>1, TypesAre
    <2> QED BY <2>2, <2>3, InstanceIs DEF MadeOfOne
  <1>4. t \in Seq(Types) /\ Len(t) = Len(args)
    <2>1. \A i \in 1..Len(args) : t[i] \in Types
      BY <1>3 DEF MadeOfOne
    <2> QED BY <1>1, <1>2, <2>1
  <1> QED BY <1>1, <1>3, <1>4 DEF MadeOf, t

LEMMA TryMethodIs ==
  ASSUME Laid, NEW args \in ArgLists, CanCall(args), NEW m \in Methods, Initialized(m),
         NEW e \in Entries, MadeOf(e.types, args)
  PROVE  LET q == TryMethod(e, m, args)
         IN /\ q \in Entries /\ MadeOf(q.types, args)
            /\ q.types = Applicable(m, args, e.types).types
            /\ q.result = IF ~ Takes(m, args) THEN e.result
                          ELSE Sort(e.result, m, [o \in Found(e.result) |-> Compare(m, o, args)])
  <1> DEFINE r == Applicable(m, args, e.types)
             q == TryMethod(e, m, args)
             x == IF ~ r.applicable THEN e.result
                  ELSE Sort(e.result, m, [o \in Found(e.result) |-> Compare(m, o, args)])
  <1>1. r \in Answers /\ MadeOf(r.types, args) /\ (r.applicable <=> Takes(m, args))
    BY ApplicableIs
  <1>2. q = [types |-> r.types, result |-> x]
    BY DEF TryMethod
  <1>3. x \in Sorts(Methods)
    <2>1. e.result \in Sorts(Methods)
      BY DEF Entries
    <2> HIDE DEF r
    <2> QED BY <2>1, SortTypes
  <1>4. r.types \in Seq(Types)
    BY <1>1 DEF Answers
  <1> HIDE DEF r, x, q
  <1>5. q.types = r.types /\ q.result = x /\ q \in Entries
    BY <1>2, <1>3, <1>4 DEF Entries
  <1> QED BY <1>1, <1>5 DEF q, r, x

LEMMA SlowRuns ==
  ASSUME Laid, NEW args \in ArgLists, CanCall(args), Usable(methods)
  PROVE  LET n == Len(methods)
             S == {e \in Entries : MadeOf(e.types, args)}
         IN \E g \in [0..n -> S] :
              /\ g[0] = [types |-> ClassesOf(args), result |-> Nothing]
              /\ g[n] = SlowEntry(args)
              /\ \A k \in 1..n : g[k] = TryMethod(g[k - 1], methods[k], args)
  <1> DEFINE n == Len(methods)
             S == {e \in Entries : MadeOf(e.types, args)}
             a == [types |-> ClassesOf(args), result |-> Nothing]
             F == [x \in (1..n) \X S |-> TryMethod(x[2], methods[x[1]], args)]
             Step(f, s) == SlowStep(args, methods, f, s)
             f0 == CHOOSE f : f = [s \in SUBSET (1..n) |-> Step(f, s)]
  <1>1. methods \in Seq(Methods) /\ n \in Nat /\ DOMAIN methods = 1..n
    BY DEF Usable
  <1>2. SlowEntry(args) = f0[1..n]
    <2> HIDE DEF n
    <2> QED BY <1>1 DEF SlowEntry, FoldLeft, MapThenFoldSet, SlowStep
  <1> HIDE DEF n, S, a
  <1>3. ASSUME NEW r \in S, NEW k \in 1..n
        PROVE  TryMethod(r, methods[k], args) \in S
    <2>1. methods[k] \in Methods /\ Initialized(methods[k])
      BY <1>1 DEF Usable
    <2>2. r \in Entries /\ MadeOf(r.types, args)
      BY DEF S
    <2> QED BY <2>1, <2>2, TryMethodIs DEF S
  <1>4. a \in S
    <2>1. MadeOf(ClassesOf(args), args)
      BY ClassesAreMade
    <2>2. Nothing \in Sorts(Methods)
      BY DEF Nothing, Sorts
    <2>3. a \in Entries /\ a.types = ClassesOf(args)
      BY <2>1, <2>2 DEF a, Entries, MadeOf
    <2> QED BY <2>1, <2>3 DEF S
  <1>5. F \in [(1..n) \X S -> S]
    BY <1>3
  <1>6. \E f : f = [s \in SUBSET (1..n) |-> Step(f, s)]
    <2>1. PICK f \in [SUBSET (1..n) -> S] : Folds(f, n, a, F)
      <3> HIDE DEF F
      <3> QED BY <1>1, <1>4, <1>5, FoldExists
    <2>2. ASSUME NEW s \in SUBSET (1..n) PROVE f[s] = Step(f, s)
      <3>1. CASE s = {}
        BY <2>1, <3>1 DEF Folds, FoldStep, SlowStep, a
      <3>2. CASE s # {}
        <4>1. Max(s) \in 1..n /\ s \ {Max(s)} \in SUBSET (1..n)
          BY <1>1, <3>2, MaxPosition
        <4>2. <<Max(s), f[s \ {Max(s)}]>> \in (1..n) \X S
          BY <2>1, <4>1
        <4> QED BY <2>1, <3>2, <4>2 DEF Folds, FoldStep, SlowStep
      <3> QED BY <3>1, <3>2
    <2>3. f = [s \in SUBSET (1..n) |-> f[s]]
      OBVIOUS
    <2>4. f = [s \in SUBSET (1..n) |-> Step(f, s)]
      BY <2>2, <2>3
    <2> QED BY <2>4
  <1>7. f0 = [s \in SUBSET (1..n) |-> Step(f0, s)]
    BY <1>6
  <1> HIDE DEF f0
  <1>8. f0[{}] = a
    BY <1>7 DEF SlowStep, a
  <1>9. ASSUME NEW k \in 1..n, f0[1..(k - 1)] \in S PROVE f0[1..k] = F[<<k, f0[1..(k - 1)]>>]
    <2>1. k \in Nat \ {0} /\ 1..k \in SUBSET (1..n)
      BY <1>1
    <2>2. 1..k # {} /\ Max(1..k) = k /\ (1..k) \ {k} = 1..(k - 1)
      BY <2>1, FirstPositions
    <2>3. f0[1..k] = Step(f0, 1..k)
      BY <1>7, <2>1
    <2>4. <<k, f0[1..(k - 1)]>> \in (1..n) \X S
      BY <1>9
    <2> QED BY <2>2, <2>3, <2>4 DEF SlowStep
  <1>10. GoesOn(f0, S, n, a, F)
    BY <1>8, <1>9 DEF GoesOn
  <1>11. PICK g \in [0..n -> S] : RunsThrough(g, f0, n, a, F)
    <2> HIDE DEF F
    <2> QED BY <1>1, <1>4, <1>5, <1>10, FoldRuns
  <1>12. ASSUME NEW k \in 1..n PROVE g[k] = TryMethod(g[k - 1], methods[k], args)
    <2>1. <<k, g[k - 1]>> \in (1..n) \X S
      BY <1>1, <1>11
    <2> QED BY <1>11, <2>1 DEF RunsThrough
  <1> HIDE DEF F
  <1> QED BY <1>2, <1>11, <1>12 DEF n, S, a, RunsThrough

(* What an entry made for args says, when it was made from these methods.  *)
MadeFrom(ms, e, args) ==
  /\ e \in Entries /\ MadeOf(e.types, args)
  /\ \A i \in DOMAIN ms : Decides(e.types, ms[i], args)
  /\ LET T == {m \in Range(ms) : Takes(m, args)}
     IN IsSelection(ms, T, Comparisons(T, args), e.result)

LEMMA SlowEntryIs ==
  ASSUME Laid, NEW args \in ArgLists, CanCall(args), Usable(methods)
  PROVE  MadeFrom(methods, SlowEntry(args), args)
  <1> DEFINE n == Len(methods)
             S == {e \in Entries : MadeOf(e.types, args)}
             T == {m \in Range(methods) : Takes(m, args)}
             R == Comparisons(T, args)
  <1>1. methods \in Seq(Methods) /\ n \in Nat /\ DOMAIN methods = 1..n
    BY DEF Usable
  <1>2. PICK g \in [0..n -> S] :
              /\ g[0] = [types |-> ClassesOf(args), result |-> Nothing]
              /\ g[n] = SlowEntry(args)
              /\ \A k \in 1..n : g[k] = TryMethod(g[k - 1], methods[k], args)
    BY SlowRuns
  <1>3. \A k \in 0..n : g[k] \in Entries /\ MadeOf(g[k].types, args)
    BY <1>2 DEF S
  <1>4. \A k \in 1..n : /\ methods[k] \in Methods /\ Initialized(methods[k])
                        /\ methods[k] \in Range(methods)
    BY <1>1 DEF Usable, Range
  <1> DEFINE Good(k) == /\ \A i \in 1..k : Decides(g[k].types, methods[i], args)
                        /\ g[k].result \in Sorts(T)
             D == {k \in Nat : k <= n /\ ~ Good(k)}
  <1>5. ASSUME NEW k \in 1..n, g[k - 1].result \in Sorts(T)
        PROVE  /\ g[k].result \in Sorts(T)
               /\ g[k].result = IF methods[k] \in T THEN Sorting(g[k - 1].result, methods[k], R)
                                ELSE g[k - 1].result
    <2> DEFINE m == methods[k]
               x == g[k - 1].result
    <2>1. k - 1 \in 0..n
      BY <1>1
    <2>2. m \in T <=> Takes(m, args)
      BY <1>4
    <2>3. g[k].result = IF ~ Takes(m, args) THEN x
                        ELSE Sort(x, m, [o \in Found(x) |-> Compare(m, o, args)])
      <3>1. g[k - 1] \in Entries /\ MadeOf(g[k - 1].types, args) /\ m \in Methods /\ Initialized(m)
        BY <1>3, <1>4, <2>1
      <3>2. g[k] = TryMethod(g[k - 1], m, args)
        BY <1>2
      <3> HIDE DEF m
      <3> QED BY <3>1, <3>2, TryMethodIs
    <2>4. CASE m \notin T
      BY <1>5, <2>2, <2>3, <2>4
    <2>5. CASE m \in T
      <3>1. Found(x) \subseteq T
        BY <1>5 DEF Sorts, Found, Range
      <3>2. \A o \in Found(x) : R[<<m, o>>] = Compare(m, o, args)
        <4> SUFFICES ASSUME NEW o \in T PROVE R[<<m, o>>] = Compare(m, o, args)
          BY <3>1
        <4> HIDE DEF T, m
        <4> QED BY <2>5 DEF Comparisons
      <3> HIDE DEF R
      <3>3. [o \in Found(x) |-> R[<<m, o>>]] = [o \in Found(x) |-> Compare(m, o, args)]
        BY <3>2
      <3>4. g[k].result = Sorting(x, m, R)
        BY <2>2, <2>3, <2>5, <3>3 DEF Sorting
      <3>5. Sorting(x, m, R) \in Sorts(T)
        <4> HIDE DEF T, m, x
        <4>1. x \in Sorts(T)
          BY <1>5 DEF x
        <4> QED BY <2>5, <4>1, SortTypes DEF Sorting
      <3> QED BY <2>5, <3>4, <3>5
    <2> QED BY <2>4, <2>5
  <1>6. Good(0)
    <2>1. g[0].result = Nothing
      BY <1>2
    <2>2. Nothing \in Sorts(T)
      BY DEF Nothing, Sorts
    <2> QED BY <2>1, <2>2
  <1>7. ASSUME NEW k \in 1..n, Good(k - 1) PROVE Good(k)
    <2>1. k - 1 \in 0..n /\ k \in 0..n
      BY <1>1
    <2>2. /\ g[k - 1] \in Entries /\ MadeOf(g[k - 1].types, args)
          /\ methods[k] \in Methods /\ Initialized(methods[k])
          /\ g[k] = TryMethod(g[k - 1], methods[k], args)
      BY <1>2, <1>3, <1>4, <2>1
    <2>3. g[k].types = Applicable(methods[k], args, g[k - 1].types).types
      BY <2>2, TryMethodIs
    <2>4. /\ Decides(g[k].types, methods[k], args)
          /\ \A i \in DOMAIN args : Tighter(g[k].types[i], g[k - 1].types[i])
      BY <2>2, <2>3, ApplicableIs
    <2>5. ASSUME NEW i \in 1..(k - 1) PROVE Decides(g[k].types, methods[i], args)
      <3>1. methods[i] \in Methods /\ Decides(g[k - 1].types, methods[i], args)
        BY <1>1, <1>4, <1>7
      <3>2. \A j \in DOMAIN args : Specializers[methods[i]][j] \in SimpleTypes
        BY <3>1, MethodTypes
      <3>3. \A j \in DOMAIN args : Settles(g[k - 1].types[j], Specializers[methods[i]][j]) =>
                                     Settles(g[k].types[j], Specializers[methods[i]][j])
        BY <2>4, <3>2 DEF Tighter
      <3> QED BY <3>1, <3>3 DEF Decides
    <2>6. \A i \in 1..k : i \in 1..(k - 1) \/ i = k
      BY <1>1
    <2>7. g[k].result \in Sorts(T)
      <3> HIDE DEF T
      <3> QED BY <1>5, <1>7
    <2> HIDE DEF T
    <2> QED BY <2>4, <2>5, <2>6, <2>7
  <1>8. ASSUME D # {} PROVE FALSE
    <2> HIDE DEF Good
    <2>1. PICK k \in D : \A j \in D : k <= j
      <3>1. D \in SUBSET Nat
        OBVIOUS
      <3> QED BY <1>8, <3>1, LeastNat
    <2>2. k \in 1..n
      BY <1>1, <1>6, <2>1
    <2>3. Good(k - 1)
      BY <1>1, <2>1, <2>2
    <2> QED BY <1>7, <2>1, <2>2, <2>3
  <1> DEFINE h == [k \in 0..n |-> g[k].result]
  <1>9. Chosen(h, methods, T, R)
    <2>1. h[0] = Nothing
      BY <1>1, <1>2
    <2>2. ASSUME NEW k \in 1..n
          PROVE  h[k] = IF methods[k] \in T THEN Sorting(h[k - 1], methods[k], R) ELSE h[k - 1]
      <3>1. k \in 0..n /\ k - 1 \in 0..n /\ k - 1 \in Nat /\ k - 1 <= n
        BY <1>1
      <3>2. g[k - 1].result \in Sorts(T)
        <4> HIDE DEF T
        <4> QED BY <1>8, <3>1
      <3> HIDE DEF T, R
      <3> QED BY <1>5, <3>1, <3>2
    <2> HIDE DEF T, R, h
    <2> QED BY <2>1, <2>2 DEF Chosen
  <1>10. h[n] = SlowEntry(args).result
    BY <1>1, <1>2
  <1>11. IsSelection(methods, T, R, SlowEntry(args).result)
    <2> HIDE DEF h, T, R
    <2> QED BY <1>9, <1>10 DEF IsSelection
  <1>12. \A i \in DOMAIN methods : Decides(SlowEntry(args).types, methods[i], args)
    <2>1. Good(n)
      <3> HIDE DEF Good, n
      <3> QED BY <1>1, <1>8
    <2>2. \A i \in 1..n : Decides(g[n].types, methods[i], args)
      BY <2>1
    <2> HIDE DEF n
    <2> QED BY <1>1, <1>2, <2>2
  <1>13. SlowEntry(args) \in Entries /\ MadeOf(SlowEntry(args).types, args)
    BY <1>1, <1>2, <1>3
  <1> HIDE DEF n
  <1> QED BY <1>11, <1>12, <1>13 DEF MadeFrom

(***************************************************************************)
(* What holds of the methods and of the caches.                            *)
(***************************************************************************)
Distinct(ms) ==
  \A i, j \in DOMAIN ms : Specializers[ms[i]] = Specializers[ms[j]] => i = j

CachedRight ==
  /\ cache \in Seq(Entries)
  /\ methods # <<>> =>
       \A i \in DOMAIN cache : \E args \in ArgLists :
         CanCall(args) /\ MadeFrom(methods, cache[i], args)

Remembers(m, e) ==
  \E args \in ArgLists : /\ CanCall(args) /\ MadeOf(e.types, args) /\ Decides(e.types, m, args)
                         /\ e.result = Takes(m, args)

AskedRight ==
  /\ methodCache = [m \in Asked |-> methodCache[m]]
  /\ \A m \in Asked : methodCache[m] # NoEntry => Initialized(m) /\ Remembers(m, methodCache[m])

MethodsRight == Usable(methods) /\ Distinct(methods)

DispInv ==
  /\ CplInv
  /\ ~ fault => /\ DOMAIN newSlots \subseteq DOMAIN cpl
                /\ MethodsRight /\ CachedRight /\ AskedRight

-----------------------------------------------------------------------------
(* Classes are defined: nothing changes for those that were there.         *)
Extended ==
  /\ \A c \in DOMAIN cpl : c \in DOMAIN cpl' /\ cpl'[c] = cpl[c]
  /\ DOMAIN newSlots \subseteq DOMAIN newSlots'

LEMMA ClassesGrow ==
  ASSUME DispInv, [ClassNext]_classVars, ~ fault, ~ fault'
  PROVE  Extended /\ Laid /\ Laid'
  <1>1. Laid /\ CplsRight(superclasses, cpl)
    BY DEF DispInv, CplInv, Laid
  <1>2. CplInv'
    BY ClassStepInv DEF DispInv
  <1>3. CplsRight(superclasses, cpl)'
    BY <1>2 DEF CplInv
  <1>4. ASSUME NEW c \in Classes, NEW supers \in SuperChoices[c], DefClass1(c, supers)
        PROVE  Extended /\ DOMAIN newSlots' \subseteq DOMAIN cpl'
    <2>1. newSlots' = newSlots /\ c \notin DOMAIN cpl
      BY <1>1, <1>4 DEF DefClass1, CplsRight
    <2>2. \/ cpl' = cpl
          \/ \E list : cpl' = With(cpl, c, list)
      BY <1>4 DEF DefClass1
    <2>3. \A d \in DOMAIN cpl : d \in DOMAIN cpl' /\ cpl'[d] = cpl[d]
      <3>1. CASE cpl' = cpl
        BY <3>1
      <3>2. ASSUME NEW list, cpl' = With(cpl, c, list)
            PROVE  \A d \in DOMAIN cpl : d \in DOMAIN cpl' /\ cpl'[d] = cpl[d]
        BY <2>1, <3>2 DEF With
      <3> QED BY <2>2, <3>1, <3>2
    <2> QED BY <1>1, <2>1, <2>3 DEF Extended, Laid
  <1>5. ASSUME NEW c \in Classes, NEW names \in SlotChoices[c], DefClass2(c, names)
        PROVE  Extended /\ DOMAIN newSlots' \subseteq DOMAIN cpl'
    <2>1. cpl' = cpl /\ Prepared(c) /\ newSlots' = With(newSlots, c, names)
      BY <1>5 DEF DefClass2
    <2>2. DOMAIN newSlots' = DOMAIN newSlots \cup {c}
      BY <2>1 DEF With
    <2> QED BY <1>1, <2>1, <2>2 DEF Extended, Laid, Prepared
  <1>6. CASE UNCHANGED classVars
    BY <1>1, <1>6 DEF classVars, Extended, Laid
  <1>7. Extended /\ DOMAIN newSlots' \subseteq DOMAIN cpl'
    BY <1>1, <1>4, <1>5, <1>6 DEF ClassNext, Laid
  <1> QED BY <1>1, <1>3, <1>7 DEF Laid

LEMMA TypesStay ==
  ASSUME Laid, Extended
  PROVE  /\ \A t : There(t) => There(t)'
         /\ \A o : ClassOf[o] \in DOMAIN cpl => \A t : (Instance(o, t)' <=> Instance(o, t))
         /\ \A t, u \in SimpleTypes : There(t) /\ There(u) => (Subtype(t, u)' <=> Subtype(t, u))
  <1>1. \A t : There(t) => There(t)'
    BY DEF There, Extended
  <1>2. ASSUME NEW o, ClassOf[o] \in DOMAIN cpl, NEW t
        PROVE  Instance(o, t)' <=> Instance(o, t)
    <2>1. cpl'[ClassOf[o]] = cpl[ClassOf[o]]
      BY <1>2 DEF Extended
    <2> QED BY <2>1 DEF Instance
  <1>3. ASSUME NEW t \in SimpleTypes, NEW u \in SimpleTypes, There(t), There(u)
        PROVE  Subtype(t, u)' <=> Subtype(t, u)
    <2>1. CASE t.kind = "singleton"
      <3>1. ClassOf[t.of] \in DOMAIN cpl
        BY <1>3, <2>1 DEF There, Laid
      <3>2. Instance(t.of, u)' <=> Instance(t.of, u)
        BY <1>2, <3>1
      <3> QED BY <2>1, <3>2 DEF Subtype
    <2>2. CASE t.kind # "singleton"
      <3>1. t.kind = "class" => t.of \in DOMAIN cpl
        BY <1>3 DEF There
      <3>2. CASE t.kind = "class"
        <4>1. cpl'[t.of] = cpl[t.of]
          BY <3>1, <3>2 DEF Extended
        <4> QED BY <2>2, <4>1 DEF Subtype
      <3> QED BY <2>2, <3>2, TypesAre
    <2> QED BY <2>1, <2>2
  <1> QED BY <1>1, <1>2, <1>3

LEMMA CallsStay ==
  ASSUME Laid, Extended, NEW args \in ArgLists, CanCall(args)
  PROVE  /\ CanCall(args)'
         /\ \A types : MadeOf(types, args) => MadeOf(types, args)'
         /\ \A m \in Methods : Initialized(m) => Initialized(m)' /\ (Takes(m, args)' <=> Takes(m, args))
         /\ \A types : \A m \in Methods :
              MadeOf(types, args) /\ Initialized(m) /\ Decides(types, m, args)
                => Decides(types, m, args)'
  <1>1. /\ \A i \in DOMAIN args : ClassOf[args[i]] \in DOMAIN cpl /\ args[i] \in Objects
        /\ args \in Seq(Objects)
    BY DispatchAssumption DEF CanCall, Laid
  <1>2. CanCall(args)'
    BY DEF CanCall, Extended
  <1>3. \A i \in DOMAIN args : \A t : Instance(args[i], t)' <=> Instance(args[i], t)
    BY <1>1, TypesStay
  <1>4. ASSUME NEW types, MadeOf(types, args) PROVE MadeOf(types, args)'
    <2>1. \A i \in DOMAIN args : MadeOfOne(types[i], args[i])'
      BY <1>3, <1>4 DEF MadeOf, MadeOfOne
    <2> QED BY <1>4, <2>1 DEF MadeOf
  <1>5. ASSUME NEW m \in Methods, Initialized(m)
        PROVE  Initialized(m)' /\ (Takes(m, args)' <=> Takes(m, args))
    <2>1. Initialized(m)'
      BY <1>5, TypesStay DEF Initialized, There
    <2>2. Takes(m, args)' <=> Takes(m, args)
      BY <1>3 DEF Takes
    <2> QED BY <2>1, <2>2
  <1>6. ASSUME NEW types, NEW m \in Methods, MadeOf(types, args), Initialized(m), Decides(types, m, args)
        PROVE  Decides(types, m, args)'
    <2>1. ASSUME NEW i \in DOMAIN args, Settles(types[i], Specializers[m][i])
          PROVE  Settles(types[i], Specializers[m][i])'
      <3> DEFINE t == types[i]
                 u == Specializers[m][i]
      <3>1. u \in SimpleTypes /\ There(u) /\ MadeOfOne(t, args[i])
        BY <1>6, MethodTypes DEF MadeOf
      <3>2. u.kind = "class" => cpl'[u.of] = cpl[u.of]
        BY <3>1 DEF There, Extended
      <3>3. u.kind = "singleton" => cpl'[ClassOf[u.of]] = cpl[ClassOf[u.of]]
        BY <3>1 DEF There, Extended, Laid
      <3>4. t.kind = "singleton" \/ cpl'[t.of] = cpl[t.of]
        BY <1>1, <3>1 DEF MadeOfOne, Extended
      <3> HIDE DEF t, u
      <3>5. Settles(t, u)
        BY <2>1 DEF t, u
      <3>6. Settles(t, u)'
        BY <3>2, <3>3, <3>4, <3>5 DEF Settles
      <3> QED BY <3>6 DEF t, u
    <2> QED BY <1>3, <1>6, <2>1 DEF Decides
  <1> QED BY <1>2, <1>4, <1>5, <1>6

LEMMA ComparisonsStay ==
  ASSUME Laid, Extended, NEW args \in ArgLists, CanCall(args),
         NEW m1 \in Methods, Initialized(m1), NEW m2 \in Methods, Initialized(m2)
  PROVE  Compare(m1, m2, args)' = Compare(m1, m2, args)
  <1> DEFINE t1(i) == Specializers[m1][i]
             t2(i) == Specializers[m2][i]
  <1>1. ASSUME NEW i \in DOMAIN args
        PROVE  ComparePosition(t1(i), t2(i), args[i])' = ComparePosition(t1(i), t2(i), args[i])
    <2> DEFINE Tie(order) ==
                 IF order[SelectInSeq(order, LAMBDA k : k \in {t1(i).of, t2(i).of})] = t1(i).of
                 THEN "more" ELSE "less"
    <2>1. /\ t1(i) \in SimpleTypes /\ There(t1(i)) /\ t2(i) \in SimpleTypes /\ There(t2(i))
      BY MethodTypes
    <2>4. ComparePosition(t1(i), t2(i), args[i]) =
            CASE Subtype(t1(i), t2(i)) /\ Subtype(t2(i), t1(i)) -> "same"
              [] Subtype(t1(i), t2(i)) /\ ~ Subtype(t2(i), t1(i)) -> "more"
              [] Subtype(t2(i), t1(i)) /\ ~ Subtype(t1(i), t2(i)) -> "less"
              [] OTHER -> IF t1(i).kind # "class" \/ t2(i).kind # "class" THEN "ambiguous"
                          ELSE Tie(cpl[ClassOf[args[i]]])
      BY DEF ComparePosition
    <2>5. ComparePosition(t1(i), t2(i), args[i])' =
            CASE Subtype(t1(i), t2(i))' /\ Subtype(t2(i), t1(i))' -> "same"
              [] Subtype(t1(i), t2(i))' /\ ~ Subtype(t2(i), t1(i))' -> "more"
              [] Subtype(t2(i), t1(i))' /\ ~ Subtype(t1(i), t2(i))' -> "less"
              [] OTHER -> IF t1(i).kind # "class" \/ t2(i).kind # "class" THEN "ambiguous"
                          ELSE Tie(cpl'[ClassOf[args[i]]])
      BY DEF ComparePosition, SelectInSeq
    <2> HIDE DEF Tie
    <2>2. cpl'[ClassOf[args[i]]] = cpl[ClassOf[args[i]]]
      BY DEF CanCall, Laid, Extended
    <2> HIDE DEF t1, t2
    <2>3. /\ Subtype(t1(i), t2(i))' <=> Subtype(t1(i), t2(i))
          /\ Subtype(t2(i), t1(i))' <=> Subtype(t2(i), t1(i))
      BY <2>1, TypesStay
    <2> QED BY <2>2, <2>3, <2>4, <2>5
  <1> DEFINE E == {ComparePosition(t1(i), t2(i), args[i]) : i \in DOMAIN args} \ {"same"}
             F == {ComparePosition(t1(i), t2(i), args[i])' : i \in DOMAIN args} \ {"same"}
  <1>2. E = F
    BY <1>1
  <1>3. Compare(m1, m2, args) = IF Cardinality(E) = 1 THEN CHOOSE r \in E : TRUE
                                ELSE IF E = {} THEN "identical" ELSE "ambiguous"
    BY DEF Compare
  <1>4. Compare(m1, m2, args)' = IF Cardinality(F) = 1 THEN CHOOSE r \in F : TRUE
                                 ELSE IF F = {} THEN "identical" ELSE "ambiguous"
    BY DEF Compare
  <1> HIDE DEF E, F
  <1> QED BY <1>2, <1>3, <1>4

(***************************************************************************)
(* The list of methods.                                                    *)
(***************************************************************************)
LEMMA SameSpecializersIs ==
  ASSUME Laid, NEW m1 \in Methods, Initialized(m1), NEW m2 \in Methods, Initialized(m2)
  PROVE  SameSpecializers(m1, m2) <=> Specializers[m1] = Specializers[m2]
  <1>1. /\ DOMAIN Specializers[m1] = DOMAIN Specializers[m2]
        /\ Specializers[m1] \in Seq(SimpleTypes) /\ Specializers[m2] \in Seq(SimpleTypes)
        /\ \A i \in DOMAIN Specializers[m1] :
             /\ Specializers[m1][i] \in SimpleTypes /\ There(Specializers[m1][i])
             /\ Specializers[m2][i] \in SimpleTypes /\ There(Specializers[m2][i])
    BY MethodTypes
  <1>2. \A i \in DOMAIN Specializers[m1] :
          (/\ Subtype(Specializers[m1][i], Specializers[m2][i])
           /\ Subtype(Specializers[m2][i], Specializers[m1][i]))
            <=> Specializers[m1][i] = Specializers[m2][i]
    BY <1>1, SubtypesBothWays
  <1>3. SameSpecializers(m1, m2)
          <=> \A i \in DOMAIN Specializers[m1] : Specializers[m1][i] = Specializers[m2][i]
    BY <1>2 DEF SameSpecializers
  <1> QED BY <1>1, <1>3

LEMMA AddedToIs ==
  ASSUME Laid, NEW ms, Usable(ms), Distinct(ms), NEW m \in Methods, Initialized(m)
  PROVE  Usable(AddedTo(ms, m)) /\ Distinct(AddedTo(ms, m))
  <1> DEFINE I == {i \in 1..Len(ms) : SameSpecializers(ms[i], m)}
             old == SelectInSeq(ms, LAMBDA o : SameSpecializers(o, m))
             spec(i) == Specializers[ms[i]]
  <1>1. /\ ms \in Seq(Methods) /\ DOMAIN ms = 1..Len(ms) /\ Len(ms) \in Nat
        /\ \A i \in 1..Len(ms) : ms[i] \in Methods /\ Initialized(ms[i])
    BY DEF Usable
  <1>2. I = {i \in 1..Len(ms) : spec(i) = Specializers[m]}
    BY <1>1, SameSpecializersIs
  <1>3. old = IF I # {} THEN Min(I) ELSE 0
    BY DEF SelectInSeq
  <1>4. \A i, j \in 1..Len(ms) : spec(i) = spec(j) => i = j
    BY <1>1 DEF Distinct
  <1>5. AddedTo(ms, m) = IF old = 0 THEN <<m>> \o ms ELSE [ms EXCEPT ![old] = m]
    BY DEF AddedTo
  <1> HIDE DEF old
  <1>6. CASE I = {}
    <2> DEFINE r == <<m>> \o ms
    <2>1. <<m>> \in Seq(Methods) /\ Len(<<m>>) = 1 /\ <<m>>[1] = m
      OBVIOUS
    <2>2. /\ r \in Seq(Methods) /\ Len(r) = 1 + Len(ms)
          /\ \A i \in 1..(1 + Len(ms)) : r[i] = IF i <= 1 THEN <<m>>[i] ELSE ms[i - 1]
      BY <1>1, <2>1, JoinIs
    <2> HIDE DEF r
    <2>3. r[1] = m /\ DOMAIN r = 1..(1 + Len(ms))
      BY <1>1, <2>1, <2>2
    <2>4. \A i \in 1..(1 + Len(ms)) : i # 1 => i - 1 \in 1..Len(ms) /\ r[i] = ms[i - 1]
      BY <1>1, <2>2
    <2>5. Usable(r)
      BY <1>1, <2>2, <2>3, <2>4 DEF Usable
    <2>6. ASSUME NEW i \in 1..(1 + Len(ms)), NEW j \in 1..(1 + Len(ms)),
                 Specializers[r[i]] = Specializers[r[j]]
          PROVE  i = j
      <3>1. CASE i = 1 /\ j # 1
        <4>1. spec(j - 1) = Specializers[m] /\ j - 1 \in 1..Len(ms)
          BY <2>3, <2>4, <2>6, <3>1
        <4> QED BY <1>2, <1>6, <4>1
      <3>2. CASE i # 1 /\ j = 1
        <4>1. spec(i - 1) = Specializers[m] /\ i - 1 \in 1..Len(ms)
          BY <2>3, <2>4, <2>6, <3>2
        <4> QED BY <1>2, <1>6, <4>1
      <3>3. CASE i # 1 /\ j # 1
        <4>1. /\ spec(i - 1) = spec(j - 1)
              /\ i - 1 \in 1..Len(ms) /\ j - 1 \in 1..Len(ms)
          BY <2>4, <2>6, <3>3
        <4>2. i - 1 = j - 1
          BY <1>4, <4>1
        <4> QED BY <1>1, <4>2
      <3> QED BY <3>1, <3>2, <3>3
    <2>7. Distinct(r)
      BY <2>3, <2>6 DEF Distinct
    <2>8. AddedTo(ms, m) = r
      BY <1>3, <1>5, <1>6 DEF r
    <2> QED BY <2>5, <2>7, <2>8
  <1>7. CASE I # {}
    <2>1. PICK k \in I : \A j \in I : k <= j
      <3>1. I \in SUBSET Nat
        OBVIOUS
      <3> QED BY <1>7, <3>1, LeastNat
    <2>2. old \in I
      <3> HIDE DEF I
      <3> QED BY <1>3, <1>7, <2>1 DEF Min
    <2>3. old \in 1..Len(ms) /\ old # 0 /\ spec(old) = Specializers[m]
      BY <1>2, <2>2
    <2> DEFINE r == [ms EXCEPT ![old] = m]
    <2>4. /\ r \in Seq(Methods) /\ DOMAIN r = 1..Len(ms)
          /\ \A i \in 1..Len(ms) : r[i] = IF i = old THEN m ELSE ms[i]
      BY <1>1, <2>3
    <2> HIDE DEF r
    <2>5. Usable(r)
      BY <1>1, <2>4 DEF Usable
    <2>6. \A i \in 1..Len(ms) : Specializers[r[i]] = spec(i)
      BY <2>3, <2>4
    <2>7. Distinct(r)
      BY <1>4, <2>4, <2>6 DEF Distinct
    <2>8. AddedTo(ms, m) = r
      BY <1>5, <2>3 DEF r
    <2> QED BY <2>5, <2>7, <2>8
  <1> QED BY <1>6, <1>7

(* What the fold of SetSignature does at one set of positions. *)
AddStep(ms, f, s) == IF s = {} THEN <<>> ELSE AddedTo(f[s \ {Max(s)}], ms[Max(s)])

LEMMA AddedAgain ==
  ASSUME Laid, NEW ms, Usable(ms)
  PROVE  LET all == FoldLeft(AddedTo, <<>>, ms)
         IN Usable(all) /\ Distinct(all) /\ (ms = <<>> => all = <<>>)
  <1> DEFINE n == Len(ms)
             S == {l \in Seq(Methods) : Usable(l) /\ Distinct(l)}
             F == [x \in (1..n) \X S |-> AddedTo(x[2], ms[x[1]])]
             Step(f, s) == AddStep(ms, f, s)
             f0 == CHOOSE f : f = [s \in SUBSET (1..n) |-> Step(f, s)]
  <1>1. ms \in Seq(Methods) /\ n \in Nat /\ DOMAIN ms = 1..n
    BY DEF Usable
  <1>2. FoldLeft(AddedTo, <<>>, ms) = f0[1..n]
    <2> HIDE DEF n
    <2> QED BY <1>1 DEF FoldLeft, MapThenFoldSet, AddStep
  <1>3. ASSUME NEW r \in S, NEW k \in 1..n PROVE AddedTo(r, ms[k]) \in S
    <2>1. ms[k] \in Methods /\ Initialized(ms[k])
      BY <1>1 DEF Usable
    <2>2. Usable(r) /\ Distinct(r)
      OBVIOUS
    <2>3. Usable(AddedTo(r, ms[k])) /\ Distinct(AddedTo(r, ms[k]))
      BY <2>1, <2>2, AddedToIs
    <2> QED BY <2>3 DEF Usable
  <1>4. <<>> \in S
    BY DEF Usable, Distinct
  <1> HIDE DEF n, S
  <1>5. F \in [(1..n) \X S -> S]
    BY <1>3
  <1>6. \E f : f = [s \in SUBSET (1..n) |-> Step(f, s)]
    <2>1. PICK f \in [SUBSET (1..n) -> S] : Folds(f, n, <<>>, F)
      <3> HIDE DEF F
      <3> QED BY <1>1, <1>4, <1>5, FoldExists
    <2>2. ASSUME NEW s \in SUBSET (1..n) PROVE f[s] = Step(f, s)
      <3>1. CASE s = {}
        BY <2>1, <3>1 DEF Folds, FoldStep, AddStep
      <3>2. CASE s # {}
        <4>1. Max(s) \in 1..n /\ s \ {Max(s)} \in SUBSET (1..n)
          BY <1>1, <3>2, MaxPosition
        <4>2. <<Max(s), f[s \ {Max(s)}]>> \in (1..n) \X S
          BY <2>1, <4>1
        <4> QED BY <2>1, <3>2, <4>2 DEF Folds, FoldStep, AddStep
      <3> QED BY <3>1, <3>2
    <2>3. f = [s \in SUBSET (1..n) |-> f[s]]
      OBVIOUS
    <2>4. f = [s \in SUBSET (1..n) |-> Step(f, s)]
      BY <2>2, <2>3
    <2> QED BY <2>4
  <1>7. f0 = [s \in SUBSET (1..n) |-> Step(f0, s)]
    BY <1>6
  <1> HIDE DEF f0
  <1>8. f0[{}] = <<>>
    BY <1>7 DEF AddStep
  <1>9. ASSUME NEW k \in 1..n, f0[1..(k - 1)] \in S PROVE f0[1..k] = F[<<k, f0[1..(k - 1)]>>]
    <2>1. k \in Nat \ {0} /\ 1..k \in SUBSET (1..n)
      BY <1>1
    <2>2. 1..k # {} /\ Max(1..k) = k /\ (1..k) \ {k} = 1..(k - 1)
      BY <2>1, FirstPositions
    <2>3. f0[1..k] = Step(f0, 1..k)
      BY <1>7, <2>1
    <2>4. <<k, f0[1..(k - 1)]>> \in (1..n) \X S
      BY <1>9
    <2> QED BY <2>2, <2>3, <2>4 DEF AddStep
  <1>10. GoesOn(f0, S, n, <<>>, F)
    BY <1>8, <1>9 DEF GoesOn
  <1>11. PICK g \in [0..n -> S] : RunsThrough(g, f0, n, <<>>, F)
    <2> HIDE DEF F
    <2> QED BY <1>1, <1>4, <1>5, <1>10, FoldRuns
  <1>12. f0[1..n] \in S
    <2>1. n \in 0..n
      BY <1>1
    <2> QED BY <1>11, <2>1 DEF RunsThrough
  <1>13. ms = <<>> => f0[1..n] = <<>>
    <2> SUFFICES ASSUME ms = <<>> PROVE f0[1..n] = <<>>
      OBVIOUS
    <2>1. n = 0
      BY DEF n
    <2>2. 1..n = {}
      BY <2>1
    <2> QED BY <1>8, <2>2
  <1> QED BY <1>2, <1>12, <1>13 DEF S

(***************************************************************************)
(* What is cached stays right while classes are defined.                   *)
(***************************************************************************)
LEMMA KeepsCached ==
  ASSUME Laid, Extended, NEW ms, Usable(ms), NEW e, NEW args \in ArgLists, CanCall(args),
         MadeFrom(ms, e, args)
  PROVE  CanCall(args)' /\ MadeFrom(ms, e, args)'
  <1> DEFINE T == {m \in Range(ms) : Takes(m, args)}
             U == {m \in Range(ms) : Takes(m, args)'}
             C == Comparisons(T, args)
             D == [p \in U \X U |-> Compare(p[1], p[2], args)']
  <1>1. \A i \in DOMAIN ms : ms[i] \in Methods /\ Initialized(ms[i])
    BY DEF Usable
  <1>2. \A m \in Range(ms) : m \in Methods /\ Initialized(m)
    BY <1>1 DEF Range
  <1>3. T = U
    BY <1>2, CallsStay
  <1>4. C = D
    <2>1. \A p \in T \X T : Compare(p[1], p[2], args)' = Compare(p[1], p[2], args)
      BY <1>2, ComparisonsStay
    <2> QED BY <1>3, <2>1 DEF Comparisons
  <1>5. e \in Entries /\ MadeOf(e.types, args) /\ IsSelection(ms, T, C, e.result)
    BY DEF MadeFrom
  <1>6. MadeOf(e.types, args)' /\ CanCall(args)'
    BY <1>5, CallsStay
  <1>7. \A i \in DOMAIN ms : Decides(e.types, ms[i], args)'
    BY <1>1, <1>5, CallsStay DEF MadeFrom
  <1>8. IsSelection(ms, U, D, e.result)
    BY <1>3, <1>4, <1>5
  <1>9. Comparisons(T, args)' = D
    BY DEF Comparisons
  <1>10. e \in Entries'
    BY <1>5 DEF Entries, Types, SimpleTypes, Sorts
  <1> QED BY <1>6, <1>7, <1>8, <1>9, <1>10 DEF MadeFrom

LEMMA KeepsRemembered ==
  ASSUME Laid, Extended, NEW m \in Methods, Initialized(m), NEW e, Remembers(m, e)
  PROVE  Initialized(m)' /\ Remembers(m, e)'
  <1>1. PICK args \in ArgLists : /\ CanCall(args) /\ MadeOf(e.types, args)
                                 /\ Decides(e.types, m, args) /\ e.result = Takes(m, args)
    BY DEF Remembers
  <1>2. /\ CanCall(args)' /\ MadeOf(e.types, args)' /\ Decides(e.types, m, args)'
        /\ Initialized(m)' /\ (Takes(m, args)' <=> Takes(m, args))
    BY <1>1, CallsStay
  <1>3. Takes(m, args)' = Takes(m, args)
    BY <1>2 DEF Takes
  <1> QED BY <1>1, <1>2, <1>3 DEF Remembers

(* So it does for the steps that leave the classes alone. *)
LEMMA NothingGrows ==
  ASSUME Laid, UNCHANGED classVars
  PROVE  Extended /\ Laid'
  BY DEF classVars, Extended, Laid

LEMMA MethodsStay ==
  ASSUME Laid, Extended, MethodsRight, UNCHANGED methods
  PROVE  MethodsRight'
  <1>1. Usable(methods)'
    <2>1. \A i \in DOMAIN methods : methods[i] \in Methods /\ Initialized(methods[i])
      BY DEF MethodsRight, Usable
    <2>2. \A i \in DOMAIN methods : Initialized(methods[i])'
      <3> SUFFICES ASSUME NEW m \in Methods, Initialized(m) PROVE Initialized(m)'
        BY <2>1
      <3> QED BY TypesStay DEF Initialized, There
    <2> QED BY <2>1, <2>2 DEF Usable, MethodsRight
  <1> QED BY <1>1 DEF MethodsRight, Distinct

LEMMA CacheStays ==
  ASSUME Laid, Extended, MethodsRight, CachedRight, UNCHANGED <<methods, cache>>
  PROVE  CachedRight'
  <1>1. cache' \in Seq(Entries)
    BY DEF CachedRight
  <1>2. ASSUME methods # <<>>, NEW i \in DOMAIN cache
        PROVE  \E args \in ArgLists : CanCall(args)' /\ MadeFrom(methods, cache[i], args)'
    <2>1. PICK args \in ArgLists : CanCall(args) /\ MadeFrom(methods, cache[i], args)
      BY <1>2 DEF CachedRight
    <2>2. CanCall(args)' /\ MadeFrom(methods, cache[i], args)'
      BY <2>1, KeepsCached DEF MethodsRight
    <2> QED BY <2>2
  <1> QED BY <1>1, <1>2 DEF CachedRight

LEMMA AskedStay ==
  ASSUME Laid, Extended, AskedRight, UNCHANGED methodCache
  PROVE  AskedRight'
  <1>1. ASSUME NEW m \in Asked, methodCache[m] # NoEntry
        PROVE  Initialized(m)' /\ Remembers(m, methodCache[m])'
    BY <1>1, KeepsRemembered, DispatchAssumption DEF AskedRight
  <1> QED BY <1>1 DEF AskedRight

(***************************************************************************)
(* Each action keeps the invariant.                                        *)
(***************************************************************************)
LEMMA ClassStepKeeps ==
  ASSUME DispInv, [ClassNext]_classVars, UNCHANGED <<signature, methods, cache, methodCache>>
  PROVE  DispInv'
  <1>1. CplInv'
    BY ClassStepInv DEF DispInv
  <1>2. fault => fault'
    BY DEF ClassNext, DefClass1, DefClass2, classVars
  <1>3. ASSUME ~ fault'
        PROVE  (DOMAIN newSlots \subseteq DOMAIN cpl)' /\ MethodsRight' /\ CachedRight' /\ AskedRight'
    <2>1. Extended /\ Laid /\ Laid' /\ ~ fault
      BY <1>2, <1>3, ClassesGrow
    <2>2. MethodsRight /\ CachedRight /\ AskedRight
      BY <2>1 DEF DispInv
    <2>3. MethodsRight' /\ CachedRight' /\ AskedRight'
      BY <2>1, <2>2, MethodsStay, CacheStays, AskedStay
    <2> QED BY <2>1, <2>3 DEF Laid
  <1> QED BY <1>1, <1>3 DEF DispInv

(* A step with the classes as they are. *)
LEMMA OtherStepKeeps ==
  ASSUME DispInv, ~ fault, UNCHANGED classVars,
         Laid /\ MethodsRight /\ CachedRight /\ AskedRight /\ Extended =>
           MethodsRight' /\ CachedRight' /\ AskedRight'
  PROVE  DispInv'
  <1>1. /\ Laid /\ MethodsRight /\ CachedRight /\ AskedRight /\ CplInv
    BY DEF DispInv, CplInv, Laid
  <1>2. Extended /\ Laid'
    BY <1>1, NothingGrows
  <1>3. CplInv'
    BY <1>1 DEF classVars, CplInv
  <1> QED BY <1>1, <1>2, <1>3 DEF DispInv, Laid

LEMMA CallKeeps ==
  ASSUME DispInv, NEW args \in ArgLists, CallGeneric(args)
  PROVE  DispInv'
  <1>1. /\ ~ fault /\ methods # <<>> /\ CanCall(args)
        /\ UNCHANGED <<classVars, signature, methods, methodCache>> /\ UNCHANGED classVars
    BY DEF CallGeneric, classVars
  <1>2. ASSUME Laid, MethodsRight, CachedRight, AskedRight, Extended
        PROVE  MethodsRight' /\ CachedRight' /\ AskedRight'
    <2>1. MethodsRight' /\ AskedRight'
      BY <1>1, <1>2, MethodsStay, AskedStay
    <2>2. cache \in Seq(Entries)
      BY <1>2 DEF CachedRight
    <2> DEFINE Right(e) == \E a \in ArgLists : CanCall(a) /\ MadeFrom(methods, e, a)
               Stays(e) == \E a \in ArgLists : CanCall(a)' /\ MadeFrom(methods, e, a)'
               hit == SelectInSeq(cache, LAMBDA entry : Accepts(entry, args))
               I == {i \in 1..Len(cache) : Accepts(cache[i], args)}
               slow == SlowEntry(args)
    <2>3. \A i \in 1..Len(cache) : Right(cache[i])
      BY <1>1, <1>2, <2>2 DEF CachedRight
    <2>4. slow \in Entries /\ Right(slow)
      <3>1. MadeFrom(methods, slow, args)
        BY <1>1, <1>2, SlowEntryIs DEF MethodsRight
      <3> QED BY <1>1, <3>1 DEF MadeFrom
    <2>5. hit = 0 \/ hit \in 1..Len(cache)
      <3>1. hit = IF I # {} THEN Min(I) ELSE 0
        BY DEF SelectInSeq
      <3>2. CASE I # {}
        <4>1. PICK k \in I : \A j \in I : k <= j
          <5>1. I \in SUBSET Nat
            OBVIOUS
          <5> QED BY <3>2, <5>1, LeastNat
        <4>2. Min(I) \in I
          <5> HIDE DEF I
          <5> QED BY <3>2, <4>1 DEF Min
        <4> QED BY <3>1, <3>2, <4>2
      <3> QED BY <3>1, <3>2
    <2>6. cache' = IF hit = 0 THEN <<slow>> \o cache
                   ELSE <<cache[hit]>> \o RemoveAt(cache, hit)
      BY DEF CallGeneric
    <2> HIDE DEF hit, slow, Right, Stays
    <2>7. cache' \in Seq(Entries) /\ \A i \in 1..Len(cache') : Right(cache'[i])
      <3>1. CASE hit = 0
        <4> DEFINE r == <<slow>> \o cache
        <4>1. <<slow>> \in Seq(Entries) /\ Len(<<slow>>) = 1 /\ <<slow>>[1] = slow
          BY <2>4
        <4>2. /\ r \in Seq(Entries) /\ Len(r) = 1 + Len(cache)
              /\ \A i \in 1..(1 + Len(cache)) : r[i] = IF i <= 1 THEN <<slow>>[i] ELSE cache[i - 1]
          BY <2>2, <4>1, JoinIs
        <4> HIDE DEF r
        <4>3. ASSUME NEW i \in 1..(1 + Len(cache)) PROVE Right(r[i])
          <5>1. CASE i = 1
            BY <2>4, <4>1, <4>2, <5>1
          <5>2. CASE i # 1
            <6>1. i - 1 \in 1..Len(cache) /\ r[i] = cache[i - 1]
              BY <2>2, <4>2, <5>2
            <6> QED BY <2>3, <6>1
          <5> QED BY <5>1, <5>2
        <4> QED BY <2>6, <3>1, <4>2, <4>3 DEF r
      <3>2. CASE hit # 0
        <4> DEFINE x == cache[hit]
                   a == SubSeq(cache, 1, hit - 1)
                   b == SubSeq(cache, hit + 1, Len(cache))
                   c == a \o b
                   r == <<x>> \o c
        <4>1. hit \in 1..Len(cache) /\ x \in Entries
          BY <2>2, <2>5, <3>2
        <4>2. /\ a \in Seq(Entries) /\ Len(a) = hit - 1
              /\ \A i \in 1..(hit - 1) : a[i] = cache[i]
              /\ b \in Seq(Entries) /\ Len(b) = Len(cache) - hit
              /\ \A i \in 1..(Len(cache) - hit) : b[i] = cache[hit + i]
          BY <2>2, <4>1
        <4> HIDE DEF a, b
        <4>3. /\ c \in Seq(Entries) /\ Len(c) = Len(a) + Len(b)
              /\ \A i \in 1..(Len(a) + Len(b)) : c[i] = IF i <= Len(a) THEN a[i] ELSE b[i - Len(a)]
          BY <4>2, JoinIs
        <4> HIDE DEF c
        <4>4. \A i \in 1..Len(c) : Right(c[i])
          <5> SUFFICES ASSUME NEW i \in 1..Len(c) PROVE Right(c[i])
            OBVIOUS
          <5>1. CASE i <= Len(a)
            <6>1. i \in 1..(hit - 1) /\ i \in 1..Len(cache) /\ c[i] = a[i]
              BY <2>2, <4>1, <4>2, <4>3, <5>1
            <6> QED BY <2>3, <4>2, <6>1
          <5>2. CASE i > Len(a)
            <6>1. /\ i - Len(a) \in 1..(Len(cache) - hit) /\ c[i] = b[i - Len(a)]
                  /\ hit + (i - Len(a)) \in 1..Len(cache)
              BY <2>2, <4>1, <4>2, <4>3, <5>2
            <6> QED BY <2>3, <4>2, <6>1
          <5> QED BY <4>2, <5>1, <5>2
        <4>5. <<x>> \in Seq(Entries) /\ Len(<<x>>) = 1 /\ <<x>>[1] = x
          BY <4>1
        <4>6. /\ r \in Seq(Entries) /\ Len(r) = 1 + Len(c)
              /\ \A i \in 1..(1 + Len(c)) : r[i] = IF i <= 1 THEN <<x>>[i] ELSE c[i - 1]
          BY <4>3, <4>5, JoinIs
        <4>7. cache' = r
          BY <2>6, <3>2 DEF RemoveAt, a, b, c
        <4> HIDE DEF r
        <4>8. ASSUME NEW i \in 1..(1 + Len(c)) PROVE Right(r[i])
          <5>1. CASE i = 1
            <6>1. r[i] = x
              BY <4>3, <4>5, <4>6, <5>1
            <6> QED BY <2>3, <4>1, <6>1
          <5>2. CASE i # 1
            <6>1. i - 1 \in 1..Len(c) /\ r[i] = c[i - 1]
              BY <4>3, <4>6, <5>2
            <6> QED BY <4>4, <6>1
          <5> QED BY <5>1, <5>2
        <4> QED BY <4>6, <4>7, <4>8
      <3> QED BY <3>1, <3>2
    <2>8. ASSUME NEW e, Right(e) PROVE Stays(e)
      <3>1. PICK a \in ArgLists : CanCall(a) /\ MadeFrom(methods, e, a)
        BY <2>8 DEF Right
      <3>2. CanCall(a)' /\ MadeFrom(methods, e, a)'
        <4>1. Usable(methods)
          BY <1>2 DEF MethodsRight
        <4>2. ASSUME NEW ms, ms = methods PROVE MadeFrom(ms, e, a)' /\ CanCall(a)'
          BY <1>2, <3>1, <4>1, <4>2, KeepsCached
        <4> QED BY <1>1, <4>2
      <3> QED BY <3>2 DEF Stays
    <2>9. ASSUME NEW i \in 1..Len(cache')
          PROVE  \E a \in ArgLists : (CanCall(a) /\ MadeFrom(methods, cache[i], a))'
      <3>1. PICK x : x = cache'[i]
        OBVIOUS
      <3>2. Stays(x)
        BY <2>7, <2>8, <3>1
      <3>3. PICK a \in ArgLists : CanCall(a)' /\ MadeFrom(methods, x, a)'
        BY <3>2 DEF Stays
      <3>4. MadeFrom(methods, cache[i], a)'
        BY <3>1, <3>3
      <3> QED BY <3>3, <3>4
    <2>10. CachedRight'
      BY <1>1, <2>7, <2>9 DEF CachedRight
    <2> QED BY <2>1, <2>10
  <1> QED BY <1>1, <1>2, OtherStepKeeps

LEMMA TestKeeps ==
  ASSUME DispInv, NEW args \in ArgLists, NEW m \in Asked, TestMethod(m, args)
  PROVE  DispInv'
  <1> DEFINE r == Applicable(m, args, ClassesOf(args))
             e == [types |-> r.types, result |-> r.applicable]
  <1>1. /\ ~ fault /\ CanCall(args) /\ Initialized(m) /\ m \in Methods
        /\ UNCHANGED <<classVars, signature, methods, cache>> /\ UNCHANGED classVars
        /\ methodCache' = [methodCache EXCEPT ![m] = e]
    BY DispatchAssumption DEF TestMethod, classVars
  <1>2. ASSUME Laid, MethodsRight, CachedRight, AskedRight, Extended
        PROVE  MethodsRight' /\ CachedRight' /\ AskedRight'
    <2>1. MethodsRight' /\ CachedRight'
      BY <1>1, <1>2, MethodsStay, CacheStays
    <2>2. Remembers(m, e)
      <3>1. MadeOf(ClassesOf(args), args)
        BY <1>1, <1>2, ClassesAreMade
      <3>2. /\ r \in Answers /\ MadeOf(r.types, args) /\ Decides(r.types, m, args)
            /\ (r.applicable <=> Takes(m, args))
        <4> HIDE DEF r
        <4> QED BY <1>1, <1>2, <3>1, ApplicableIs DEF r
      <3>3. r.applicable = Takes(m, args)
        <4> HIDE DEF r
        <4> QED BY <3>2 DEF Answers, Takes
      <3>4. e.types = r.types /\ e.result = r.applicable
        OBVIOUS
      <3> HIDE DEF e, r
      <3> QED BY <1>1, <3>2, <3>3, <3>4 DEF Remembers
    <2> HIDE DEF e
    <2>3. /\ methodCache' = [k \in Asked |-> methodCache'[k]]
          /\ \A k \in Asked : methodCache'[k] = IF k = m THEN e ELSE methodCache[k]
      <3>1. methodCache = [k \in Asked |-> methodCache[k]]
        BY <1>2 DEF AskedRight
      <3>2. methodCache' = [k \in Asked |-> IF k = m THEN e ELSE methodCache[k]]
        BY <1>1, <3>1
      <3> QED BY <3>2
    <2>4. ASSUME NEW k \in Asked, methodCache'[k] # NoEntry
          PROVE  Initialized(k)' /\ Remembers(k, methodCache[k])'
      <3>1. k \in Methods
        BY DispatchAssumption
      <3>2. CASE k = m
        <4>1. \A x : Remembers(m, x) => Initialized(m)' /\ Remembers(m, x)'
          BY <1>1, <1>2, KeepsRemembered
        <4> QED BY <2>2, <2>3, <3>2, <4>1
      <3>3. CASE k # m
        <4>1. Initialized(k) /\ Remembers(k, methodCache[k])
          BY <1>2, <2>3, <2>4, <3>3 DEF AskedRight
        <4>2. \A x : Remembers(k, x) => Initialized(k)' /\ Remembers(k, x)'
          BY <1>2, <3>1, <4>1, KeepsRemembered
        <4> QED BY <2>3, <3>3, <4>1, <4>2
      <3> QED BY <3>2, <3>3
    <2>5. AskedRight'
      BY <2>3, <2>4 DEF AskedRight
    <2> QED BY <2>1, <2>5
  <1> QED BY <1>1, <1>2, OtherStepKeeps

(* The methods change, and the cache of the function is cleared, unless    *)
(* there are no methods.                                                   *)
LEMMA MethodsChange ==
  ASSUME DispInv, ~ fault, UNCHANGED <<classVars, methodCache>>,
         NEW ms, methods' = ms, Laid => Usable(ms) /\ Distinct(ms),
         \/ cache' = <<>>
         \/ cache' = cache /\ ms = <<>>
  PROVE  DispInv'
  <1>1. ASSUME Laid, MethodsRight, CachedRight, AskedRight, Extended
        PROVE  MethodsRight' /\ CachedRight' /\ AskedRight'
    <2>1. AskedRight'
      BY <1>1, AskedStay
    <2>2. CachedRight'
      <3>1. <<>> \in Seq(Entries) /\ DOMAIN <<>> = {} /\ cache \in Seq(Entries)
        BY <1>1 DEF CachedRight
      <3>2. CASE cache' = <<>>
        BY <3>1, <3>2 DEF CachedRight
      <3>3. CASE cache' = cache /\ ms = <<>>
        BY <3>1, <3>3 DEF CachedRight
      <3> QED BY <3>2, <3>3
    <2>3. MethodsRight'
      <3>1. ms \in Seq(Methods) /\ \A i \in DOMAIN ms : ms[i] \in Methods /\ Initialized(ms[i])
        BY <1>1 DEF Usable
      <3>2. \A i \in DOMAIN ms : Initialized(ms[i])'
        <4> SUFFICES ASSUME NEW m \in Methods, Initialized(m) PROVE Initialized(m)'
          BY <3>1
        <4> QED BY <1>1, TypesStay DEF Initialized, There
      <3>3. \A i \in DOMAIN methods' : Initialized(methods[i])'
        BY <3>2
      <3>4. Usable(methods)'
        BY <3>1, <3>3 DEF Usable
      <3>5. Distinct(methods)'
        BY <1>1 DEF Distinct
      <3> QED BY <3>4, <3>5 DEF MethodsRight
    <2> QED BY <2>1, <2>2, <2>3
  <1>2. UNCHANGED classVars
    OBVIOUS
  <1> QED BY <1>1, <1>2, OtherStepKeeps

LEMMA AddKeeps ==
  ASSUME DispInv, NEW m \in Methods, AddMethod(m)
  PROVE  DispInv'
  <1> DEFINE ms == AddedTo(methods, m)
  <1>1. /\ ~ fault /\ Initialized(m) /\ methods' = ms /\ cache' = <<>>
        /\ UNCHANGED <<classVars, methodCache>>
    BY DEF AddMethod
  <1>2. Laid => Usable(ms) /\ Distinct(ms)
    BY <1>1, AddedToIs DEF DispInv, MethodsRight
  <1> HIDE DEF ms
  <1> QED BY <1>1, <1>2, MethodsChange

LEMMA DistinctIsQueue ==
  ASSUME NEW ms \in Seq(Methods), Distinct(ms)
  PROVE  IsQueue(ms)
  BY DEF Distinct, IsQueue, IsInjective

LEMMA RemoveKeeps ==
  ASSUME DispInv, NEW m \in Methods, RemoveMethod(m)
  PROVE  DispInv'
  <1> DEFINE ms == RemoveFirst(methods, m)
  <1>1. /\ ~ fault /\ methods' = ms /\ cache' = <<>> /\ UNCHANGED <<classVars, methodCache>>
        /\ Usable(methods) /\ Distinct(methods)
    BY DEF RemoveMethod, DispInv, MethodsRight
  <1>2. methods \in Seq(Methods) /\ DOMAIN methods = 1..Len(methods)
    BY <1>1 DEF Usable
  <1>3. Usable(ms) /\ Distinct(ms)
    <2>1. CASE m \in Range(methods)
      <3>1. /\ ms \in Seq(Methods) /\ IsQueue(ms) /\ Range(ms) = Range(methods) \ {m}
        BY <1>1, <1>2, <2>1, WithoutQueue, DistinctIsQueue DEF Without
      <3> HIDE DEF ms
      <3>2. \A i \in DOMAIN ms : ms[i] \in Range(methods)
        BY <3>1 DEF Range
      <3>3. \A x \in Range(methods) : Initialized(x)
        BY <1>1 DEF Usable, Range
      <3>4. Usable(ms)
        BY <3>1, <3>2, <3>3 DEF Usable
      <3>5. \A x, y \in Range(methods) : Specializers[x] = Specializers[y] => x = y
        BY <1>1 DEF Distinct, Range
      <3>6. Distinct(ms)
        BY <3>1, <3>2, <3>5 DEF Distinct, IsQueue, IsInjective
      <3> QED BY <3>4, <3>6
    <2>2. CASE m \notin Range(methods)
      <3>1. ~ \E i \in 1..Len(methods) : methods[i] = m
        BY <1>2, <2>2 DEF Range
      <3>2. ms = methods
        BY <3>1 DEF RemoveFirst
      <3> QED BY <1>1, <3>2
    <2> QED BY <2>1, <2>2
  <1> HIDE DEF ms
  <1> QED BY <1>1, <1>3, MethodsChange

LEMMA SignatureKeeps ==
  ASSUME DispInv, NEW types \in Signatures, SetSignature(types)
  PROVE  DispInv'
  <1> DEFINE refused == SelectInSeq(methods, LAMBDA m : ~ Conforms(m, types))
             kept == IF refused = 0 THEN methods ELSE SubSeq(methods, 1, refused - 1)
             ms == FoldLeft(AddedTo, <<>>, kept)
             I == {i \in 1..Len(methods) : ~ Conforms(methods[i], types)}
  <1>1. /\ ~ fault /\ methods' = ms /\ UNCHANGED <<classVars, methodCache>>
        /\ cache' = IF kept = <<>> THEN cache ELSE <<>>
        /\ Usable(methods)
    BY DEF SetSignature, DispInv, MethodsRight
  <1>2. refused = 0 \/ refused \in 1..Len(methods)
    <2>1. refused = IF I # {} THEN Min(I) ELSE 0
      BY DEF SelectInSeq
    <2>2. CASE I # {}
      <3>1. PICK k \in I : \A j \in I : k <= j
        <4>1. I \in SUBSET Nat
          OBVIOUS
        <4> QED BY <2>2, <4>1, LeastNat
      <3>2. Min(I) \in I
        <4> HIDE DEF I
        <4> QED BY <2>2, <3>1 DEF Min
      <3> QED BY <2>1, <2>2, <3>2
    <2> QED BY <2>1, <2>2
  <1> HIDE DEF refused
  <1>3. Usable(kept)
    <2>1. /\ methods \in Seq(Methods) /\ DOMAIN methods = 1..Len(methods) /\ Len(methods) \in Nat
          /\ \A i \in 1..Len(methods) : Initialized(methods[i])
      BY <1>1 DEF Usable
    <2>2. CASE refused \in 1..Len(methods)
      <3> DEFINE r == SubSeq(methods, 1, refused - 1)
      <3>1. r \in Seq(Methods) /\ DOMAIN r = 1..(refused - 1) /\ \A i \in 1..(refused - 1) : r[i] = methods[i]
        BY <2>1, <2>2
      <3>2. \A i \in 1..(refused - 1) : i \in 1..Len(methods)
        BY <2>1, <2>2
      <3> HIDE DEF r
      <3>3. Usable(r)
        BY <2>1, <3>1, <3>2 DEF Usable
      <3> QED BY <2>2, <3>3 DEF r
    <2> QED BY <1>1, <1>2, <2>2
  <1> HIDE DEF kept
  <1>4. Laid => Usable(ms) /\ Distinct(ms) /\ (kept = <<>> => ms = <<>>)
    BY <1>3, AddedAgain
  <1>5. Laid
    BY <1>1 DEF DispInv, CplInv, Laid
  <1>6. \/ cache' = <<>>
        \/ cache' = cache /\ ms = <<>>
    BY <1>1, <1>4, <1>5
  <1> HIDE DEF ms
  <1> QED BY <1>1, <1>4, <1>6, MethodsChange

LEMMA DispatchStarts == DispatchInit => DispInv
  <1> SUFFICES ASSUME DispatchInit PROVE DispInv
    OBVIOUS
  <1>1. CplInv
    BY ClassStarts DEF DispatchInit
  <1>2. DOMAIN newSlots \subseteq DOMAIN cpl
    BY DEF DispatchInit, ClassInit
  <1>3. MethodsRight
    BY DEF DispatchInit, MethodsRight, Usable, Distinct
  <1>4. CachedRight
    BY DEF DispatchInit, CachedRight
  <1>5. AskedRight
    BY DEF DispatchInit, AskedRight
  <1> QED BY <1>1, <1>2, <1>3, <1>4, <1>5 DEF DispInv

LEMMA DispatchStepInv == DispInv /\ [DispatchNext]_dispatchVars => DispInv'
  <1> SUFFICES ASSUME DispInv, [DispatchNext]_dispatchVars PROVE DispInv'
    OBVIOUS
  <1>1. CASE ClassNext /\ UNCHANGED <<signature, methods, cache, methodCache>>
    BY <1>1, ClassStepKeeps
  <1>2. ASSUME NEW args \in ArgLists, CallGeneric(args) PROVE DispInv'
    BY <1>2, CallKeeps
  <1>3. ASSUME NEW args \in ArgLists, NEW m \in Asked, TestMethod(m, args) PROVE DispInv'
    BY <1>3, TestKeeps
  <1>4. ASSUME NEW m \in Methods, AddMethod(m) PROVE DispInv'
    BY <1>4, AddKeeps
  <1>5. ASSUME NEW m \in Methods, RemoveMethod(m) PROVE DispInv'
    BY <1>5, RemoveKeeps
  <1>6. ASSUME NEW types \in Signatures, SetSignature(types) PROVE DispInv'
    BY <1>6, SignatureKeeps
  <1>7. CASE UNCHANGED dispatchVars
    <2>1. UNCHANGED classVars /\ UNCHANGED <<signature, methods, cache, methodCache>>
      BY <1>7 DEF dispatchVars
    <2> QED BY <2>1, ClassStepKeeps
  <1> QED BY <1>1, <1>2, <1>3, <1>4, <1>5, <1>6, <1>7 DEF DispatchNext

(* The methods of a generic function are ready, no two for the same types, *)
(* and what is cached was made for a call that could be made, decides      *)
(* about each of these methods, and keeps those that apply, sorted, while  *)
(* methods and classes come and go (gf_xep, really_add_method).            *)
THEOREM DispatchInvariance == DispatchSpec => []DispInv
  BY DispatchStarts, DispatchStepInv, PTL DEF DispatchSpec

-----------------------------------------------------------------------------
(***************************************************************************)
(* What is cached is what would be found.                                  *)
(***************************************************************************)

(* An entry that accepts arguments it was made for has types that fit them. *)
LEMMA AcceptedFits ==
  ASSUME Laid, NEW a \in ArgLists, NEW args \in ArgLists, CanCall(args),
         NEW e, MadeOf(e.types, a), Len(a) = Len(args), Accepts(e, args), MadeFor(e, args)
  PROVE  \A i \in DOMAIN args : Fits(e.types[i], args[i])
  <1> SUFFICES ASSUME NEW i \in DOMAIN args PROVE Fits(e.types[i], args[i])
    OBVIOUS
  <1> DEFINE t == e.types[i]
             o == args[i]
  <1>1. ClassOf[o] \in DOMAIN cpl /\ CplsRight(superclasses, cpl)
    BY DEF CanCall, Laid
  <1>2. t.kind = "singleton" \/ t.of = ClassOf[o] \/ Plain(ClassOf[o])
    BY DEF MadeFor
  <1>3. IF t.kind = "class" THEN t = Class(ClassOf[o]) ELSE Instance(o, t)
    BY DEF Accepts
  <1>4. Instance(o, t)
    <2>1. CASE t.kind = "class"
      <3>1. t.of = ClassOf[o]
        BY <1>3, <2>1, TypesAre
      <3>2. ClassOf[o] \in Range(cpl[ClassOf[o]])
        BY <1>1, ListsAre
      <3> HIDE DEF t, o
      <3> QED BY <2>1, <3>1, <3>2, InstanceIs
    <2>2. CASE t.kind # "class"
      BY <1>3, <2>2
    <2> QED BY <2>1, <2>2
  <1> HIDE DEF t, o
  <1>5. Fits(t, o)
    BY <1>2, <1>4 DEF Fits
  <1> QED BY <1>5 DEF t, o

(* What an entry decides of a method is the same for all that it fits.     *)
LEMMA DecidedTakes ==
  ASSUME Laid, NEW a \in ArgLists, CanCall(a), NEW b \in ArgLists, CanCall(b),
         NEW types, MadeOf(types, a), \A i \in DOMAIN b : Fits(types[i], b[i]),
         NEW m \in Methods, Initialized(m), Decides(types, m, a)
  PROVE  Takes(m, a) <=> Takes(m, b)
  <1>1. /\ DOMAIN a = DOMAIN Specializers[m] /\ DOMAIN b = DOMAIN Specializers[m]
        /\ a \in Seq(Objects) /\ b \in Seq(Objects)
    BY MethodTypes
  <1>2. ASSUME NEW i \in DOMAIN a, Settles(types[i], Specializers[m][i])
        PROVE  Instance(a[i], Specializers[m][i]) <=> Instance(b[i], Specializers[m][i])
    <2>1. /\ Specializers[m][i] \in SimpleTypes /\ There(Specializers[m][i])
      BY <1>1, MethodTypes
    <2>2. /\ a[i] \in Objects /\ ClassOf[a[i]] \in DOMAIN newSlots /\ MadeOfOne(types[i], a[i])
          /\ b[i] \in Objects /\ ClassOf[b[i]] \in DOMAIN newSlots /\ Fits(types[i], b[i])
      BY <1>1 DEF CanCall, MadeOf
    <2> QED BY <1>2, <2>1, <2>2, SettledIsSame
  <1>3. CASE \A i \in DOMAIN a :
               Instance(a[i], Specializers[m][i]) /\ Settles(types[i], Specializers[m][i])
    BY <1>1, <1>2, <1>3 DEF Takes
  <1>4. CASE \E i \in DOMAIN a :
               ~ Instance(a[i], Specializers[m][i]) /\ Settles(types[i], Specializers[m][i])
    BY <1>1, <1>2, <1>4 DEF Takes
  <1> QED BY <1>3, <1>4 DEF Decides

LEMMA ArgumentsAreAlike ==
  ASSUME NEW m \in Methods, NEW a \in ArgLists, NEW b \in ArgLists
  PROVE  Len(a) = Len(b)
  BY MethodTypes

LEMMA SameSelection ==
  ASSUME Laid, Usable(methods), NEW a \in ArgLists, CanCall(a), NEW b \in ArgLists, CanCall(b),
         NEW e, MadeFrom(methods, e, a), \A i \in DOMAIN b : Fits(e.types[i], b[i])
  PROVE  e.result = SlowEntry(b).result
  <1> DEFINE T(x) == {m \in Range(methods) : Takes(m, x)}
  <1>1. /\ methods \in Seq(Methods)
        /\ \A m \in Range(methods) : m \in Methods /\ Initialized(m)
    BY DEF Usable, Range
  <1>2. \A m \in Range(methods) : Decides(e.types, m, a)
    BY DEF MadeFrom, Range
  <1>3. MadeOf(e.types, a)
    BY DEF MadeFrom
  <1>4. ASSUME NEW m \in Range(methods) PROVE Takes(m, a) <=> Takes(m, b)
    BY <1>1, <1>2, <1>3, DecidedTakes
  <1>5. T(a) = T(b)
    BY <1>4
  <1>6. ASSUME NEW m1 \in T(a), NEW m2 \in T(a)
        PROVE  Compare(m1, m2, a) = Compare(m1, m2, b)
    <2>1. /\ m1 \in Methods /\ Initialized(m1) /\ Takes(m1, a) /\ Takes(m1, b)
          /\ m2 \in Methods /\ Initialized(m2) /\ Takes(m2, a) /\ Takes(m2, b)
      BY <1>1, <1>4
    <2> QED BY <1>3, <2>1, ComparesTheSame
  <1>7. Comparisons(T(a), a) = Comparisons(T(b), b)
    <2> HIDE DEF T
    <2> QED BY <1>5, <1>6 DEF Comparisons
  <1>8. IsSelection(methods, T(a), Comparisons(T(a), a), e.result)
    BY DEF MadeFrom
  <1>9. IsSelection(methods, T(b), Comparisons(T(b), b), SlowEntry(b).result)
    BY SlowEntryIs DEF MadeFrom
  <1> HIDE DEF T
  <1> QED BY <1>1, <1>5, <1>7, <1>8, <1>9, SelectionIsOne

LEMMA CachedIsFresh == DispInv => CacheAnswersAfresh
  <1> SUFFICES ASSUME DispInv, ~ fault, NEW args \in ArgLists, CanCall(args)
               PROVE  /\ methods # <<>> => \A i \in DOMAIN cache :
                           Accepts(cache[i], args) /\ MadeFor(cache[i], args)
                             => cache[i].result = SlowEntry(args).result
                      /\ \A m \in Asked :
                           methodCache[m] # NoEntry /\ Accepts(methodCache[m], args)
                             /\ MadeFor(methodCache[m], args)
                               => methodCache[m].result = Takes(m, args)
    BY DEF CacheAnswersAfresh
  <1>1. Laid /\ Usable(methods) /\ CachedRight /\ AskedRight
    BY DEF DispInv, CplInv, Laid, MethodsRight
  <1>2. ASSUME methods # <<>>, NEW i \in DOMAIN cache,
               Accepts(cache[i], args), MadeFor(cache[i], args)
        PROVE  cache[i].result = SlowEntry(args).result
    <2>1. PICK a \in ArgLists : CanCall(a) /\ MadeFrom(methods, cache[i], a)
      BY <1>1, <1>2 DEF CachedRight
    <2>2. methods[1] \in Methods
      BY <1>1, <1>2 DEF Usable
    <2>3. Len(a) = Len(args)
      BY <2>2, ArgumentsAreAlike
    <2>4. MadeOf(cache[i].types, a)
      BY <2>1 DEF MadeFrom
    <2>5. \A j \in DOMAIN args : Fits(cache[i].types[j], args[j])
      BY <1>1, <1>2, <2>3, <2>4, AcceptedFits
    <2> QED BY <1>1, <2>1, <2>5, SameSelection
  <1>3. ASSUME NEW m \in Asked, methodCache[m] # NoEntry,
               Accepts(methodCache[m], args), MadeFor(methodCache[m], args)
        PROVE  methodCache[m].result = Takes(m, args)
    <2>1. m \in Methods /\ Initialized(m)
      BY <1>1, <1>3, DispatchAssumption DEF AskedRight
    <2>2. PICK a \in ArgLists :
            /\ CanCall(a) /\ MadeOf(methodCache[m].types, a) /\ Decides(methodCache[m].types, m, a)
            /\ methodCache[m].result = Takes(m, a)
      BY <1>1, <1>3 DEF AskedRight, Remembers
    <2>3. Len(a) = Len(args)
      BY <2>1, ArgumentsAreAlike
    <2>4. \A j \in DOMAIN args : Fits(methodCache[m].types[j], args[j])
      BY <1>1, <1>3, <2>2, <2>3, AcceptedFits
    <2>5. Takes(m, a) <=> Takes(m, args)
      BY <1>1, <2>1, <2>2, <2>4, DecidedTakes
    <2>6. Takes(m, a) = Takes(m, args)
      BY <2>5 DEF Takes
    <2> QED BY <2>2, <2>6
  <1> QED BY <1>2, <1>3

(* An answer of the cache is what the slow way would answer, and the       *)
(* cached answer of a method what its types say, whatever methods and      *)
(* classes came and went since (gf_xep, applicable_method_p).              *)
THEOREM CachedAnswersAreFresh == DispatchSpec => []CacheAnswersAfresh
  BY DispatchInvariance, CachedIsFresh, PTL

-----------------------------------------------------------------------------
(***************************************************************************)
(* What is found is sorted.                                                *)
(***************************************************************************)

(* Two members of a set make its cardinality more than one. *)
LEMMA AtMostOne ==
  ASSUME NEW S, IsFiniteSet(S), Cardinality(S) <= 1, NEW x \in S, NEW y \in S
  PROVE  x = y
  <1> SUFFICES ASSUME x # y PROVE FALSE
    OBVIOUS
  <1>1. IsFiniteSet({x}) /\ Cardinality({x}) = 1
    BY FS_Singleton
  <1>2. Cardinality({x} \cup {y}) = Cardinality({x}) + 1
    <2> DEFINE X == {x}
    <2>1. y \notin X
      OBVIOUS
    <2> HIDE DEF X
    <2>2. Cardinality(X \cup {y}) = Cardinality(X) + 1
      BY <1>1, <2>1, FS_AddElement DEF X
    <2> QED BY <2>2 DEF X
  <1>3. {x} \cup {y} \subseteq S
    OBVIOUS
  <1>4. Cardinality({x} \cup {y}) <= Cardinality(S)
    BY <1>3, FS_Subset
  <1>5. Cardinality(S) \in Nat
    BY FS_CardinalityType
  <1> QED BY <1>1, <1>2, <1>4, <1>5

LEMMA FoundIsSorted == DispInv => NextMethodsSorted
  <1> SUFFICES ASSUME DispInv, ~ fault, NEW args \in ArgLists, CanCall(args)
               PROVE
      LET found == SlowEntry(args).result
          takers == TakersOf(args)
          Over(m1, m2) == Compare(m1, m2, args) = "more"
          Rivals(m) == {o \in takers : Compare(m, o, args) = "ambiguous"}
      IN /\ Range(found.ordered) \cup found.ambiguous \subseteq takers
         /\ takers # {} => found # Nothing
         /\ \A i, j \in DOMAIN found.ordered :
              i < j => Over(found.ordered[i], found.ordered[j])
         /\ \A m \in Range(found.ordered) : \A o \in found.ambiguous : Over(m, o)
         /\ (\A m \in takers : Cardinality(Rivals(m)) <= 1) =>
              \A m \in takers : \/ m \in Range(found.ordered) \cup found.ambiguous
                                \/ \E o \in found.ambiguous : Over(o, m)
    BY DEF NextMethodsSorted
  <1> DEFINE found == SlowEntry(args).result
             T == TakersOf(args)
             R == Comparisons(T, args)
             Rivals(m) == {o \in T : Compare(m, o, args) = "ambiguous"}
  <1>1. Laid /\ Usable(methods) /\ Distinct(methods)
    BY DEF DispInv, CplInv, Laid, MethodsRight
  <1>2. /\ methods \in Seq(Methods) /\ DOMAIN methods = 1..Len(methods) /\ Len(methods) \in Nat
        /\ \A m \in Range(methods) : m \in Methods /\ Initialized(m)
    BY <1>1 DEF Usable, Range
  <1>3. IsInjective(methods)
    BY <1>1 DEF Distinct, IsInjective
  <1>4. /\ T = {m \in Range(methods) : Takes(m, args)}
        /\ T \in SUBSET Methods /\ Range(methods) \cap T = T
        /\ \A m \in T : Initialized(m) /\ Takes(m, args)
    BY <1>2 DEF TakersOf
  <1>5. \A a, b \in T : Specializers[a] = Specializers[b] => a = b
    BY <1>1, <1>4 DEF Distinct, Range
  <1>6. Orders(R, T)
    <2> HIDE DEF T
    <2> QED BY <1>1, <1>4, <1>5, ComparisonsOrder
  <1>7. \A a, b \in T : R[<<a, b>>] = Compare(a, b, args)
    BY DEF Comparisons
  <1>8. IsSelection(methods, T, R, found)
    BY <1>1, SlowEntryIs DEF MadeFrom, TakersOf
  <1>9. IsFiniteSet(T)
    <2>1. methods \in Surjection(1..Len(methods), Range(methods))
      BY <1>2 DEF Range, Surjection
    <2>2. IsFiniteSet(1..Len(methods))
      BY <1>2, FS_Interval
    <2>3. IsFiniteSet(Range(methods))
      BY <2>1, <2>2, FS_Surjection
    <2> HIDE DEF T
    <2> QED BY <1>4, <2>3, FS_Subset
  <1> HIDE DEF T, R, found
  <1>10. WellSorted(found, T, R) /\ (Quiet(R, T) => Kept(found, T, R))
    BY <1>2, <1>3, <1>4, <1>6, <1>8, SelectionInOrder
  <1>11. /\ found.ordered \in Seq(T) /\ found.ambiguous \in SUBSET T
         /\ DOMAIN found.ordered = 1..Len(found.ordered)
         /\ \A m \in Range(found.ordered) : m \in T
    BY <1>10 DEF WellSorted, Sorts, Range
  <1>12. T # {} => found # Nothing
    BY <1>10 DEF WellSorted
  <1>13. ASSUME NEW i \in DOMAIN found.ordered, NEW j \in DOMAIN found.ordered, i < j
         PROVE  Compare(found.ordered[i], found.ordered[j], args) = "more"
    <2>1. R[<<found.ordered[i], found.ordered[j]>>] = "more"
      BY <1>10, <1>11, <1>13 DEF WellSorted
    <2>2. found.ordered[i] \in T /\ found.ordered[j] \in T
      BY <1>11
    <2> QED BY <1>7, <2>1, <2>2
  <1>14. ASSUME NEW m \in Range(found.ordered), NEW o \in found.ambiguous
         PROVE  Compare(m, o, args) = "more"
    BY <1>7, <1>10, <1>11 DEF WellSorted
  <1>15. ASSUME \A m \in T : Cardinality(Rivals(m)) <= 1, NEW m \in T
         PROVE  \/ m \in Range(found.ordered) \cup found.ambiguous
                \/ \E o \in found.ambiguous : Compare(o, m, args) = "more"
    <2>1. ASSUME NEW a \in T, NEW b \in T, NEW c \in T,
                 R[<<a, b>>] = "ambiguous", R[<<a, c>>] = "ambiguous"
          PROVE  b = c
      <3>1. b \in Rivals(a) /\ c \in Rivals(a)
        BY <1>7, <2>1
      <3>2. IsFiniteSet(Rivals(a))
        BY <1>9, FS_Subset
      <3>3. Cardinality(Rivals(a)) <= 1
        BY <1>15
      <3> HIDE DEF Rivals
      <3> QED BY <3>1, <3>2, <3>3, AtMostOne
    <2>2. Quiet(R, T)
      BY <2>1 DEF Quiet
    <2>3. \/ m \in Range(found.ordered) \cup found.ambiguous
          \/ \E o \in found.ambiguous : R[<<o, m>>] = "more"
      BY <1>10, <2>2 DEF Kept
    <2> QED BY <1>7, <1>11, <2>3
  <1>16. Range(found.ordered) \cup found.ambiguous \subseteq T
    BY <1>11
  <1> QED BY <1>12, <1>13, <1>14, <1>15, <1>16 DEF found, T, Rivals

(* The methods that a call finds are sorted: each more specific than those *)
(* that follow and than the ambiguous ones, and none missing that is not   *)
(* less specific than an ambiguous one as long as ambiguities come in      *)
(* pairs (slow_sorted_applicable_methods).                                 *)
THEOREM NextMethodsInOrder == DispatchSpec => []NextMethodsSorted
  BY DispatchInvariance, FoundIsSorted, PTL

-----------------------------------------------------------------------------
(***************************************************************************)
(* The loader.                                                             *)
(***************************************************************************)

Items == {Definition(c) : c \in Classes} \cup {LoadOf(g) : g \in Files}
Forms ==
  [file : Files, step : {"defclass1", "defclass2"}, of : {Definition(c) : c \in Classes}]
    \cup [file : Files, step : {"load"}, of : Items]
Loads == [file : Files, form : Forms, called : BOOLEAN]

LoadTypes ==
  /\ stack \in [Threads -> Seq(Loads)]
  /\ everything \in Seq(Forms) /\ classForms \in Seq(Forms) /\ otherForms \in Seq(Forms)
  /\ returned \subseteq Files
  /\ overlap \in BOOLEAN

SomebodyLoads == \E t \in Threads : InLoad(t)

(* The forms that the loads of s from the d-th inwards are running. *)
RunBy(s, d) == {s[i].form : i \in d..Len(s)}

(* Of the files of the loads in s every form has gone to gone, waits in    *)
(* forms, or is run by that load or one inside it.                         *)
Accounted(s, gone, forms) ==
  \A d \in 1..Len(s) :
    FormsOf(s[d].file) \subseteq gone \cup Range(forms) \cup RunBy(s, d)

Alone == \A t, u \in Threads : InLoad(t) /\ InLoad(u) => t = u

(***************************************************************************)
(* The inductive invariant: forms wait only while somebody loads, unless   *)
(* some were left; and while threads load one at a time each form of a     *)
(* file that is being loaded is accounted for.                             *)
(***************************************************************************)
LoaderInv ==
  /\ LoadTypes
  /\ everything = <<>> \/ left # {} \/ SomebodyLoads
  /\ ~ overlap =>
       /\ Alone
       /\ \A t \in Threads : Accounted(stack[t], done \cup left, everything)
       /\ \A f \in returned : FormsOf(f) \subseteq done \cup left

-----------------------------------------------------------------------------
(* Sequences. *)

LEMMA Prefix ==
  ASSUME NEW S, NEW s \in Seq(S), NEW m \in 0..Len(s)
  PROVE  /\ SubSeq(s, 1, m) \in Seq(S) /\ Len(SubSeq(s, 1, m)) = m
         /\ \A i \in 1..m : SubSeq(s, 1, m)[i] = s[i]
  OBVIOUS

LEMMA FrontAndLast ==
  ASSUME NEW S, NEW s \in Seq(S), s # <<>>
  PROVE  /\ Len(s) \in Nat \ {0}
         /\ Last(s) = s[Len(s)] /\ Last(s) \in S
         /\ Front(s) \in Seq(S) /\ Len(Front(s)) = Len(s) - 1
         /\ \A i \in 1..(Len(s) - 1) : Front(s)[i] = s[i]
  <1> DEFINE n == Len(s)
  <1>1. n \in Nat \ {0} /\ s[n] \in S
    OBVIOUS
  <1>2. n - 1 \in 0..Len(s)
    BY <1>1
  <1> QED BY <1>1, <1>2, Prefix DEF Front, Last

(* A sequence with another last member. *)
WithLast(s, x) == Front(s) \o <<x>>

LEMMA NewLast ==
  ASSUME NEW S, NEW s \in Seq(S), s # <<>>, NEW x \in S
  PROVE  /\ WithLast(s, x) \in Seq(S) /\ Len(WithLast(s, x)) = Len(s)
         /\ WithLast(s, x)[Len(s)] = x
         /\ \A i \in 1..(Len(s) - 1) : WithLast(s, x)[i] = s[i]
  <1> DEFINE n == Len(s)
             r == Front(s)
  <1>1. /\ n \in Nat \ {0} /\ r \in Seq(S) /\ Len(r) = n - 1
        /\ \A i \in 1..(n - 1) : r[i] = s[i]
    BY FrontAndLast
  <1> HIDE DEF r, n
  <1>2. /\ r \o <<x>> \in Seq(S) /\ Len(r \o <<x>>) = n
        /\ (r \o <<x>>)[n] = x
        /\ \A i \in 1..(n - 1) : (r \o <<x>>)[i] = r[i]
    BY <1>1
  <1>3. WithLast(s, x) = r \o <<x>>
    BY DEF WithLast, r
  <1>4. /\ WithLast(s, x) \in Seq(S) /\ Len(WithLast(s, x)) = n
        /\ WithLast(s, x)[n] = x
        /\ \A i \in 1..(n - 1) : WithLast(s, x)[i] = r[i]
    BY <1>2, <1>3
  <1> QED BY <1>1, <1>4 DEF n

(* Members of sequences that are joined. *)
LEMMA JoinMembers ==
  ASSUME NEW S, NEW s \in Seq(S), NEW r \in Seq(S)
  PROVE  s \o r \in Seq(S) /\ Range(s \o r) = Range(s) \cup Range(r)
  <1>1. /\ s \o r \in Seq(S) /\ Len(s \o r) = Len(s) + Len(r)
        /\ \A i \in 1..Len(s) : (s \o r)[i] = s[i]
        /\ \A i \in 1..Len(r) : (s \o r)[Len(s) + i] = r[i]
    OBVIOUS
  <1>2. \A i \in DOMAIN (s \o r) :
          \/ i \in DOMAIN s /\ (s \o r)[i] = s[i]
          \/ i - Len(s) \in DOMAIN r /\ (s \o r)[i] = r[i - Len(s)]
    BY <1>1
  <1>3. Range(s \o r) \subseteq Range(s) \cup Range(r)
    BY <1>2 DEF Range
  <1>4. Range(s) \subseteq Range(s \o r)
    BY <1>1 DEF Range
  <1>5. ASSUME NEW i \in 1..Len(r) PROVE r[i] \in Range(s \o r)
    <2>1. Len(s) + i \in 1..Len(s \o r)
      BY <1>1
    <2> QED BY <1>1, <2>1, InQueue
  <1>6. Range(r) \subseteq Range(s \o r)
    BY <1>5, InQueue
  <1> QED BY <1>1, <1>3, <1>4, <1>6

LEMMA HeadAndTail ==
  ASSUME NEW S, NEW s \in Seq(S), s # <<>>
  PROVE  /\ Head(s) \in S /\ Tail(s) \in Seq(S)
         /\ Range(s) \subseteq {Head(s)} \cup Range(Tail(s))
  <1>1. Len(s) \in Nat \ {0} /\ Head(s) = s[1] /\ s[1] \in S
    OBVIOUS
  <1>2. /\ Tail(s) \in Seq(S) /\ Len(Tail(s)) = Len(s) - 1
        /\ \A i \in 1..(Len(s) - 1) : Tail(s)[i] = s[i + 1]
    OBVIOUS
  <1>3. ASSUME NEW i \in 2..Len(s) PROVE s[i] \in Range(Tail(s))
    <2>1. i - 1 \in 1..Len(Tail(s)) /\ s[i] = Tail(s)[i - 1]
      BY <1>1, <1>2
    <2> QED BY <1>2, <2>1, InQueue
  <1>4. ASSUME NEW i \in 1..Len(s) PROVE s[i] \in {Head(s)} \cup Range(Tail(s))
    BY <1>1, <1>3
  <1> QED BY <1>1, <1>2, <1>4, InQueue

-----------------------------------------------------------------------------
(* The forms of a file. *)
LEMMA FileForms ==
  ASSUME NEW f \in Files, NEW items \in Seq(Items)
  PROVE  CreationsIn(f, items) \in Seq(Forms) /\ FormsIn(f, items) \in Seq(Forms)
  <1> DEFINE K == {Definition(c) : c \in Classes}
             classes == SubQueue(items, K)
  <1>1. classes \in Seq(Items) /\ Range(classes) \subseteq K
    BY SubQueueMembers
  <1> HIDE DEF classes
  <1>2. /\ DOMAIN classes = 1..Len(classes) /\ Len(classes) \in Nat
        /\ \A i \in 1..Len(classes) : classes[i] \in K
    BY <1>1, InQueue
  <1>3. ASSUME NEW i \in 1..Len(classes) PROVE Creation(f, classes[i].defines) \in Forms
    <2>1. PICK c \in Classes : classes[i] = Definition(c)
      BY <1>2
    <2>2. classes[i].defines = c
      BY <2>1 DEF Definition
    <2>3. Definition(c) \in Items
      BY DEF Items
    <2> QED BY <2>2, <2>3 DEF Creation, Forms
  <1>4. CreationsIn(f, items) \in Seq(Forms)
    <2> DEFINE g == [i \in 1..Len(classes) |-> Creation(f, classes[i].defines)]
    <2>1. g \in [1..Len(classes) -> Forms]
      BY <1>3
    <2>2. CreationsIn(f, items) = g
      BY <1>2 DEF CreationsIn, classes
    <2> HIDE DEF g
    <2> QED BY <1>2, <2>1, <2>2
  <1>5. ASSUME NEW item \in Items PROVE Form(f, item) \in Forms
    BY DEF Form, Forms
  <1>6. FormsIn(f, items) \in Seq(Forms)
    <2>1. DOMAIN items = 1..Len(items) /\ Len(items) \in Nat
          /\ \A i \in 1..Len(items) : items[i] \in Items
      OBVIOUS
    <2> DEFINE g == [i \in 1..Len(items) |-> Form(f, items[i])]
    <2>2. g \in [1..Len(items) -> Forms]
      BY <1>5, <2>1
    <2>3. FormsIn(f, items) = g
      BY <2>1 DEF FormsIn
    <2> HIDE DEF g
    <2> QED BY <2>1, <2>2, <2>3
  <1> QED BY <1>4, <1>6

LEMMA Contained ==
  ASSUME NEW f \in Files
  PROVE  Contents[f] \in Seq(Items)
  BY LoaderAssumption DEF Items

-----------------------------------------------------------------------------
(***************************************************************************)
(* do_next_init.  What the loads of a thread and the queue become: either  *)
(* the innermost load takes the form at the head, or it returns.           *)
(***************************************************************************)
TakesOver(s, loads, rest, forms) ==
  /\ forms # <<>> /\ rest = Tail(forms)
  /\ s \in Seq(Loads) /\ Len(s) = Len(loads)
  /\ s[Len(s)].form = Head(forms)
  /\ s[Len(s)].file = loads[Len(loads)].file
  /\ \A i \in 1..(Len(loads) - 1) : s[i] = loads[i]

Returns(s, loads, rest, forms) ==
  /\ forms = <<>> /\ rest = <<>>
  /\ s \in Seq(Loads) /\ Len(s) = Len(loads) - 1
  /\ \A i \in 1..(Len(loads) - 1) : s[i] = loads[i]

(* The loads of a thread as do_next_init finds them: only the last one may *)
(* have no form yet.                                                       *)
Calls == [file : Files, form : Forms \cup {<<>>}, called : BOOLEAN]

LEMMA NextInit ==
  ASSUME LoadTypes, NEW t \in Threads, NEW loads \in Seq(Calls), loads # <<>>,
         \A i \in 1..(Len(loads) - 1) : loads[i] \in Loads,
         NEW forms \in Seq(Forms), DoNextInit(t, loads, forms)
  PROVE  /\ stack' \in [Threads -> Seq(Loads)] /\ everything' \in Seq(Forms)
         /\ \A u \in Threads \ {t} : stack'[u] = stack[u]
         /\ \/ TakesOver(stack'[t], loads, everything', forms) /\ returned' = returned
            \/ /\ Returns(stack'[t], loads, everything', forms)
               /\ returned' = returned \cup {loads[Len(loads)].file}
  <1> DEFINE n == Len(loads)
             x == [loads[n] EXCEPT !.form = Head(forms), !.called = FALSE]
             s == WithLast(loads, x)
  <1>1. /\ n \in Nat \ {0} /\ Last(loads) = loads[n] /\ loads[n] \in Calls
        /\ Front(loads) \in Seq(Calls) /\ Len(Front(loads)) = n - 1
        /\ \A i \in 1..(n - 1) : Front(loads)[i] = loads[i]
    BY FrontAndLast
  <1>2. CASE forms # <<>>
    <2>1. Head(forms) \in Forms /\ Tail(forms) \in Seq(Forms)
      BY <1>2, HeadAndTail
    <2>2. /\ x \in Loads /\ x \in Calls /\ x.form = Head(forms)
          /\ x.file = loads[n].file
      BY <1>1, <2>1 DEF Loads, Calls
    <2>3. /\ stack' = [stack EXCEPT ![t] = s] /\ everything' = Tail(forms)
          /\ returned' = returned
      BY <1>1, <1>2 DEF DoNextInit, WithLast
    <2> HIDE DEF x
    <2>4. /\ s \in Seq(Calls) /\ Len(s) = n /\ s[n] = x
          /\ \A i \in 1..(n - 1) : s[i] = loads[i]
      BY <2>2, NewLast
    <2> HIDE DEF s
    <2>5. s \in Seq(Loads)
      <3>1. ASSUME NEW i \in 1..n PROVE s[i] \in Loads
        <4>1. CASE i = n
          BY <2>2, <2>4, <4>1
        <4>2. CASE i # n
          <5>1. i \in 1..(n - 1)
            BY <1>1, <4>2
          <5> QED BY <2>4, <5>1
        <4> QED BY <4>1, <4>2
      <3>2. s \in [1..n -> Loads]
        BY <2>4, <3>1
      <3> QED BY <1>1, <3>2
    <2>6. stack'[t] = s /\ \A u \in Threads \ {t} : stack'[u] = stack[u]
      BY <2>3 DEF LoadTypes
    <2>7. stack' \in [Threads -> Seq(Loads)]
      BY <2>3, <2>5 DEF LoadTypes
    <2>8. TakesOver(s, loads, everything', forms)
      BY <1>2, <2>2, <2>3, <2>4, <2>5 DEF TakesOver
    <2> QED BY <2>1, <2>3, <2>6, <2>7, <2>8
  <1>3. CASE forms = <<>>
    <2> DEFINE r == Front(loads)
    <2>1. /\ stack' = [stack EXCEPT ![t] = r] /\ everything' = <<>>
          /\ returned' = returned \cup {loads[n].file}
      BY <1>1, <1>3 DEF DoNextInit
    <2>2. Len(r) = n - 1 /\ r \in Seq(Calls) /\ \A i \in 1..(n - 1) : r[i] = loads[i]
      BY <1>1
    <2> HIDE DEF r
    <2>3. r \in Seq(Loads)
      <3>1. r \in [1..(n - 1) -> Loads]
        <4>1. DOMAIN r = 1..(n - 1) /\ r = [i \in DOMAIN r |-> r[i]]
          BY <2>2
        <4>2. \A i \in 1..(n - 1) : r[i] \in Loads
          BY <1>1, <2>2
        <4> QED BY <4>1, <4>2
      <3>2. n - 1 \in Nat
        BY <1>1
      <3> QED BY <3>1, <3>2
    <2>4. stack'[t] = r /\ \A u \in Threads \ {t} : stack'[u] = stack[u]
      BY <2>1 DEF LoadTypes
    <2>5. stack' \in [Threads -> Seq(Loads)]
      BY <2>1, <2>3 DEF LoadTypes
    <2>6. Returns(r, loads, everything', forms)
      BY <1>3, <2>1, <2>2, <2>3 DEF Returns
    <2> QED BY <1>3, <2>1, <2>4, <2>5, <2>6
  <1> QED BY <1>2, <1>3

(* If the forms of every file in loads are accounted for before, counting  *)
(* what waits in forms, they are after: a form is taken by the innermost   *)
(* load, and when none waits that load's file has come to its end.         *)
LEMMA NextAccounted ==
  ASSUME NEW loads \in Seq(Calls), loads # <<>>, NEW forms \in Seq(Forms),
         NEW gone, NEW s, NEW rest,
         \A d \in 1..Len(loads) :
           FormsOf(loads[d].file)
             \subseteq gone \cup Range(forms) \cup RunBy(Front(loads), d)
  PROVE  /\ TakesOver(s, loads, rest, forms) => Accounted(s, gone, rest)
         /\ Returns(s, loads, rest, forms) =>
              /\ Accounted(s, gone, rest)
              /\ FormsOf(loads[Len(loads)].file) \subseteq gone
  <1> DEFINE n == Len(loads)
             front == Front(loads)
  <1>1. /\ n \in Nat \ {0} /\ Len(front) = n - 1
        /\ \A i \in 1..(n - 1) : front[i] = loads[i]
    BY FrontAndLast
  <1>2. \A d \in 1..n :
          FormsOf(loads[d].file) \subseteq gone \cup Range(forms) \cup RunBy(front, d)
    OBVIOUS
  <1> HIDE DEF front
  <1>3. ASSUME TakesOver(s, loads, rest, forms) PROVE Accounted(s, gone, rest)
    <2>1. Range(forms) \subseteq {Head(forms)} \cup Range(rest)
      BY <1>3, HeadAndTail DEF TakesOver
    <2>2. /\ s[n].form = Head(forms) /\ s[n].file = loads[n].file /\ Len(s) = n
          /\ \A i \in 1..(n - 1) : s[i] = loads[i]
      BY <1>3 DEF TakesOver
    <2>3. ASSUME NEW d \in 1..n
          PROVE  FormsOf(s[d].file) \subseteq gone \cup Range(rest) \cup RunBy(s, d)
      <3>1. s[d].file = loads[d].file
        <4>1. CASE d = n
          BY <2>2, <4>1
        <4>2. CASE d # n
          <5>1. d \in 1..(n - 1)
            BY <1>1, <4>2
          <5> QED BY <2>2, <5>1
        <4> QED BY <4>1, <4>2
      <3>2. RunBy(front, d) \subseteq RunBy(s, d)
        <4>1. ASSUME NEW i \in d..(n - 1) PROVE front[i].form = s[i].form /\ i \in d..n
          <5>1. i \in 1..(n - 1) /\ i \in d..n
            BY <1>1
          <5> QED BY <1>1, <2>2, <5>1
        <4> QED BY <1>1, <2>2, <4>1 DEF RunBy
      <3>3. Head(forms) \in RunBy(s, d)
        <4>1. n \in d..n
          BY <1>1
        <4> QED BY <2>2, <4>1 DEF RunBy
      <3>4. FormsOf(loads[d].file) \subseteq gone \cup Range(forms) \cup RunBy(front, d)
        BY <1>2
      <3> QED BY <2>1, <3>1, <3>2, <3>3, <3>4
    <2> QED BY <2>2, <2>3 DEF Accounted
  <1>4. ASSUME Returns(s, loads, rest, forms)
        PROVE  /\ Accounted(s, gone, rest)
               /\ FormsOf(loads[n].file) \subseteq gone
    <2>1. /\ Len(s) = n - 1 /\ \A i \in 1..(n - 1) : s[i] = loads[i]
          /\ forms = <<>> /\ rest = <<>>
      BY <1>4 DEF Returns
    <2>2. Range(forms) = {} /\ Range(rest) = {}
      BY <2>1 DEF Range
    <2>3. ASSUME NEW d \in 1..(n - 1)
          PROVE  FormsOf(s[d].file) \subseteq gone \cup Range(rest) \cup RunBy(s, d)
      <3>1. s[d].file = loads[d].file /\ d \in 1..n
        BY <1>1, <2>1
      <3>2. RunBy(front, d) \subseteq RunBy(s, d)
        <4>1. ASSUME NEW i \in d..(n - 1) PROVE front[i].form = s[i].form
          <5>1. i \in 1..(n - 1)
            BY <1>1
          <5> QED BY <1>1, <2>1, <5>1
        <4> QED BY <1>1, <2>1, <4>1 DEF RunBy
      <3> QED BY <1>2, <2>2, <3>1, <3>2
    <2>4. FormsOf(loads[n].file) \subseteq gone
      <3>1. RunBy(front, n) = {}
        BY <1>1 DEF RunBy
      <3>2. n \in 1..n
        BY <1>1
      <3> QED BY <1>2, <2>2, <3>1, <3>2
    <2> QED BY <2>1, <2>3, <2>4 DEF Accounted
  <1> QED BY <1>3, <1>4

-----------------------------------------------------------------------------
(* Leaving the loads of t from the one after depth inwards. *)
LEMMA LeaveFacts ==
  ASSUME LoadTypes, NEW t \in Threads, NEW depth \in 0..Len(stack[t]),
         Leave(t, depth)
  PROVE  /\ stack' \in [Threads -> Seq(Loads)]
         /\ \A u \in Threads \ {t} : stack'[u] = stack[u]
         /\ Len(stack'[t]) = depth
         /\ \A i \in 1..depth : stack'[t][i] = stack[t][i]
         /\ left' = left \cup RunBy(stack[t], depth + 1)
  <1>1. stack[t] \in Seq(Loads) /\ stack \in [Threads -> Seq(Loads)]
    BY DEF LoadTypes
  <1>2. /\ SubSeq(stack[t], 1, depth) \in Seq(Loads)
        /\ Len(SubSeq(stack[t], 1, depth)) = depth
        /\ \A i \in 1..depth : SubSeq(stack[t], 1, depth)[i] = stack[t][i]
    BY <1>1, Prefix
  <1>3. stack' = [stack EXCEPT ![t] = SubSeq(stack[t], 1, depth)]
    BY DEF Leave
  <1>4. left' = left \cup RunBy(stack[t], depth + 1)
    BY DEF Leave, RunBy
  <1> QED BY <1>1, <1>2, <1>3, <1>4

LEMMA LeaveInv ==
  ASSUME LoaderInv, NEW t \in Threads, InLoad(t),
         NEW depth \in 0..(Len(stack[t]) - 1), Leave(t, depth),
         UNCHANGED <<everything, returned, done, overlap>>,
         classForms' \in Seq(Forms), otherForms' \in Seq(Forms)
  PROVE  LoaderInv'
  <1>1. LoadTypes /\ stack[t] \in Seq(Loads) /\ stack[t] # <<>>
    BY DEF LoaderInv, LoadTypes, InLoad
  <1> DEFINE n == Len(stack[t])
  <1>2. n \in Nat \ {0} /\ depth \in 0..n /\ depth + 1 \in 1..n
    BY <1>1
  <1>3. /\ stack' \in [Threads -> Seq(Loads)]
        /\ \A u \in Threads \ {t} : stack'[u] = stack[u]
        /\ Len(stack'[t]) = depth
        /\ \A i \in 1..depth : stack'[t][i] = stack[t][i]
        /\ left' = left \cup RunBy(stack[t], depth + 1)
    BY <1>1, <1>2, LeaveFacts
  <1>4. LoadTypes'
    BY <1>1, <1>3 DEF LoadTypes
  <1>5. left' # {}
    <2>1. n \in (depth + 1)..n
      BY <1>2
    <2>2. stack[t][n].form \in RunBy(stack[t], depth + 1)
      BY <2>1 DEF RunBy
    <2> QED BY <1>3, <2>2
  <1>6. ASSUME ~ overlap
        PROVE  /\ Alone'
               /\ \A u \in Threads : Accounted(stack[u], done \cup left, everything)'
               /\ \A f \in returned : (FormsOf(f) \subseteq done \cup left)'
    <2>1. /\ Alone
          /\ \A u \in Threads : Accounted(stack[u], done \cup left, everything)
          /\ \A f \in returned : FormsOf(f) \subseteq done \cup left
      BY <1>6 DEF LoaderInv
    <2>2. Alone'
      BY <1>1, <1>3, <2>1 DEF Alone, InLoad
    <2>3. ASSUME NEW u \in Threads
          PROVE  Accounted(stack[u], done \cup left, everything)'
      <3>1. CASE u = t
        <4>1. ASSUME NEW d \in 1..depth
              PROVE  FormsOf(stack'[t][d].file) \subseteq
                       done \cup left' \cup Range(everything) \cup RunBy(stack'[t], d)
          <5>1. /\ d \in 1..n /\ stack'[t][d] = stack[t][d]
                /\ FormsOf(stack[t][d].file) \subseteq
                     done \cup left \cup Range(everything) \cup RunBy(stack[t], d)
            BY <1>2, <1>3, <2>1 DEF Accounted
          <5>2. RunBy(stack[t], d) \subseteq
                  RunBy(stack'[t], d) \cup RunBy(stack[t], depth + 1)
            <6>1. ASSUME NEW i \in d..n
                  PROVE  \/ i \in d..depth /\ stack[t][i] = stack'[t][i]
                         \/ i \in (depth + 1)..n
              BY <1>2, <1>3
            <6> QED BY <1>3, <6>1 DEF RunBy
          <5> QED BY <1>3, <5>1, <5>2
        <4> QED BY <1>3, <3>1, <4>1 DEF Accounted
      <3>2. CASE u # t
        BY <1>3, <2>1, <3>2 DEF Accounted
      <3> QED BY <3>1, <3>2
    <2> QED BY <1>3, <2>1, <2>2, <2>3
  <1> QED BY <1>4, <1>5, <1>6 DEF LoaderInv

(* After a step that ends in do_next_init. *)
LEMMA NextInv ==
  ASSUME LoadTypes, NEW t \in Threads, NEW loads \in Seq(Calls), loads # <<>>,
         \A i \in 1..(Len(loads) - 1) : loads[i] \in Loads,
         NEW forms \in Seq(Forms), DoNextInit(t, loads, forms),
         classForms' \in Seq(Forms), otherForms' \in Seq(Forms), overlap' \in BOOLEAN,
         ~ overlap' =>
           /\ \A u \in Threads \ {t} : stack[u] = <<>>
           /\ \A d \in 1..Len(loads) :
                FormsOf(loads[d].file)
                  \subseteq (done' \cup left') \cup Range(forms) \cup RunBy(Front(loads), d)
           /\ \A f \in returned : FormsOf(f) \subseteq done' \cup left'
  PROVE  LoaderInv'
  <1> DEFINE file == loads[Len(loads)].file
  <1>1. /\ stack' \in [Threads -> Seq(Loads)] /\ everything' \in Seq(Forms)
        /\ \A u \in Threads \ {t} : stack'[u] = stack[u]
        /\ \/ TakesOver(stack'[t], loads, everything', forms) /\ returned' = returned
           \/ /\ Returns(stack'[t], loads, everything', forms)
              /\ returned' = returned \cup {file}
    BY NextInit
  <1>2. Len(loads) \in Nat \ {0} /\ file \in Files
    <2>1. Len(loads) \in Nat \ {0} /\ loads[Len(loads)] \in Calls
      BY FrontAndLast
    <2> QED BY <2>1 DEF Calls
  <1>3. LoadTypes'
    BY <1>1, <1>2 DEF LoadTypes
  <1>4. (everything = <<>> \/ SomebodyLoads)'
    <2>1. CASE TakesOver(stack'[t], loads, everything', forms)
      <3>1. stack'[t] # <<>>
        BY <1>2, <2>1 DEF TakesOver
      <3> QED BY <3>1 DEF SomebodyLoads, InLoad
    <2>2. CASE Returns(stack'[t], loads, everything', forms)
      BY <2>2 DEF Returns
    <2> QED BY <1>1, <2>1, <2>2
  <1>5. ASSUME ~ overlap'
        PROVE  /\ Alone'
               /\ \A u \in Threads : Accounted(stack[u], done \cup left, everything)'
               /\ \A f \in returned' : (FormsOf(f) \subseteq done \cup left)'
    <2>1. \A u \in Threads \ {t} : stack'[u] = <<>>
      BY <1>1, <1>5
    <2>2. Alone'
      BY <2>1 DEF Alone, InLoad
    <2>3. /\ TakesOver(stack'[t], loads, everything', forms)
               => Accounted(stack'[t], done' \cup left', everything')
          /\ Returns(stack'[t], loads, everything', forms) =>
               /\ Accounted(stack'[t], done' \cup left', everything')
               /\ FormsOf(file) \subseteq done' \cup left'
      <3>1. \A d \in 1..Len(loads) :
              FormsOf(loads[d].file)
                \subseteq (done' \cup left') \cup Range(forms) \cup RunBy(Front(loads), d)
        BY <1>5
      <3> QED BY <3>1, NextAccounted
    <2>4. ASSUME NEW u \in Threads
          PROVE  Accounted(stack[u], done \cup left, everything)'
      <3>1. CASE u = t
        BY <1>1, <2>3, <3>1 DEF Accounted
      <3>2. CASE u # t
        <4>1. stack'[u] = <<>>
          BY <2>1, <3>2
        <4> QED BY <4>1 DEF Accounted
      <3> QED BY <3>1, <3>2
    <2>5. \A f \in returned' : (FormsOf(f) \subseteq done \cup left)'
      BY <1>1, <1>5, <2>3 DEF FormsOf
    <2> QED BY <2>2, <2>4, <2>5
  <1> QED BY <1>3, <1>4, <1>5 DEF LoaderInv

LEMMA FinishInv ==
  ASSUME LoaderInv, NEW t \in Threads, InLoad(t), Finish(t)
  PROVE  LoaderInv'
  <1> DEFINE s == stack[t]
             n == Len(s)
  <1>1. LoadTypes /\ s \in Seq(Loads) /\ s # <<>>
    BY DEF LoaderInv, LoadTypes, InLoad
  <1>2. /\ n \in Nat \ {0} /\ Last(s) = s[n] /\ Len(Front(s)) = n - 1
        /\ \A i \in 1..(n - 1) : Front(s)[i] = s[i]
    BY <1>1, FrontAndLast
  <1>3. s \in Seq(Calls) /\ \A i \in 1..n : s[i] \in Loads
    <2>1. Loads \subseteq Calls
      BY DEF Loads, Calls
    <2> QED BY <1>1, <2>1
  <1>4. /\ done' = done \cup {Last(s).form} /\ DoNextInit(t, s, everything)
        /\ UNCHANGED <<classForms, otherForms, left, overlap>>
    BY DEF Finish
  <1>5. ASSUME ~ overlap
        PROVE  /\ \A u \in Threads \ {t} : stack[u] = <<>>
               /\ \A d \in 1..n :
                    FormsOf(s[d].file)
                      \subseteq (done' \cup left') \cup Range(everything) \cup RunBy(Front(s), d)
               /\ \A f \in returned : FormsOf(f) \subseteq done' \cup left'
    <2>1. /\ Alone
          /\ Accounted(s, done \cup left, everything)
          /\ \A f \in returned : FormsOf(f) \subseteq done \cup left
      BY <1>5 DEF LoaderInv
    <2>2. \A u \in Threads \ {t} : stack[u] = <<>>
      BY <2>1 DEF Alone, InLoad
    <2>3. ASSUME NEW d \in 1..n
          PROVE  FormsOf(s[d].file)
                   \subseteq (done' \cup left') \cup Range(everything) \cup RunBy(Front(s), d)
      <3> DEFINE front == Front(s)
      <3>1. Len(front) = n - 1 /\ \A i \in 1..(n - 1) : front[i] = s[i]
        BY <1>2
      <3> HIDE DEF front
      <3>2. RunBy(s, d) \subseteq RunBy(front, d) \cup {s[n].form}
        <4>1. ASSUME NEW i \in d..n
              PROVE  i = n \/ (i \in d..(n - 1) /\ front[i] = s[i])
          BY <1>2, <3>1
        <4> QED BY <3>1, <4>1 DEF RunBy
      <3>3. FormsOf(s[d].file)
              \subseteq (done \cup left) \cup Range(everything) \cup RunBy(s, d)
        BY <2>1 DEF Accounted
      <3>4. RunBy(s, d) \subseteq RunBy(front, d) \cup done' /\ done \subseteq done' /\ left' = left
        BY <1>2, <1>4, <3>2
      <3>5. FormsOf(s[d].file)
              \subseteq (done' \cup left') \cup Range(everything) \cup RunBy(front, d)
        BY <3>3, <3>4
      <3> QED BY <3>5 DEF front
    <2> QED BY <1>4, <2>1, <2>2, <2>3
  <1>6. everything \in Seq(Forms) /\ classForms' \in Seq(Forms) /\ otherForms' \in Seq(Forms)
        /\ overlap' \in BOOLEAN /\ overlap' = overlap
    BY <1>1, <1>4 DEF LoadTypes
  <1> HIDE DEF s
  <1> QED BY SMTT(60), <1>1, <1>3, <1>4, <1>5, <1>6, NextInv

-----------------------------------------------------------------------------
(* A load that is asked for. *)

(* The loads of the thread that asks: what they run does not change. *)
LEMMA CallingFacts ==
  ASSUME LoadTypes, NEW t \in Threads
  PROVE  /\ Calling(t) \in Seq(Loads) /\ Len(Calling(t)) = Len(stack[t])
         /\ \A i \in 1..Len(stack[t]) :
              /\ Calling(t)[i].file = stack[t][i].file
              /\ Calling(t)[i].form = stack[t][i].form
  <1> DEFINE s == stack[t]
             n == Len(s)
             x == [Last(s) EXCEPT !.called = TRUE]
  <1>1. s \in Seq(Loads)
    BY DEF LoadTypes
  <1>2. CASE InLoad(t)
    <2>1. s # <<>>
      BY <1>2 DEF InLoad
    <2>2. n \in Nat \ {0} /\ Last(s) = s[n] /\ Last(s) \in Loads
      BY <1>1, <2>1, FrontAndLast
    <2>3. x \in Loads /\ x.file = s[n].file /\ x.form = s[n].form
      BY <2>2 DEF Loads
    <2>4. Calling(t) = WithLast(s, x)
      BY <1>2 DEF Calling, WithLast
    <2> HIDE DEF x
    <2>5. /\ WithLast(s, x) \in Seq(Loads) /\ Len(WithLast(s, x)) = n
          /\ WithLast(s, x)[n] = x
          /\ \A i \in 1..(n - 1) : WithLast(s, x)[i] = s[i]
      BY ZenonT(60), <1>1, <2>1, <2>3, NewLast
    <2>6. ASSUME NEW i \in 1..n
          PROVE  WithLast(s, x)[i].file = s[i].file /\ WithLast(s, x)[i].form = s[i].form
      <3>1. CASE i = n
        BY <2>3, <2>5, <3>1
      <3>2. CASE i # n
        <4>1. i \in 1..(n - 1)
          BY <2>2, <3>2
        <4> QED BY <2>5, <4>1
      <3> QED BY <3>1, <3>2
    <2> QED BY <2>4, <2>5, <2>6
  <1>3. CASE ~ InLoad(t)
    <2>1. s = <<>> /\ Calling(t) = <<>>
      BY <1>3 DEF InLoad, Calling
    <2> QED BY <2>1
  <1> QED BY <1>2, <1>3

(* With the new load added, that has no form yet. *)
NewLoads(t, f) == Append(Calling(t), [file |-> f, form |-> <<>>, called |-> FALSE])

LEMMA NewLoadsFacts ==
  ASSUME LoadTypes, NEW t \in Threads, NEW f \in Files
  PROVE  /\ NewLoads(t, f) \in Seq(Calls) /\ NewLoads(t, f) # <<>>
         /\ Len(NewLoads(t, f)) = Len(stack[t]) + 1
         /\ NewLoads(t, f)[Len(stack[t]) + 1].file = f
         /\ \A i \in 1..Len(stack[t]) :
              /\ NewLoads(t, f)[i] \in Loads
              /\ NewLoads(t, f)[i].file = stack[t][i].file
              /\ NewLoads(t, f)[i].form = stack[t][i].form
  <1> DEFINE c == Calling(t)
             y == [file |-> f, form |-> <<>>, called |-> FALSE]
             n == Len(stack[t])
  <1>1. /\ c \in Seq(Loads) /\ Len(c) = n
        /\ \A i \in 1..n : c[i].file = stack[t][i].file /\ c[i].form = stack[t][i].form
    BY CallingFacts
  <1>2. y \in Calls /\ y.file = f
    BY DEF Calls
  <1>3. NewLoads(t, f) = Append(c, y)
    BY DEF NewLoads
  <1>4. c \in Seq(Calls)
    <2>1. Loads \subseteq Calls
      BY DEF Loads, Calls
    <2> QED BY <1>1, <2>1
  <1> HIDE DEF c, y
  <1>5. /\ Append(c, y) \in Seq(Calls) /\ Len(Append(c, y)) = n + 1
        /\ Append(c, y)[n + 1] = y
        /\ \A i \in 1..n : Append(c, y)[i] = c[i] /\ c[i] \in Loads
    BY <1>1, <1>2, <1>4
  <1>6. n \in Nat
    BY <1>1
  <1>7. Append(c, y) # <<>>
    BY <1>5, <1>6
  <1> QED BY <1>1, <1>2, <1>3, <1>5, <1>7

(* The queue when the file has been read: what was waiting, and the forms  *)
(* of the file.                                                            *)
NewForms(f) ==
  everything \o classForms \o CreationsIn(f, Contents[f]) \o otherForms \o FormsIn(f, Contents[f])

LEMMA NewFormsFacts ==
  ASSUME LoadTypes, NEW f \in Files
  PROVE  /\ NewForms(f) \in Seq(Forms)
         /\ Range(everything) \subseteq Range(NewForms(f))
         /\ FormsOf(f) \subseteq Range(NewForms(f))
  <1> DEFINE a == everything
             b == classForms
             c == CreationsIn(f, Contents[f])
             d == otherForms
             e == FormsIn(f, Contents[f])
  <1>1. a \in Seq(Forms) /\ b \in Seq(Forms) /\ d \in Seq(Forms)
    BY DEF LoadTypes
  <1>2. c \in Seq(Forms) /\ e \in Seq(Forms)
    BY Contained, FileForms
  <1>3. NewForms(f) = a \o b \o c \o d \o e
    BY DEF NewForms
  <1>4. FormsOf(f) = Range(c) \cup Range(e)
    BY DEF FormsOf
  <1> HIDE DEF a, b, c, d, e
  <1> DEFINE ab == a \o b
             abc == ab \o c
             abcd == abc \o d
             all == abcd \o e
  <1>5. ab \in Seq(Forms) /\ Range(ab) = Range(a) \cup Range(b)
    BY <1>1, JoinMembers
  <1> HIDE DEF ab
  <1>6. abc \in Seq(Forms) /\ Range(abc) = Range(ab) \cup Range(c)
    BY <1>2, <1>5, JoinMembers
  <1> HIDE DEF abc
  <1>7. abcd \in Seq(Forms) /\ Range(abcd) = Range(abc) \cup Range(d)
    BY <1>1, <1>6, JoinMembers
  <1> HIDE DEF abcd
  <1>8. all \in Seq(Forms) /\ Range(all) = Range(abcd) \cup Range(e)
    BY <1>2, <1>7, JoinMembers
  <1>9. NewForms(f) = all
    BY <1>3 DEF ab, abc, abcd
  <1>10. a = everything
    BY DEF a
  <1> HIDE DEF all
  <1>11. Range(a) \subseteq Range(ab)
    BY <1>5
  <1> QED BY <1>4, <1>6, <1>7, <1>8, <1>9, <1>10, <1>11

LEMMA LoadInv ==
  ASSUME LoaderInv, NEW t \in Threads, NEW f \in Files, Load(t, f)
  PROVE  LoaderInv'
  <1> DEFINE loads == NewLoads(t, f)
             forms == NewForms(f)
             n == Len(stack[t])
  <1>1. LoadTypes /\ n \in Nat
    BY DEF LoaderInv, LoadTypes
  <1>2. /\ loads \in Seq(Calls) /\ loads # <<>> /\ Len(loads) = n + 1
        /\ loads[n + 1].file = f
        /\ \A i \in 1..n : /\ loads[i] \in Loads
                           /\ loads[i].file = stack[t][i].file
                           /\ loads[i].form = stack[t][i].form
    BY <1>1, NewLoadsFacts
  <1>3. /\ forms \in Seq(Forms)
        /\ Range(everything) \subseteq Range(forms)
        /\ FormsOf(f) \subseteq Range(forms)
    BY <1>1, NewFormsFacts
  <1>4. /\ DoNextInit(t, loads, forms)
        /\ overlap' = (overlap \/ \E u \in Threads \ {t} : InLoad(u))
        /\ classForms' = <<>> /\ otherForms' = <<>> /\ done' = done /\ left' = left
    BY DEF Load, NewLoads, NewForms
  <1> HIDE DEF loads, forms
  <1>5. ASSUME ~ overlap'
        PROVE  /\ \A u \in Threads \ {t} : stack[u] = <<>>
               /\ \A d \in 1..Len(loads) :
                    FormsOf(loads[d].file)
                      \subseteq (done' \cup left') \cup Range(forms) \cup RunBy(Front(loads), d)
               /\ \A g \in returned : FormsOf(g) \subseteq done' \cup left'
    <2>1. ~ overlap /\ \A u \in Threads \ {t} : stack[u] = <<>>
      BY <1>4, <1>5 DEF InLoad
    <2>2. /\ Accounted(stack[t], done \cup left, everything)
          /\ \A g \in returned : FormsOf(g) \subseteq done \cup left
      BY <2>1 DEF LoaderInv
    <2> DEFINE front == Front(loads)
    <2>3. Len(front) = n /\ \A i \in 1..n : front[i] = loads[i]
      <3>1. /\ Len(front) = Len(loads) - 1
            /\ \A i \in 1..(Len(loads) - 1) : front[i] = loads[i]
        BY <1>2, FrontAndLast
      <3>2. Len(loads) - 1 = n
        BY <1>1, <1>2
      <3> QED BY <3>1, <3>2
    <2> HIDE DEF front
    <2>4. ASSUME NEW d \in 1..(n + 1)
          PROVE  FormsOf(loads[d].file)
                   \subseteq (done \cup left) \cup Range(forms) \cup RunBy(front, d)
      <3>1. CASE d = n + 1
        BY <1>2, <1>3, <3>1
      <3>2. CASE d # n + 1
        <4>1. d \in 1..n
          BY <1>1, <3>2
        <4>2. RunBy(stack[t], d) \subseteq RunBy(front, d)
          <5>1. ASSUME NEW i \in d..n PROVE front[i].form = stack[t][i].form
            <6>1. i \in 1..n
              BY <4>1
            <6> QED BY <1>2, <2>3, <6>1
          <5> QED BY <2>3, <5>1 DEF RunBy
        <4>3. FormsOf(stack[t][d].file)
                \subseteq (done \cup left) \cup Range(everything) \cup RunBy(stack[t], d)
          BY <2>2, <4>1 DEF Accounted
        <4>4. loads[d].file = stack[t][d].file
          BY <1>2, <4>1
        <4> QED BY <1>3, <4>2, <4>3, <4>4
      <3> QED BY <3>1, <3>2
    <2>5. \A d \in 1..Len(loads) :
            FormsOf(loads[d].file)
              \subseteq (done' \cup left') \cup Range(forms) \cup RunBy(front, d)
      BY <1>2, <1>4, <2>4
    <2> QED BY <1>4, <2>1, <2>2, <2>5 DEF front
  <1>6. \A i \in 1..(Len(loads) - 1) : loads[i] \in Loads
    <2>1. Len(loads) - 1 = n
      BY <1>1, <1>2
    <2> QED BY <1>2, <2>1
  <1>7. classForms' \in Seq(Forms) /\ otherForms' \in Seq(Forms) /\ overlap' \in BOOLEAN
    BY <1>4
  <1> QED BY <1>1, <1>2, <1>3, <1>4, <1>5, <1>6, <1>7, NextInv

(* What was read of a file stays queued when its load fails. *)
LEMMA FailureQueues ==
  ASSUME LoadTypes, NEW t \in Threads, NEW f \in Files, LoadFails(t, f)
  PROVE  classForms' \in Seq(Forms) /\ otherForms' \in Seq(Forms)
  <1>1. PICK n \in 0 .. Len(Contents[f]) - 1 :
          /\ classForms' = classForms \o CreationsIn(f, SubSeq(Contents[f], 1, n))
          /\ otherForms' = otherForms \o FormsIn(f, SubSeq(Contents[f], 1, n))
    BY DEF LoadFails
  <1> DEFINE items == SubSeq(Contents[f], 1, n)
  <1>2. items \in Seq(Items)
    <2>1. Contents[f] \in Seq(Items)
      BY Contained
    <2>2. n \in 0..Len(Contents[f])
      BY <2>1
    <2> QED BY <2>1, <2>2, Prefix
  <1> HIDE DEF items
  <1>3. CreationsIn(f, items) \in Seq(Forms) /\ FormsIn(f, items) \in Seq(Forms)
    BY <1>2, FileForms
  <1>4. classForms \in Seq(Forms) /\ otherForms \in Seq(Forms)
    BY DEF LoadTypes
  <1>5. /\ classForms' = classForms \o CreationsIn(f, items)
        /\ otherForms' = otherForms \o FormsIn(f, items)
    BY <1>1 DEF items
  <1> QED BY <1>3, <1>4, <1>5, JoinMembers

(* Nothing but what waits to be queued changes. *)
LEMMA SameInv ==
  ASSUME LoaderInv, UNCHANGED <<everything, stack, returned, done, left, overlap>>,
         classForms' \in Seq(Forms), otherForms' \in Seq(Forms)
  PROVE  LoaderInv'
  <1>1. LoadTypes'
    BY DEF LoaderInv, LoadTypes
  <1>2. SomebodyLoads' = SomebodyLoads /\ Alone' = Alone
    BY DEF SomebodyLoads, Alone, InLoad
  <1>3. \A t \in Threads : Accounted(stack[t], done \cup left, everything)
                           <=> Accounted(stack[t], done \cup left, everything)'
    BY DEF Accounted, RunBy
  <1>4. \A f \in Files : (FormsOf(f) \subseteq done \cup left)
                            <=> (FormsOf(f) \subseteq done \cup left)'
    OBVIOUS
  <1> QED BY <1>1, <1>2, <1>3, <1>4 DEF LoaderInv, LoadTypes

LEMMA LoadFailsInv ==
  ASSUME LoaderInv, NEW t \in Threads, NEW f \in Files, LoadFails(t, f)
  PROVE  LoaderInv'
  <1>1. /\ classForms' \in Seq(Forms) /\ otherForms' \in Seq(Forms)
        /\ UNCHANGED <<everything, returned, done, overlap>>
    BY FailureQueues DEF LoadFails, LoaderInv
  <1>2. CASE InLoad(t)
    <2>1. PICK depth \in 0 .. (Len(stack[t]) - 1) : Leave(t, depth)
      BY <1>2 DEF LoadFails
    <2> QED BY <1>1, <1>2, <2>1, LeaveInv
  <1>3. CASE ~ InLoad(t)
    <2>1. UNCHANGED <<stack, left>>
      BY <1>3 DEF LoadFails
    <2> QED BY <1>1, <2>1, SameInv
  <1> QED BY <1>2, <1>3

-----------------------------------------------------------------------------
LEMMA LoaderInductive == LoaderInv /\ [LoadNext]_loadVars => LoaderInv'
  <1> SUFFICES ASSUME LoaderInv, [LoadNext]_loadVars PROVE LoaderInv'
    OBVIOUS
  <1>1. ASSUME NEW t \in Threads, NEW f \in Files, Load(t, f) PROVE LoaderInv'
    BY <1>1, LoadInv
  <1>2. ASSUME NEW t \in Threads, NEW f \in Files, LoadFails(t, f) PROVE LoaderInv'
    BY <1>2, LoadFailsInv
  <1>3. ASSUME NEW t \in Threads, RunDefinition(t) \/ EndNestedLoad(t) PROVE LoaderInv'
    <2>1. InLoad(t) /\ Finish(t)
      BY <1>3 DEF RunDefinition, EndNestedLoad, Runs
    <2> QED BY <2>1, FinishInv
  <1>4. ASSUME NEW t \in Threads, FailDefinition(t) \/ LeaveForm(t) PROVE LoaderInv'
    <2>1. /\ InLoad(t)
          /\ \E depth \in 0 .. (Len(stack[t]) - 1) : Leave(t, depth)
          /\ UNCHANGED <<queues, returned, done, overlap>>
      BY <1>4 DEF FailDefinition, LeaveForm, Runs
    <2>2. /\ UNCHANGED <<everything, returned, done, overlap>>
          /\ classForms' \in Seq(Forms) /\ otherForms' \in Seq(Forms)
      BY <2>1 DEF queues, LoaderInv, LoadTypes
    <2>3. PICK depth \in 0 .. (Len(stack[t]) - 1) : Leave(t, depth)
      BY <2>1
    <2> QED BY <2>1, <2>2, <2>3, LeaveInv
  <1>5. CASE UNCHANGED loadVars
    <2>1. /\ UNCHANGED <<everything, stack, returned, done, left, overlap>>
          /\ classForms' \in Seq(Forms) /\ otherForms' \in Seq(Forms)
      BY <1>5 DEF loadVars, queues, LoaderInv, LoadTypes
    <2> QED BY <2>1, SameInv
  <1> QED BY <1>1, <1>2, <1>3, <1>4, <1>5 DEF LoadNext

LEMMA LoaderStarts == LoadInit => LoaderInv
  <1> SUFFICES ASSUME LoadInit PROVE LoaderInv
    OBVIOUS
  <1>1. /\ everything = <<>> /\ classForms = <<>> /\ otherForms = <<>>
        /\ stack = [t \in Threads |-> <<>>] /\ returned = {} /\ overlap = FALSE
    BY DEF LoadInit
  <1>2. LoadTypes
    <2>1. \A S : <<>> \in Seq(S)
      OBVIOUS
    <2> QED BY <1>1, <2>1 DEF LoadTypes
  <1>3. \A t \in Threads : ~ InLoad(t) /\ Len(stack[t]) = 0
    BY <1>1 DEF InLoad
  <1> QED BY <1>1, <1>2, <1>3 DEF LoaderInv, Alone, Accounted

(* The queues of load.c keep track of the forms: forms wait only while a   *)
(* thread is in a load, unless some were left by an exit; and while one    *)
(* thread loads at a time, every form of a file that is being loaded has   *)
(* run, was left, waits, or is being run by that load or one it asked for. *)
THEOREM LoaderInvariance == LoadSpec => []LoaderInv
  BY LoaderStarts, LoaderInductive, PTL DEF LoadSpec

(* do_next_init returns from a load only when nothing is queued: as long   *)
(* as one thread loads at a time, a file whose load returned has no form   *)
(* that neither ran nor was cut short.                                     *)
THEOREM FilesAreLoaded == LoadSpec => []LoadedWhenReturned
  <1>1. LoaderInv => LoadedWhenReturned
    BY DEF LoaderInv, LoadedWhenReturned
  <1> QED BY <1>1, LoaderInvariance, PTL

(* Whoever loads, and in whatever order the threads take the forms: when   *)
(* no thread is in a load and none was left, the queue is empty.           *)
THEOREM QueueIsRunOff == LoadSpec => []NoFormWaits
  <1>1. LoaderInv => NoFormWaits
    BY DEF LoaderInv, NoFormWaits, SomebodyLoads
  <1> QED BY <1>1, LoaderInvariance, PTL
-----------------------------------------------------------------------------
(***************************************************************************)
(* The order of the forms.  A class is created by one form and gets its    *)
(* slots by a later one; what the first n forms of a queue do for it.      *)
(***************************************************************************)
AnyClass == Classes \cup {Root}

Makes(form, step, c) == form.step = step /\ form.of = Definition(c)
IsCreation(form, c) == Makes(form, "defclass1", c)
IsSlots(form, c) == Makes(form, "defclass2", c)

Reaches(q, n, step, c) == \E i \in 1..n : Makes(q[i], step, c)
Creates(q, n, c) == Reaches(q, n, "defclass1", c)
LaysOut(q, n, c) == Reaches(q, n, "defclass2", c)

(* The forms of files: the creations, and the other forms, with the slots  *)
(* of every class after those of the classes that were created before it.  *)
Matched(cs, fs) ==
  /\ \A i \in 1..Len(cs) : cs[i].step = "defclass1"
  /\ \A i \in 1..Len(fs) : fs[i].step # "defclass1"
  /\ \A d \in AnyClass : Creates(cs, Len(cs), d) => LaysOut(fs, Len(fs), d)
  /\ \A p \in 1..Len(fs) : \A c \in Classes : IsSlots(fs[p], c) =>
       \E i \in 1..Len(cs) :
         /\ IsCreation(cs[i], c)
         /\ \A d \in AnyClass : Creates(cs, i - 1, d) => LaysOut(fs, p - 1, d)

(* When the classes in created are there, and those in laid have slots:    *)
(* when the queue q gives a class its slots, those of the classes in its   *)
(* precedence list, which is made of the ones created before it, are laid  *)
(* out; and q leaves no class without.                                     *)
InOrder(q, created, laid, lists) ==
  /\ \A p \in 1..Len(q) : \A c \in Classes : IsSlots(q[p], c) =>
       IF c \in created
       THEN \A d \in Range(Tail(lists[c])) : d \in laid \/ LaysOut(q, p - 1, d)
       ELSE \E i \in 1..(p - 1) :
              /\ IsCreation(q[i], c)
              /\ \A d \in AnyClass :
                   d \in created \/ Creates(q, i - 1, d) => d \in laid \/ LaysOut(q, p - 1, d)
  /\ \A d \in AnyClass :
       d \in created \/ Creates(q, Len(q), d) => d \in laid \/ LaysOut(q, Len(q), d)

LEMMA JoinedAt ==
  ASSUME NEW S, NEW s \in Seq(S), NEW r \in Seq(S)
  PROVE  /\ s \o r \in Seq(S) /\ Len(s \o r) = Len(s) + Len(r)
         /\ Len(s) \in Nat /\ Len(r) \in Nat
         /\ \A i \in 1..Len(s) : (s \o r)[i] = s[i]
         /\ \A i \in 1..Len(r) : (s \o r)[Len(s) + i] = r[i]
         /\ \A i \in 1..(Len(s) + Len(r)) :
              i \in 1..Len(s) \/ \E k \in 1..Len(r) : i = Len(s) + k
  <1> DEFINE m == Len(s)
             n == Len(r)
  <1>1. m \in Nat /\ n \in Nat
    OBVIOUS
  <1>2. \A i \in 1..(m + n) : i \in 1..m \/ \E k \in 1..n : i = m + k
    <2> HIDE DEF m, n
    <2>1. ASSUME NEW i \in 1..(m + n), i \notin 1..m PROVE \E k \in 1..n : i = m + k
      <3>1. i - m \in 1..n /\ i = m + (i - m)
        BY <1>1, <2>1
      <3> QED BY <3>1
    <2> QED BY <2>1
  <1> QED BY <1>1, <1>2

LEMMA ReachesJoined ==
  ASSUME NEW S, NEW s \in Seq(S), NEW r \in Seq(S), NEW step, NEW c
  PROVE  /\ \A n \in 0..Len(s) : Reaches(s \o r, n, step, c) <=> Reaches(s, n, step, c)
         /\ \A n \in 0..Len(r) :
              Reaches(s \o r, Len(s) + n, step, c)
                <=> Reaches(s, Len(s), step, c) \/ Reaches(r, n, step, c)
  <1> DEFINE q == s \o r
             l == Len(s)
             m == Len(r)
  <1>1. /\ l \in Nat /\ m \in Nat
        /\ \A i \in 1..l : q[i] = s[i]
        /\ \A i \in 1..m : q[l + i] = r[i]
        /\ \A i \in 1..(l + m) : i \in 1..l \/ \E k \in 1..m : i = l + k
    BY JoinedAt
  <1> HIDE DEF q, l, m
  <1>2. ASSUME NEW n \in 0..l PROVE Reaches(q, n, step, c) <=> Reaches(s, n, step, c)
    <2>1. \A i \in 1..n : q[i] = s[i]
      BY <1>1
    <2> QED BY <2>1 DEF Reaches
  <1>3. ASSUME NEW n \in 0..m
        PROVE  Reaches(q, l + n, step, c) <=> Reaches(s, l, step, c) \/ Reaches(r, n, step, c)
    <2>1. ASSUME NEW i \in 1..(l + n), Makes(q[i], step, c)
          PROVE  Reaches(s, l, step, c) \/ Reaches(r, n, step, c)
      <3>1. CASE i \in 1..l
        BY <1>1, <2>1, <3>1 DEF Reaches
      <3>2. CASE i \notin 1..l
        <4>1. PICK k \in 1..m : i = l + k
          <5>1. i \in 1..(l + m)
            BY <1>1
          <5> QED BY <1>1, <3>2, <5>1
        <4>2. k \in 1..n /\ r[k] = q[i]
          BY <1>1, <4>1
        <4> QED BY <2>1, <4>2 DEF Reaches
      <3> QED BY <3>1, <3>2
    <2>2. ASSUME NEW i \in 1..l, Makes(s[i], step, c) PROVE Reaches(q, l + n, step, c)
      <3>1. i \in 1..(l + n) /\ q[i] = s[i]
        BY <1>1
      <3> QED BY <2>2, <3>1 DEF Reaches
    <2>3. ASSUME NEW i \in 1..n, Makes(r[i], step, c) PROVE Reaches(q, l + n, step, c)
      <3>1. l + i \in 1..(l + n) /\ q[l + i] = r[i]
        BY <1>1
      <3> QED BY <2>3, <3>1 DEF Reaches
    <2>4. Reaches(q, l + n, step, c) => Reaches(s, l, step, c) \/ Reaches(r, n, step, c)
      BY <2>1 DEF Reaches
    <2>5. Reaches(s, l, step, c) => Reaches(q, l + n, step, c)
      BY <2>2 DEF Reaches
    <2>6. Reaches(r, n, step, c) => Reaches(q, l + n, step, c)
      BY <2>3 DEF Reaches
    <2> QED BY <2>4, <2>5, <2>6
  <1> QED BY <1>2, <1>3 DEF q, l, m

(* The same of the creations and of the slots, of any class.               *)
LEMMA StepsJoined ==
  ASSUME NEW S, NEW s \in Seq(S), NEW r \in Seq(S)
  PROVE  /\ \A c : \A n \in 0..Len(s) :
              /\ Creates(s \o r, n, c) <=> Creates(s, n, c)
              /\ LaysOut(s \o r, n, c) <=> LaysOut(s, n, c)
         /\ \A c : \A n \in 0..Len(r) :
              /\ Creates(s \o r, Len(s) + n, c) <=> Creates(s, Len(s), c) \/ Creates(r, n, c)
              /\ LaysOut(s \o r, Len(s) + n, c) <=> LaysOut(s, Len(s), c) \/ LaysOut(r, n, c)
         /\ \A c :
              /\ Creates(s \o r, Len(s \o r), c) <=> Creates(s, Len(s), c) \/ Creates(r, Len(r), c)
              /\ LaysOut(s \o r, Len(s \o r), c) <=> LaysOut(s, Len(s), c) \/ LaysOut(r, Len(r), c)
  <1>1. /\ \A c : \A n \in 0..Len(s) :
             /\ Creates(s \o r, n, c) <=> Creates(s, n, c)
             /\ LaysOut(s \o r, n, c) <=> LaysOut(s, n, c)
        /\ \A c : \A n \in 0..Len(r) :
             /\ Creates(s \o r, Len(s) + n, c) <=> Creates(s, Len(s), c) \/ Creates(r, n, c)
             /\ LaysOut(s \o r, Len(s) + n, c) <=> LaysOut(s, Len(s), c) \/ LaysOut(r, n, c)
    BY ReachesJoined DEF Creates, LaysOut
  <1>2. Len(s \o r) = Len(s) + Len(r) /\ Len(r) \in 0..Len(r)
    OBVIOUS
  <1> QED BY <1>1, <1>2
(* The forms of one file after those of others. *)
LEMMA MatchedJoin ==
  ASSUME NEW S, NEW cs \in Seq(S), NEW fs \in Seq(S), NEW cs2 \in Seq(S), NEW fs2 \in Seq(S),
         Matched(cs, fs), Matched(cs2, fs2)
  PROVE  Matched(cs \o cs2, fs \o fs2)
  <1> DEFINE c == cs \o cs2
             f == fs \o fs2
             lc == Len(cs)
             lf == Len(fs)
  <1>1. /\ Len(c) = lc + Len(cs2) /\ lc \in Nat /\ Len(cs2) \in Nat
        /\ \A i \in 1..lc : c[i] = cs[i]
        /\ \A i \in 1..Len(cs2) : c[lc + i] = cs2[i]
        /\ \A i \in 1..(lc + Len(cs2)) : i \in 1..lc \/ \E k \in 1..Len(cs2) : i = lc + k
    BY JoinedAt
  <1>2. /\ Len(f) = lf + Len(fs2) /\ lf \in Nat /\ Len(fs2) \in Nat
        /\ \A i \in 1..lf : f[i] = fs[i]
        /\ \A i \in 1..Len(fs2) : f[lf + i] = fs2[i]
        /\ \A i \in 1..(lf + Len(fs2)) : i \in 1..lf \/ \E k \in 1..Len(fs2) : i = lf + k
    BY JoinedAt
  <1>3. /\ \A d : \A n \in 0..lc : Creates(c, n, d) <=> Creates(cs, n, d)
        /\ \A d : \A n \in 0..Len(cs2) :
             Creates(c, lc + n, d) <=> Creates(cs, lc, d) \/ Creates(cs2, n, d)
        /\ \A d : Creates(c, Len(c), d) <=> Creates(cs, lc, d) \/ Creates(cs2, Len(cs2), d)
    BY StepsJoined
  <1>4. /\ \A d : \A n \in 0..lf : LaysOut(f, n, d) <=> LaysOut(fs, n, d)
        /\ \A d : \A n \in 0..Len(fs2) :
             LaysOut(f, lf + n, d) <=> LaysOut(fs, lf, d) \/ LaysOut(fs2, n, d)
        /\ \A d : LaysOut(f, Len(f), d) <=> LaysOut(fs, lf, d) \/ LaysOut(fs2, Len(fs2), d)
    BY StepsJoined
  <1> HIDE DEF c, f, lc, lf
  <1>5. \A i \in 1..Len(c) : c[i].step = "defclass1"
    <2>1. /\ \A i \in 1..lc : cs[i].step = "defclass1"
          /\ \A i \in 1..Len(cs2) : cs2[i].step = "defclass1"
      BY DEF Matched, lc
    <2>2. ASSUME NEW i \in 1..(lc + Len(cs2)) PROVE c[i].step = "defclass1"
      <3>1. CASE i \in 1..lc
        BY <1>1, <2>1, <3>1
      <3>2. CASE i \notin 1..lc
        <4>1. PICK k \in 1..Len(cs2) : i = lc + k
          BY <1>1, <3>2
        <4> QED BY <1>1, <2>1, <4>1
      <3> QED BY <3>1, <3>2
    <2> QED BY <1>1, <2>2
  <1>6. \A i \in 1..Len(f) : f[i].step # "defclass1"
    <2>1. /\ \A i \in 1..lf : fs[i].step # "defclass1"
          /\ \A i \in 1..Len(fs2) : fs2[i].step # "defclass1"
      BY DEF Matched, lf
    <2>2. ASSUME NEW i \in 1..(lf + Len(fs2)) PROVE f[i].step # "defclass1"
      <3>1. CASE i \in 1..lf
        BY <1>2, <2>1, <3>1
      <3>2. CASE i \notin 1..lf
        <4>1. PICK k \in 1..Len(fs2) : i = lf + k
          BY <1>2, <3>2
        <4> QED BY <1>2, <2>1, <4>1
      <3> QED BY <3>1, <3>2
    <2> QED BY <1>2, <2>2
  <1>7. \A d \in AnyClass : Creates(c, Len(c), d) => LaysOut(f, Len(f), d)
    BY <1>3, <1>4 DEF Matched, lc, lf
  <1>8. ASSUME NEW p \in 1..Len(f), NEW k \in Classes, IsSlots(f[p], k)
        PROVE  \E i \in 1..Len(c) :
                 /\ IsCreation(c[i], k)
                 /\ \A d \in AnyClass : Creates(c, i - 1, d) => LaysOut(f, p - 1, d)
    <2>1. CASE p \in 1..lf
      <3>1. PICK i \in 1..lc : /\ IsCreation(cs[i], k)
                               /\ \A d \in AnyClass : Creates(cs, i - 1, d) => LaysOut(fs, p - 1, d)
        BY <1>2, <1>8, <2>1 DEF Matched, lc, lf
      <3>2. i - 1 \in 0..lc /\ p - 1 \in 0..lf /\ i \in 1..Len(c)
        BY <1>1, <1>2, <2>1
      <3>3. IsCreation(c[i], k)
        BY <1>1, <3>1
      <3>4. \A d \in AnyClass : Creates(c, i - 1, d) => LaysOut(f, p - 1, d)
        BY <1>3, <1>4, <3>1, <3>2
      <3> QED BY <3>2, <3>3, <3>4
    <2>2. CASE p \notin 1..lf
      <3>1. PICK r \in 1..Len(fs2) : p = lf + r
        BY <1>2, <2>2
      <3>2. IsSlots(fs2[r], k)
        BY <1>2, <1>8, <3>1
      <3>3. PICK j \in 1..Len(cs2) : /\ IsCreation(cs2[j], k)
                                     /\ \A d \in AnyClass :
                                          Creates(cs2, j - 1, d) => LaysOut(fs2, r - 1, d)
        BY <3>2 DEF Matched
      <3>4. /\ j - 1 \in 0..Len(cs2) /\ r - 1 \in 0..Len(fs2) /\ lc + j \in 1..Len(c)
            /\ (lc + j) - 1 = lc + (j - 1) /\ p - 1 = lf + (r - 1)
        BY <1>1, <1>2, <3>1
      <3>5. IsCreation(c[lc + j], k)
        BY <1>1, <3>3
      <3>6. \A d \in AnyClass : Creates(c, lc + (j - 1), d) => LaysOut(f, lf + (r - 1), d)
        BY <1>3, <1>4, <3>3, <3>4 DEF Matched, lc, lf
      <3> QED BY <3>4, <3>5, <3>6
    <2> QED BY <2>1, <2>2
  <1> QED BY <1>5, <1>6, <1>7, <1>8 DEF Matched, c, f

(* The forms that reading some items of a file queues. *)
LEMMA MatchedFile ==
  ASSUME NEW f \in Files, NEW items \in Seq(Items)
  PROVE  Matched(CreationsIn(f, items), FormsIn(f, items))
  <1> DEFINE K == {Definition(c) : c \in Classes}
             sub == SubQueue(items, K)
             cs == CreationsIn(f, items)
             fs == FormsIn(f, items)
  <1>1. sub \in Seq(Items) /\ Range(sub) \subseteq K
    BY SubQueueMembers
  <1> HIDE DEF K
  <1>2. /\ \A j \in 1..Len(sub) : \E m \in 1..Len(items) : sub[j] = items[m]
        /\ \A p \in 1..Len(items) : items[p] \in K =>
             \E i \in 1..Len(sub) :
               /\ sub[i] = items[p]
               /\ \A j \in 1..(i - 1) : \E m \in 1..(p - 1) : sub[j] = items[m]
    <2>1. items \in Seq(Items)
      OBVIOUS
    <2> QED BY ONLY <2>1, SubQueueOrder
  <1>3. /\ Len(sub) \in Nat /\ DOMAIN sub = 1..Len(sub)
        /\ Len(items) \in Nat /\ DOMAIN items = 1..Len(items)
    BY <1>1
  <1>4. cs = [i \in 1..Len(sub) |-> Creation(f, sub[i].defines)]
    BY <1>3 DEF CreationsIn, K
  <1>5. fs = [i \in 1..Len(items) |-> Form(f, items[i])]
    BY <1>3 DEF FormsIn
  <1>6. Len(cs) = Len(sub) /\ Len(fs) = Len(items)
    BY <1>3, <1>4, <1>5
  <1>7. ASSUME NEW i \in 1..Len(sub)
        PROVE  /\ cs[i].step = "defclass1" /\ cs[i].of = sub[i]
    <2>1. sub[i] \in K
      BY <1>1, InQueue
    <2>2. PICK c \in Classes : sub[i] = Definition(c)
      BY <2>1 DEF K
    <2>3. cs[i] = Creation(f, sub[i].defines)
      BY <1>4
    <2> QED BY <2>2, <2>3 DEF Creation, Definition
  <1>8. ASSUME NEW i \in 1..Len(items)
        PROVE  /\ fs[i].of = items[i]
               /\ fs[i].step = IF items[i] \in K THEN "defclass2" ELSE "load"
    BY <1>5 DEF Form, K
  <1>9. \A c \in AnyClass : \A i \in 1..Len(sub) : sub[i] = Definition(c) => Definition(c) \in K
    BY <1>1, InQueue
  <1> HIDE DEF sub, cs, fs
  <1>10. \A c \in AnyClass : \A m \in 1..Len(items) :
           items[m] = Definition(c) /\ Definition(c) \in K => IsSlots(fs[m], c)
    BY <1>8 DEF IsSlots, Makes
  <1>11. ASSUME NEW d \in AnyClass, Creates(cs, Len(cs), d) PROVE LaysOut(fs, Len(fs), d)
    <2>1. PICK i \in 1..Len(sub) : sub[i] = Definition(d)
      BY <1>6, <1>7, <1>11 DEF Creates, Reaches, Makes
    <2>2. PICK m \in 1..Len(items) : items[m] = Definition(d)
      BY <1>2, <2>1
    <2>3. IsSlots(fs[m], d)
      BY <1>9, <1>10, <2>1, <2>2
    <2> QED BY <1>6, <2>3 DEF LaysOut, Reaches, IsSlots
  <1>12. ASSUME NEW p \in 1..Len(fs), NEW c \in Classes, IsSlots(fs[p], c)
         PROVE  \E i \in 1..Len(cs) :
                  /\ IsCreation(cs[i], c)
                  /\ \A d \in AnyClass : Creates(cs, i - 1, d) => LaysOut(fs, p - 1, d)
    <2>1. p \in 1..Len(items) /\ items[p] = Definition(c) /\ items[p] \in K
      BY <1>6, <1>8, <1>12 DEF IsSlots, Makes, K
    <2>2. PICK i \in 1..Len(sub) :
            /\ sub[i] = items[p]
            /\ \A j \in 1..(i - 1) : \E m \in 1..(p - 1) : sub[j] = items[m]
      BY <1>2, <2>1
    <2>3. i \in 1..Len(cs) /\ IsCreation(cs[i], c)
      BY <1>6, <1>7, <2>1, <2>2 DEF IsCreation, Makes
    <2>4. ASSUME NEW d \in AnyClass, Creates(cs, i - 1, d) PROVE LaysOut(fs, p - 1, d)
      <3>1. PICK j \in 1..(i - 1) : Makes(cs[j], "defclass1", d)
        BY <2>4 DEF Creates, Reaches
      <3>2. j \in 1..Len(sub)
        BY <1>3, <2>2
      <3>3. sub[j] = Definition(d)
        BY <1>7, <3>1, <3>2 DEF Makes
      <3>4. PICK m \in 1..(p - 1) : sub[j] = items[m]
        BY <2>2
      <3>5. m \in 1..Len(items)
        BY <1>3, <2>1
      <3>6. IsSlots(fs[m], d)
        BY <1>9, <1>10, <3>2, <3>3, <3>4, <3>5
      <3> QED BY <3>4, <3>6 DEF LaysOut, Reaches, IsSlots
    <2> QED BY <2>3, <2>4
  <1>13. \A i \in 1..Len(cs) : cs[i].step = "defclass1"
    BY <1>6, <1>7
  <1>14. \A i \in 1..Len(fs) : fs[i].step # "defclass1"
    BY <1>6, <1>8
  <1> QED BY <1>11, <1>12, <1>13, <1>14 DEF Matched, cs, fs
(* The forms of files after a queue: its forms have laid out the slots of  *)
(* every class by then.                                                    *)
LEMMA QueueJoins ==
  ASSUME NEW S, NEW q \in Seq(S), NEW cs \in Seq(S), NEW fs \in Seq(S),
         NEW created \in SUBSET AnyClass, NEW laid, NEW lists,
         \A c \in created : Range(Tail(lists[c])) \subseteq created,
         InOrder(q, created, laid, lists), Matched(cs, fs)
  PROVE  InOrder((q \o cs) \o fs, created, laid, lists)
  <1> DEFINE b == q \o cs
             a == b \o fs
             l == Len(q)
             lb == Len(b)
  <1>1. b \in Seq(S) /\ a \in Seq(S)
    BY JoinedAt
  <1>2. /\ lb = l + Len(cs) /\ l \in Nat /\ Len(cs) \in Nat
        /\ \A i \in 1..l : b[i] = q[i]
        /\ \A i \in 1..Len(cs) : b[l + i] = cs[i]
        /\ \A i \in 1..(l + Len(cs)) : i \in 1..l \/ \E k \in 1..Len(cs) : i = l + k
    BY JoinedAt
  <1>3. /\ \A d : \A n \in 0..l :
             (Creates(b, n, d) <=> Creates(q, n, d)) /\ (LaysOut(b, n, d) <=> LaysOut(q, n, d))
        /\ \A d : \A n \in 0..Len(cs) :
             Creates(b, l + n, d) <=> Creates(q, l, d) \/ Creates(cs, n, d)
        /\ \A d : /\ Creates(b, lb, d) <=> Creates(q, l, d) \/ Creates(cs, Len(cs), d)
                  /\ LaysOut(b, lb, d) <=> LaysOut(q, l, d) \/ LaysOut(cs, Len(cs), d)
    BY StepsJoined
  <1>4. b \in Seq(S)
    BY <1>1
  <1> HIDE DEF b
  <1>5. /\ Len(a) = lb + Len(fs) /\ lb \in Nat /\ Len(fs) \in Nat
        /\ \A i \in 1..lb : a[i] = b[i]
        /\ \A i \in 1..Len(fs) : a[lb + i] = fs[i]
        /\ \A i \in 1..(lb + Len(fs)) : i \in 1..lb \/ \E k \in 1..Len(fs) : i = lb + k
    BY <1>4, JoinedAt
  <1>6. /\ \A d : \A n \in 0..lb :
             (Creates(a, n, d) <=> Creates(b, n, d)) /\ (LaysOut(a, n, d) <=> LaysOut(b, n, d))
        /\ \A d : \A n \in 0..Len(fs) :
             LaysOut(a, lb + n, d) <=> LaysOut(b, lb, d) \/ LaysOut(fs, n, d)
        /\ \A d : /\ Creates(a, Len(a), d) <=> Creates(b, lb, d) \/ Creates(fs, Len(fs), d)
                  /\ LaysOut(a, Len(a), d) <=> LaysOut(b, lb, d) \/ LaysOut(fs, Len(fs), d)
    BY <1>4, StepsJoined
  <1> HIDE DEF a, l, lb
  <1>7. \A d : ~ Creates(fs, Len(fs), d)
    BY DEF Matched, Creates, Reaches, Makes
  <1>8. \A d \in AnyClass : d \in created \/ Creates(q, l, d) => d \in laid \/ LaysOut(q, l, d)
    BY DEF InOrder, l
  <1>9. \A d \in AnyClass : Creates(cs, Len(cs), d) => LaysOut(fs, Len(fs), d)
    BY DEF Matched
  <1>10. ASSUME NEW d \in AnyClass, d \in created \/ Creates(a, Len(a), d)
         PROVE  d \in laid \/ LaysOut(a, Len(a), d)
    BY <1>3, <1>6, <1>7, <1>8, <1>9, <1>10
  <1>11. ASSUME NEW p \in 1..Len(a), NEW c \in Classes, IsSlots(a[p], c)
         PROVE  IF c \in created
                THEN \A d \in Range(Tail(lists[c])) : d \in laid \/ LaysOut(a, p - 1, d)
                ELSE \E i \in 1..(p - 1) :
                       /\ IsCreation(a[i], c)
                       /\ \A d \in AnyClass :
                            d \in created \/ Creates(a, i - 1, d)
                              => d \in laid \/ LaysOut(a, p - 1, d)
    <2>1. CASE p \in 1..l
      <3>1. /\ p \in 1..lb /\ a[p] = q[p]
            /\ \A n \in 0..l : n \in 0..lb
            /\ \A n \in 1..l : n \in 1..lb
        BY <1>2, <1>5, <2>1
      <3>2. \A n \in 1..l : a[n] = q[n]
        BY <1>2, <1>5, <3>1
      <3>3. \A d : \A n \in 0..l :
              (Creates(a, n, d) <=> Creates(q, n, d)) /\ (LaysOut(a, n, d) <=> LaysOut(q, n, d))
        BY <1>3, <1>6, <3>1
      <3>4. p - 1 \in 0..l /\ \A i \in 1..(p - 1) : i \in 1..l /\ i - 1 \in 0..l
        BY <1>2, <2>1
      <3>5. IsSlots(q[p], c)
        BY <1>11, <3>1
      <3>6. CASE c \in created
        <4>1. \A d \in Range(Tail(lists[c])) : d \in laid \/ LaysOut(q, p - 1, d)
          BY <2>1, <3>5, <3>6 DEF InOrder, l
        <4> QED BY <3>3, <3>4, <3>6, <4>1
      <3>7. CASE c \notin created
        <4>1. PICK i \in 1..(p - 1) :
                /\ IsCreation(q[i], c)
                /\ \A d \in AnyClass :
                     d \in created \/ Creates(q, i - 1, d) => d \in laid \/ LaysOut(q, p - 1, d)
          BY <2>1, <3>5, <3>7 DEF InOrder, l
        <4>2. IsCreation(a[i], c)
          BY <3>2, <3>4, <4>1
        <4>3. \A d \in AnyClass :
                d \in created \/ Creates(a, i - 1, d) => d \in laid \/ LaysOut(a, p - 1, d)
          BY <3>3, <3>4, <4>1
        <4> QED BY <3>7, <4>2, <4>3
      <3> QED BY <3>6, <3>7
    <2>2. CASE p \notin 1..l /\ p \in 1..lb
      <3>1. PICK k \in 1..Len(cs) : p = l + k
        BY <1>2, <2>2
      <3>2. a[p] = cs[k]
        BY <1>2, <1>5, <2>2, <3>1
      <3>3. cs[k].step = "defclass1"
        BY DEF Matched
      <3> QED BY <1>11, <3>2, <3>3 DEF IsSlots, Makes
    <2>3. CASE p \notin 1..lb
      <3>1. PICK r \in 1..Len(fs) : p = lb + r
        BY <1>5, <2>3
      <3>2. IsSlots(fs[r], c)
        BY <1>5, <1>11, <3>1
      <3>3. PICK j \in 1..Len(cs) :
              /\ IsCreation(cs[j], c)
              /\ \A d \in AnyClass : Creates(cs, j - 1, d) => LaysOut(fs, r - 1, d)
        BY <3>2 DEF Matched
      <3>4. /\ r - 1 \in 0..Len(fs) /\ p - 1 = lb + (r - 1)
            /\ j - 1 \in 0..Len(cs) /\ (l + j) - 1 = l + (j - 1)
            /\ l + j \in 1..lb /\ l + j \in 1..(p - 1) /\ l + (j - 1) \in 0..lb
        BY <1>2, <1>5, <3>1
      <3>5. \A d \in created : d \in laid \/ LaysOut(a, lb + (r - 1), d)
        BY <1>3, <1>6, <1>8, <3>4
      <3>6. CASE c \in created
        <4>1. \A d \in Range(Tail(lists[c])) : d \in created
          BY <3>6
        <4> QED BY <3>4, <3>5, <3>6, <4>1
      <3>7. CASE c \notin created
        <4>1. IsCreation(a[l + j], c)
          BY <1>2, <1>5, <3>3, <3>4
        <4>2. ASSUME NEW d \in AnyClass, d \in created \/ Creates(a, l + (j - 1), d)
              PROVE  d \in laid \/ LaysOut(a, lb + (r - 1), d)
          <5>1. d \in created \/ Creates(q, l, d) \/ Creates(cs, j - 1, d)
            BY <1>3, <1>6, <3>4, <4>2
          <5> QED BY <1>3, <1>6, <1>8, <3>3, <3>4, <5>1
        <4> QED BY <3>4, <3>7, <4>1, <4>2
      <3> QED BY <3>6, <3>7
    <2> QED BY <2>1, <2>2, <2>3
  <1> QED BY <1>10, <1>11 DEF InOrder, a, b

(* The form at the head has run: it made the class, if it was to, with a   *)
(* list of classes that were there, or laid out the slots.                 *)
LEMMA HeadRuns ==
  ASSUME NEW S, NEW x \in S, NEW r \in Seq(S),
         NEW created \in SUBSET AnyClass, NEW laid, NEW lists,
         NEW nowCreated \in SUBSET AnyClass, NEW nowLaid, NEW nowLists,
         InOrder(<<x>> \o r, created, laid, lists),
         \A c \in created : Range(Tail(lists[c])) \subseteq created,
         created \subseteq nowCreated, laid \subseteq nowLaid,
         \A c \in nowCreated \ created :
           IsCreation(x, c) /\ Range(Tail(nowLists[c])) \subseteq created,
         \A c \in AnyClass : IsCreation(x, c) => c \in nowCreated,
         \A c \in AnyClass : IsSlots(x, c) => c \in nowLaid,
         \A c \in created : nowLists[c] = lists[c]
  PROVE  InOrder(r, nowCreated, nowLaid, nowLists)
  <1> DEFINE s == <<x>>
             q == s \o r
             m == Len(r)
  <1>1. s \in Seq(S) /\ Len(s) = 1 /\ s[1] = x
    OBVIOUS
  <1> HIDE DEF s
  <1>2. /\ Len(q) = 1 + m /\ m \in Nat /\ q[1] = x
        /\ \A i \in 1..m : q[1 + i] = r[i]
    <2>1. /\ Len(s \o r) = Len(s) + Len(r) /\ Len(r) \in Nat
          /\ \A i \in 1..Len(s) : (s \o r)[i] = s[i]
          /\ \A i \in 1..Len(r) : (s \o r)[Len(s) + i] = r[i]
      BY <1>1, JoinedAt
    <2>2. 1 \in 1..Len(s)
      BY <1>1
    <2> QED BY <1>1, <2>1, <2>2
  <1>3. \A d : (Creates(s, 1, d) <=> IsCreation(x, d)) /\ (LaysOut(s, 1, d) <=> IsSlots(x, d))
    BY <1>1 DEF Creates, LaysOut, Reaches, IsCreation, IsSlots
  <1>4. \A d : \A n \in 0..m :
          /\ Creates(q, 1 + n, d) <=> IsCreation(x, d) \/ Creates(r, n, d)
          /\ LaysOut(q, 1 + n, d) <=> IsSlots(x, d) \/ LaysOut(r, n, d)
    <2>1. \A d : \A n \in 0..Len(r) :
            /\ Creates(s \o r, Len(s) + n, d) <=> Creates(s, Len(s), d) \/ Creates(r, n, d)
            /\ LaysOut(s \o r, Len(s) + n, d) <=> LaysOut(s, Len(s), d) \/ LaysOut(r, n, d)
      BY <1>1, StepsJoined
    <2> QED BY <1>1, <1>3, <2>1
  <1>5. InOrder(q, created, laid, lists)
    BY DEF s
  <1> HIDE DEF q, m
  <1>6. \A d \in AnyClass : \A n \in 0..m :
          d \in laid \/ LaysOut(q, 1 + n, d) => d \in nowLaid \/ LaysOut(r, n, d)
    BY <1>4
  <1>7. \A d \in AnyClass : \A n \in 0..m :
          d \in nowCreated \/ Creates(r, n, d) => d \in created \/ Creates(q, 1 + n, d)
    BY <1>4
  <1>8. ASSUME NEW d \in AnyClass, d \in nowCreated \/ Creates(r, m, d)
        PROVE  d \in nowLaid \/ LaysOut(r, m, d)
    <2>1. m \in 0..m
      BY <1>2
    <2>2. d \in created \/ Creates(q, Len(q), d)
      BY <1>2, <1>7, <1>8, <2>1
    <2>3. d \in laid \/ LaysOut(q, Len(q), d)
      BY <1>5, <2>2 DEF InOrder
    <2> QED BY <1>2, <1>6, <2>1, <2>3
  <1>9. ASSUME NEW p \in 1..m, NEW c \in Classes, IsSlots(r[p], c)
        PROVE  IF c \in nowCreated
               THEN \A d \in Range(Tail(nowLists[c])) : d \in nowLaid \/ LaysOut(r, p - 1, d)
               ELSE \E i \in 1..(p - 1) :
                      /\ IsCreation(r[i], c)
                      /\ \A d \in AnyClass :
                           d \in nowCreated \/ Creates(r, i - 1, d)
                             => d \in nowLaid \/ LaysOut(r, p - 1, d)
    <2>1. /\ 1 + p \in 1..Len(q) /\ (1 + p) - 1 = 1 + (p - 1) /\ p - 1 \in 0..m
          /\ IsSlots(q[1 + p], c)
      BY <1>2, <1>9
    <2>2. IF c \in created
          THEN \A d \in Range(Tail(lists[c])) : d \in laid \/ LaysOut(q, 1 + (p - 1), d)
          ELSE \E i \in 1..(1 + (p - 1)) :
                 /\ IsCreation(q[i], c)
                 /\ \A d \in AnyClass :
                      d \in created \/ Creates(q, i - 1, d)
                        => d \in laid \/ LaysOut(q, 1 + (p - 1), d)
      <3>1. \A n \in 1..Len(q) : IsSlots(q[n], c) =>
              IF c \in created
              THEN \A d \in Range(Tail(lists[c])) : d \in laid \/ LaysOut(q, n - 1, d)
              ELSE \E i \in 1..(n - 1) :
                     /\ IsCreation(q[i], c)
                     /\ \A d \in AnyClass :
                          d \in created \/ Creates(q, i - 1, d)
                            => d \in laid \/ LaysOut(q, n - 1, d)
        BY <1>5 DEF InOrder
      <3> QED BY ZenonT(30), <2>1, <3>1
    <2>3. CASE c \in created
      <3>1. \A d \in Range(Tail(lists[c])) : d \in laid \/ LaysOut(q, 1 + (p - 1), d)
        BY <2>2, <2>3
      <3>2. nowLists[c] = lists[c] /\ c \in nowCreated
        BY <2>3
      <3>3. Range(Tail(lists[c])) \subseteq AnyClass
        BY <2>3
      <3> QED BY <1>6, <2>1, <2>3, <3>1, <3>2, <3>3
    <2>4. CASE c \notin created
      <3>1. PICK i \in 1..(1 + (p - 1)) :
              /\ IsCreation(q[i], c)
              /\ \A d \in AnyClass :
                   d \in created \/ Creates(q, i - 1, d) => d \in laid \/ LaysOut(q, 1 + (p - 1), d)
        BY <2>2, <2>4
      <3>2. CASE c \in nowCreated
        <4>1. \A d \in Range(Tail(nowLists[c])) : d \in created
          BY <2>4, <3>2
        <4> QED BY <1>6, <2>1, <3>1, <3>2, <4>1
      <3>3. CASE c \notin nowCreated
        <4>1. i # 1
          BY <1>2, <3>1, <3>3 DEF AnyClass
        <4>2. i - 1 \in 1..(p - 1) /\ i = 1 + (i - 1) /\ i - 1 \in 1..m
              /\ (i - 1) - 1 \in 0..m /\ i - 1 = 1 + ((i - 1) - 1)
          BY <1>2, <3>1, <4>1
        <4>3. IsCreation(r[i - 1], c)
          BY <1>2, <3>1, <4>2
        <4>4. ASSUME NEW d \in AnyClass, d \in nowCreated \/ Creates(r, (i - 1) - 1, d)
              PROVE  d \in nowLaid \/ LaysOut(r, p - 1, d)
          <5>1. d \in created \/ Creates(q, i - 1, d)
            BY <1>7, <4>2, <4>4
          <5>2. d \in laid \/ LaysOut(q, 1 + (p - 1), d)
            BY <3>1, <5>1
          <5> QED BY <1>6, <2>1, <5>2
        <4> QED BY <3>3, <4>2, <4>3, <4>4
      <3> QED BY <3>2, <3>3
    <2> QED BY <2>3, <2>4
  <1> QED BY <1>8, <1>9 DEF InOrder, m
-----------------------------------------------------------------------------
(* What the loader does to the classes is what class definitions do.       *)
LEMMA FormOfClass ==
  ASSUME LoadTypes, NEW t \in Threads, InLoad(t)
  PROVE  /\ stack[t] \in Seq(Loads) /\ stack[t] # <<>> /\ Len(stack[t]) \in Nat \ {0}
         /\ Last(stack[t]) = stack[t][Len(stack[t])] /\ Last(stack[t]) \in Loads
         /\ Last(stack[t]).form \in Forms
         /\ Last(stack[t]).form.step \in {"defclass1", "defclass2"} =>
              \E c \in Classes : /\ Last(stack[t]).form.of = Definition(c)
                                 /\ Last(stack[t]).form.of.defines = c
  <1>1. stack[t] \in Seq(Loads) /\ stack[t] # <<>>
    BY DEF LoadTypes, InLoad
  <1> DEFINE s == stack[t]
             last == Last(s)
  <1> HIDE DEF s
  <1>2. Len(s) \in Nat \ {0} /\ last = s[Len(s)] /\ last \in Loads
    <2>1. s \in Seq(Loads) /\ s # <<>>
      BY <1>1 DEF s
    <2> QED BY <2>1, FrontAndLast
  <1> HIDE DEF last
  <1>3. last.form \in Forms
    BY <1>2 DEF Loads
  <1>4. ASSUME last.form.step \in {"defclass1", "defclass2"}
        PROVE  \E c \in Classes : last.form.of = Definition(c) /\ last.form.of.defines = c
    <2>1. last.form.of \in {Definition(c) : c \in Classes}
      BY <1>3, <1>4 DEF Forms
    <2>2. PICK c \in Classes : last.form.of = Definition(c)
      BY <2>1
    <2> QED BY <2>2 DEF Definition
  <1> QED BY <1>1, <1>2, <1>3, <1>4 DEF last, s

LEMMA LoaderDefines == LoadTypes /\ [LoadNext]_loadVars => [ClassNext]_classVars
  <1> SUFFICES ASSUME LoadTypes, [LoadNext]_loadVars PROVE [ClassNext]_classVars
    OBVIOUS
  <1>1. ASSUME NEW t \in Threads, RunDefinition(t) \/ FailDefinition(t) PROVE ClassNext
    <2> DEFINE form == Last(stack[t]).form
    <2>1. InLoad(t) /\ form.step \in {"defclass1", "defclass2"} /\ Define(form)
      BY <1>1 DEF RunDefinition, FailDefinition, Runs
    <2>2. PICK c \in Classes : form.of.defines = c
      BY <2>1, FormOfClass
    <2> HIDE DEF form
    <2>3. CASE form.step = "defclass1"
      <3>1. \E supers \in SuperChoices[c] : DefClass1(c, supers)
        BY Zenon, <2>1, <2>2, <2>3 DEF Define
      <3> QED BY <3>1 DEF ClassNext
    <2>4. CASE form.step # "defclass1"
      <3>1. \E names \in SlotChoices[c] : DefClass2(c, names)
        BY Zenon, <2>1, <2>2, <2>4 DEF Define
      <3> QED BY <3>1 DEF ClassNext
    <2> QED BY <2>3, <2>4
  <1>2. ASSUME NEW t \in Threads, NEW f \in Files, Load(t, f) \/ LoadFails(t, f)
        PROVE  UNCHANGED classVars
    BY <1>2 DEF Load, LoadFails
  <1>3. ASSUME NEW t \in Threads, EndNestedLoad(t) \/ LeaveForm(t) PROVE UNCHANGED classVars
    BY <1>3 DEF EndNestedLoad, LeaveForm
  <1>4. CASE UNCHANGED loadVars
    BY <1>4 DEF loadVars
  <1> QED BY <1>1, <1>2, <1>3, <1>4 DEF LoadNext

LEMMA LoaderCpls == LoadSpec => []CplInv
  <1>1. LoadInit => CplInv
    BY ClassStarts DEF LoadInit
  <1>2. LoaderInv => LoadTypes
    BY DEF LoaderInv
  <1> QED BY <1>1, <1>2, LoaderDefines, ClassStepInv, LoaderInvariance, PTL DEF LoadSpec

(* The precedence lists are right whatever the order in which files bring  *)
(* the definitions, and whoever is interrupted or leaves: compute_cpl sees *)
(* only classes whose superclasses are there.                              *)
THEOREM PrecedenceWhileLoading == LoadSpec => []CplIsRight
  BY LoaderCpls, CplInvMeans, PTL

-----------------------------------------------------------------------------
(* A list that obeys starts with its class. *)
LEMMA ClassIsFirst ==
  ASSUME NEW sup, Hierarchy(sup), NEW c \in DOMAIN sup,
         NEW list \in SetToSeqs(Above(sup, c)), Obeys(list, sup, Above(sup, c))
  PROVE  Range(Tail(list)) \subseteq Above(sup, c) \ {c}
  <1> DEFINE A == Above(sup, c)
  <1>1. /\ c \in A /\ A \subseteq DOMAIN sup /\ IsFiniteSet(A)
        /\ \A x \in A \ {c} : \E y \in A : x \in Range(sup[y])
    BY AboveFacts
  <1>2. \A k \in A : sup[k] \in Seq(DOMAIN sup)
    BY <1>1 DEF Hierarchy
  <1> HIDE DEF A
  <1>3. list \in Seq(A) /\ IsInjective(list) /\ Range(list) = A
    BY <1>1, OnceEach DEF A
  <1>4. list # <<>> /\ Len(list) \in Nat \ {0} /\ list[1] \in A
    <2>1. list # <<>>
      BY <1>1, <1>3 DEF Range
    <2> QED BY <1>3, <2>1
  <1>5. list[1] = c
    <2> SUFFICES ASSUME list[1] # c PROVE FALSE
      OBVIOUS
    <2>1. PICK y \in A : list[1] \in Range(sup[y])
      BY <1>1, <1>4
    <2> DEFINE D == DOMAIN sup
    <2>2. sup[y] \in Seq(D) /\ y \in D
      BY <1>1, <1>2
    <2> HIDE DEF D
    <2>3. PICK i \in 1..Len(sup[y]) : sup[y][i] = list[1]
      BY <2>1, <2>2, InQueue
    <2>4. /\ 1 \in DOMAIN Written(sup, y) /\ i + 1 \in DOMAIN Written(sup, y)
          /\ Written(sup, y)[i + 1] = list[1] /\ 1 < i + 1
      <3>1. /\ Len(sup[y]) \in Nat
            /\ DOMAIN Written(sup, y) = 1..(Len(sup[y]) + 1)
            /\ Written(sup, y)[i + 1] = sup[y][i]
        BY <2>2, WrittenFacts
      <3> QED BY <2>3, <3>1
    <2>5. Before(list, Written(sup, y)[1], list[1])
      BY <2>4 DEF Obeys, A
    <2>6. PICK m, n \in DOMAIN list : m < n /\ list[n] = list[1]
      BY <2>5 DEF Before
    <2>7. 1 \in DOMAIN list /\ DOMAIN list = 1..Len(list)
      BY <1>3, <1>4
    <2> QED BY <1>3, <2>6, <2>7 DEF IsInjective
  <1>6. /\ Tail(list) \in Seq(A) /\ Len(Tail(list)) = Len(list) - 1
        /\ \A i \in 1..(Len(list) - 1) : Tail(list)[i] = list[i + 1]
    BY <1>3, <1>4
  <1>7. ASSUME NEW x \in Range(Tail(list)) PROVE x \in A /\ x # c
    <2> DEFINE r == Tail(list)
    <2> HIDE DEF r
    <2>0. PICK i \in 1..Len(r) : r[i] = x
      <3>1. r \in Seq(A) /\ x \in Range(r)
        BY <1>6, <1>7 DEF r
      <3> QED BY <3>1, InQueue
    <2>1. i \in 1..(Len(list) - 1) /\ x = list[i + 1]
      BY <1>6, <2>0 DEF r
    <2>2. i + 1 \in DOMAIN list /\ 1 \in DOMAIN list /\ i + 1 # 1
      <3>1. DOMAIN list = 1..Len(list)
        BY <1>3
      <3> QED BY <1>4, <2>1, <3>1
    <2>3. list[i + 1] # list[1]
      BY <1>3, <2>2 DEF IsInjective
    <2> QED BY <1>3, <1>5, <2>1, <2>2, <2>3 DEF Range
  <1> QED BY <1>7 DEF A

LEMMA ListsOfMade ==
  ASSUME NEW sup, NEW lists, CplsRight(sup, lists), DOMAIN lists = DOMAIN sup
  PROVE  /\ DOMAIN sup \in SUBSET AnyClass
         /\ \A c \in DOMAIN sup : Range(Tail(lists[c])) \subseteq DOMAIN sup \ {c}
  <1>1. Hierarchy(sup) /\ DOMAIN sup \subseteq AnyClass
    BY DEF CplsRight, AnyClass
  <1>2. ASSUME NEW c \in DOMAIN sup PROVE Range(Tail(lists[c])) \subseteq DOMAIN sup \ {c}
    <2>1. lists[c] \in SetToSeqs(Above(sup, c)) /\ Obeys(lists[c], sup, Above(sup, c))
      BY DEF CplsRight, HasRightCpl
    <2>2. Range(Tail(lists[c])) \subseteq Above(sup, c) \ {c}
      BY <1>1, <2>1, ClassIsFirst
    <2>3. Above(sup, c) \subseteq DOMAIN sup
      BY DEF Above
    <2> QED BY <2>2, <2>3
  <1> QED BY <1>1, <1>2
-----------------------------------------------------------------------------
(***************************************************************************)
(* The inductive invariant of the order.  As long as one thread loads at a *)
(* time and nothing is left, the form that runs and those that wait are in *)
(* order, and so are the forms read for a load that failed.                *)
(***************************************************************************)
Ordered(q) == InOrder(q, DOMAIN superclasses, DOMAIN newSlots, cpl)

(* The form that a thread runs, with those that wait. *)
Waiting(t) == <<stack[t][Len(stack[t])].form>> \o everything

OrderInv ==
  ~ overlap /\ left = {} =>
    /\ ~ fault /\ DOMAIN cpl = DOMAIN superclasses
    /\ Matched(classForms, otherForms)
    /\ \A t \in Threads : InLoad(t) =>
         /\ Ordered(Waiting(t))
         /\ \A i \in 1..(Len(stack[t]) - 1) : stack[t][i].form.step = "load"
    /\ SomebodyLoads \/ Ordered(<<>>)

(* A class definition that is in order runs to its end. *)
LEMMA RunsWithoutFault ==
  ASSUME CplInv, ~ fault, DOMAIN cpl = DOMAIN superclasses,
         NEW x \in Forms, NEW r \in Seq(Forms), Ordered(<<x>> \o r),
         x.step \in {"defclass1", "defclass2"}, NEW c \in Classes, x.of = Definition(c),
         x.of.defines = c, Define(x), ~ fault' => Defined(x)
  PROVE  /\ ~ fault' /\ DOMAIN cpl' = DOMAIN superclasses'
         /\ InOrder(r, DOMAIN superclasses', DOMAIN newSlots', cpl')
  <1> DEFINE created == DOMAIN superclasses
             laid == DOMAIN newSlots
  <1>1. CplsRight(superclasses, cpl)
    BY DEF CplInv
  <1>2. /\ created \in SUBSET AnyClass
        /\ \A k \in created : Range(Tail(cpl[k])) \subseteq created \ {k}
    BY <1>1, ListsOfMade
  <1>3. InOrder(<<x>> \o r, created, laid, cpl)
    BY DEF Ordered
  <1>4. \A k \in AnyClass : x.of = Definition(k) => k = c
    BY DEF Definition
  <1>5. CASE x.step = "defclass1"
    <2>1. PICK supers \in SuperChoices[c] : DefClass1(c, supers)
      BY Zenon, <1>5 DEF Define
    <2>2. /\ c \notin created /\ Range(supers) \subseteq created
          /\ superclasses' = With(superclasses, c, supers) /\ newSlots' = newSlots
      BY Zenon, <2>1 DEF DefClass1
    <2>3. Len(supers) = 1 => supers[1] \in DOMAIN cpl
      <3>1. supers \in Seq(Classes \cup {Root})
        BY ClassesAssumption
      <3>2. Len(supers) = 1 => supers[1] \in Range(supers)
        BY <3>1, InQueue
      <3> QED BY <2>2, <3>2
    <2>4. fault' = fault
      BY Zenon, <2>1, <2>3 DEF DefClass1
    <2>5. PICK list : cpl' = With(cpl, c, list)
      <3>1. \E list : cpl' = cpl \/ cpl' = With(cpl, c, list)
        BY Zenon, <2>1, <2>3 DEF DefClass1
      <3>2. c \in DOMAIN cpl'
        BY <1>5, <2>4 DEF Defined
      <3> QED BY <2>2, <3>1, <3>2
    <2>6. DOMAIN cpl' = created \cup {c} /\ \A k \in created : cpl'[k] = cpl[k]
      BY <2>2, <2>5 DEF With
    <2>7. DOMAIN superclasses' = created \cup {c}
      BY <2>2 DEF With
    <2>8. CplsRight(superclasses', cpl')
      <3>1. CplInv'
        BY <2>1, DefClass1Inv
      <3> QED BY <2>4, <3>1 DEF CplInv
    <2> DEFINE nowCreated == DOMAIN superclasses'
    <2>9. /\ nowCreated \in SUBSET AnyClass
          /\ \A k \in nowCreated : Range(Tail(cpl'[k])) \subseteq nowCreated \ {k}
      BY <2>6, <2>7, <2>8, ListsOfMade
    <2>10. nowCreated = created \cup {c}
      BY <2>7
    <2> HIDE DEF nowCreated, created
    <2>11. \A k \in nowCreated \ created :
             IsCreation(x, k) /\ Range(Tail(cpl'[k])) \subseteq created
      <3>1. IsCreation(x, c)
        BY <1>5 DEF IsCreation, Makes
      <3> QED BY <2>9, <2>10, <3>1
    <2>12. \A k \in AnyClass : IsCreation(x, k) => k \in nowCreated
      BY <1>4, <2>10 DEF IsCreation, Makes
    <2>13. \A k \in AnyClass : IsSlots(x, k) => k \in laid
      BY <1>5 DEF IsSlots, Makes
    <2>14. /\ created \subseteq nowCreated /\ laid \subseteq laid
           /\ \A k \in created : cpl'[k] = cpl[k]
      BY <2>6, <2>10 DEF created
    <2> HIDE DEF laid
    <2>15. \A k \in created : Range(Tail(cpl[k])) \subseteq created
      BY <1>2
    <2>16. InOrder(r, nowCreated, laid, cpl')
      BY <1>2, <1>3, <2>9, <2>11, <2>12, <2>13, <2>14, <2>15, HeadRuns
    <2> QED BY <2>2, <2>4, <2>6, <2>7, <2>16 DEF nowCreated, laid
  <1>6. CASE x.step = "defclass2"
    <2>1. PICK names \in SlotChoices[c] : DefClass2(c, names)
      <3>1. x.step # "defclass1"
        BY <1>6
      <3> QED BY Zenon, <3>1 DEF Define
    <2>2. Prepared(c)
      <3> DEFINE q == <<x>> \o r
      <3>1. 1 \in 1..Len(q) /\ q[1] = x
        <4>1. q[1] = x /\ Len(q) = 1 + Len(r) /\ Len(r) \in Nat
          OBVIOUS
        <4> QED BY <4>1
      <3>2. IsSlots(q[1], c)
        BY <1>6, <3>1 DEF IsSlots, Makes
      <3> HIDE DEF q
      <3>3. IF c \in created
            THEN \A d \in Range(Tail(cpl[c])) : d \in laid \/ LaysOut(q, 1 - 1, d)
            ELSE \E i \in 1..(1 - 1) : IsCreation(q[i], c)
        BY <1>3, <3>1, <3>2 DEF InOrder, q
      <3>4. 1 - 1 = 0 /\ 1..0 = {} /\ \A d : ~ LaysOut(q, 0, d)
        BY DEF LaysOut, Reaches
      <3> QED BY <3>3, <3>4 DEF Prepared
    <2>3. /\ fault' = fault /\ superclasses' = superclasses /\ cpl' = cpl
          /\ newSlots' = With(newSlots, c, names)
      BY Zenon, <2>1, <2>2 DEF DefClass2
    <2>4. DOMAIN newSlots' = laid \cup {c}
      BY <2>3 DEF With
    <2> HIDE DEF created, laid
    <2>5. \A k \in AnyClass : IsCreation(x, k) => k \in created
      BY <1>6 DEF IsCreation, Makes
    <2>6. \A k \in AnyClass : IsSlots(x, k) => k \in laid \cup {c}
      BY <1>4 DEF IsSlots, Makes
    <2>7. \A k \in created : Range(Tail(cpl[k])) \subseteq created
      BY <1>2
    <2>8. created \subseteq created /\ laid \subseteq laid \cup {c} /\ created \ created = {}
          /\ \A k \in created : cpl[k] = cpl[k]
      OBVIOUS
    <2>9. InOrder(r, created, laid \cup {c}, cpl)
      BY <1>2, <1>3, <2>5, <2>6, <2>7, <2>8, HeadRuns
    <2> QED BY <2>3, <2>4, <2>9 DEF created
  <1> QED BY <1>5, <1>6

(* A form that loads has run, or is to be gone on with. *)
LEMMA LoadRuns ==
  ASSUME NEW created \in SUBSET AnyClass, NEW laid, NEW lists,
         \A k \in created : Range(Tail(lists[k])) \subseteq created,
         NEW x \in Forms, x.step = "load", NEW r \in Seq(Forms)
  PROVE  /\ InOrder(<<x>> \o r, created, laid, lists) => InOrder(r, created, laid, lists)
         /\ InOrder(<<>>, created, laid, lists) => InOrder(<<x>> \o <<>>, created, laid, lists)
  <1>1. \A k : ~ IsCreation(x, k) /\ ~ IsSlots(x, k)
    BY DEF IsCreation, IsSlots, Makes
  <1>2. ASSUME InOrder(<<x>> \o r, created, laid, lists) PROVE InOrder(r, created, laid, lists)
    <2>1. created \subseteq created /\ laid \subseteq laid /\ created \ created = {}
          /\ \A k \in created : lists[k] = lists[k]
      OBVIOUS
    <2> QED BY <1>1, <1>2, <2>1, HeadRuns
  <1>3. ASSUME InOrder(<<>>, created, laid, lists)
        PROVE  InOrder(<<x>> \o <<>>, created, laid, lists)
    <2> DEFINE q == <<x>> \o <<>>
    <2>1. Len(q) = 1 /\ q[1] = x /\ Len(<<>>) = 0
      OBVIOUS
    <2> HIDE DEF q
    <2>2. \A i \in 1..Len(q) : \A k : ~ IsCreation(q[i], k) /\ ~ IsSlots(q[i], k)
      BY <1>1, <2>1
    <2>3. \A k : ~ Creates(q, Len(q), k)
      BY <2>2 DEF Creates, Reaches, IsCreation
    <2>4. \A k : ~ Creates(<<>>, Len(<<>>), k) /\ ~ LaysOut(<<>>, Len(<<>>), k)
      BY <2>1 DEF Creates, LaysOut, Reaches
    <2>5. \A d \in AnyClass : d \in created => d \in laid
      BY <1>3, <2>4 DEF InOrder
    <2>6. InOrder(q, created, laid, lists)
      BY <2>2, <2>3, <2>5 DEF InOrder
    <2> QED BY <2>6 DEF q
  <1> QED BY <1>2, <1>3
(* do_next_init keeps the order: the next form runs with the others        *)
(* waiting, or the form that asked for the load goes on.                   *)
LEMMA NextOrder ==
  ASSUME LoadTypes, NEW t \in Threads, NEW loads \in Seq(Calls), loads # <<>>,
         \A i \in 1..(Len(loads) - 1) : loads[i] \in Loads /\ loads[i].form.step = "load",
         NEW forms \in Seq(Forms), DoNextInit(t, loads, forms),
         \A u \in Threads \ {t} : stack[u] = <<>>,
         ~ fault', DOMAIN cpl' = DOMAIN superclasses', CplsRight(superclasses', cpl'),
         Matched(classForms', otherForms'),
         InOrder(forms, DOMAIN superclasses', DOMAIN newSlots', cpl')
  PROVE  OrderInv'
  <1> DEFINE n == Len(loads)
             created == DOMAIN superclasses'
             laid == DOMAIN newSlots'
             lists == cpl'
  <1>1. n \in Nat \ {0}
    OBVIOUS
  <1>2. /\ stack' \in [Threads -> Seq(Loads)]
        /\ \A u \in Threads \ {t} : stack'[u] = <<>>
        /\ \/ TakesOver(stack'[t], loads, everything', forms)
           \/ Returns(stack'[t], loads, everything', forms)
    BY NextInit
  <1> DEFINE s == stack'[t]
             Good == /\ InOrder(<<s[Len(s)].form>> \o everything', created, laid, lists)
                     /\ \A i \in 1..(Len(s) - 1) : s[i].form.step = "load"
  <1>3. InOrder(forms, created, laid, lists) /\ \A i \in 1..(n - 1) : loads[i].form.step = "load"
    OBVIOUS
  <1>4. /\ created \in SUBSET AnyClass
        /\ \A k \in created : Range(Tail(lists[k])) \subseteq created
    BY ListsOfMade
  <1> HIDE DEF created, laid, lists
  <1>5. ASSUME TakesOver(s, loads, everything', forms) PROVE s # <<>> /\ Good
    <2>1. /\ forms # <<>> /\ everything' = Tail(forms)
          /\ s \in Seq(Loads) /\ Len(s) = n /\ s[Len(s)].form = Head(forms)
          /\ \A i \in 1..(n - 1) : s[i] = loads[i]
      BY <1>5 DEF TakesOver
    <2>2. <<Head(forms)>> \o Tail(forms) = forms
      BY <2>1
    <2>3. Good
      BY <1>3, <2>1, <2>2
    <2>4. s # <<>>
      BY <1>1, <2>1
    <2> QED BY <2>3, <2>4
  <1>6. ASSUME Returns(s, loads, everything', forms)
        PROVE  (s # <<>> => Good) /\ InOrder(<<>>, created, laid, lists)
    <2>1. /\ forms = <<>> /\ everything' = <<>>
          /\ s \in Seq(Loads) /\ Len(s) = n - 1
          /\ \A i \in 1..(n - 1) : s[i] = loads[i]
      BY <1>6 DEF Returns
    <2>2. InOrder(<<>>, created, laid, lists)
      BY <1>3, <2>1
    <2>3. ASSUME s # <<>> PROVE Good
      <3>1. n - 1 \in 1..(n - 1) /\ Len(s) \in 1..(n - 1)
            /\ \A i \in 1..(Len(s) - 1) : i \in 1..(n - 1)
        BY <1>1, <2>1, <2>3
      <3>2. s[Len(s)] \in Loads /\ s[Len(s)].form.step = "load"
        BY <1>3, <2>1, <3>1
      <3>3. s[Len(s)].form \in Forms
        BY <3>2 DEF Loads
      <3>4. InOrder(<<s[Len(s)].form>> \o <<>>, created, laid, lists)
        BY <1>4, <2>2, <3>2, <3>3, LoadRuns
      <3> QED BY <1>3, <2>1, <3>1, <3>4
    <2> QED BY <2>2, <2>3
  <1>7. (s # <<>> => Good) /\ (s # <<>> \/ InOrder(<<>>, created, laid, lists))
    <2> HIDE DEF Good, s
    <2> QED BY <1>2, <1>5, <1>6 DEF s
  <1>8. \A u \in Threads : InLoad(u)' => u = t /\ s # <<>>
    BY <1>2 DEF InLoad
  <1>9. SomebodyLoads' \/ Ordered(<<>>)'
    BY <1>7 DEF SomebodyLoads, InLoad, Ordered, created, laid, lists
  <1>10. ASSUME NEW u \in Threads, InLoad(u)'
         PROVE  /\ Ordered(Waiting(u))'
                /\ \A i \in 1..(Len(stack'[u]) - 1) : stack'[u][i].form.step = "load"
    <2>1. u = t /\ Good
      BY <1>7, <1>8, <1>10
    <2> QED BY <2>1 DEF Ordered, Waiting, created, laid, lists
  <1> QED BY <1>9, <1>10 DEF OrderInv
(* While one thread loads, the others are in no load. *)
LEMMA OnlyOne ==
  ASSUME LoaderInv, ~ overlap, NEW t \in Threads, InLoad(t)
  PROVE  \A u \in Threads \ {t} : stack[u] = <<>>
  BY DEF LoaderInv, Alone, InLoad

(* A load puts the forms of its file behind those that wait. *)
LEMMA LoadOrder ==
  ASSUME LoaderInv, CplInv, OrderInv, NEW t \in Threads, NEW f \in Files, Load(t, f)
  PROVE  OrderInv'
  <1> SUFFICES ASSUME ~ overlap', left' = {} PROVE OrderInv'
    BY DEF OrderInv
  <1> DEFINE loads == NewLoads(t, f)
             s == stack[t]
             n == Len(s)
             cs == CreationsIn(f, Contents[f])
             fs == FormsIn(f, Contents[f])
             created == DOMAIN superclasses
             laid == DOMAIN newSlots
  <1>1. LoadTypes /\ s \in Seq(Loads) /\ n \in Nat
    BY DEF LoaderInv, LoadTypes
  <1>2. /\ MayLoad(t, f) /\ DoNextInit(t, loads, NewForms(f))
        /\ classForms' = <<>> /\ otherForms' = <<>> /\ left' = left
        /\ UNCHANGED <<superclasses, cpl, newSlots, fault>>
        /\ ~ overlap /\ \A u \in Threads \ {t} : stack[u] = <<>>
    BY DEF Load, NewLoads, NewForms, InLoad, classVars
  <1>3. /\ ~ fault /\ DOMAIN cpl = created /\ Matched(classForms, otherForms)
        /\ InLoad(t) => /\ Ordered(Waiting(t))
                        /\ \A i \in 1..(n - 1) : s[i].form.step = "load"
        /\ SomebodyLoads \/ Ordered(<<>>)
    BY <1>2 DEF OrderInv
  <1>4. /\ CplsRight(superclasses, cpl) /\ created \in SUBSET AnyClass
        /\ \A k \in created : Range(Tail(cpl[k])) \subseteq created
    <2>1. CplsRight(superclasses, cpl)
      BY <1>3 DEF CplInv
    <2> QED BY <1>3, <2>1, ListsOfMade
  <1>5. everything \in Seq(Forms) /\ classForms \in Seq(Forms) /\ otherForms \in Seq(Forms)
        /\ cs \in Seq(Forms) /\ fs \in Seq(Forms)
    BY <1>1, Contained, FileForms DEF LoadTypes
  <1>6. InLoad(t) => s[n] \in Loads /\ s[n].form \in Forms /\ s[n].form.step = "load"
    <2> SUFFICES ASSUME InLoad(t)
                 PROVE  s[n] \in Loads /\ s[n].form \in Forms /\ s[n].form.step = "load"
      OBVIOUS
    <2>1. Last(s) = s[n] /\ Last(s) \in Loads /\ Last(s).form \in Forms
      BY <1>1, FormOfClass
    <2>2. Last(s).form = Form(Last(s).form.file, LoadOf(f))
      BY <1>2 DEF MayLoad
    <2>3. LoadOf(f) \notin {Definition(c) : c \in Classes}
      <3>1. \A c : DOMAIN LoadOf(f) = {"loads"} /\ DOMAIN Definition(c) = {"defines"}
        BY DEF LoadOf, Definition
      <3>2. "loads" # "defines"
        OBVIOUS
      <3> QED BY <3>1, <3>2
    <2>4. \A g : Form(g, LoadOf(f)).step = "load"
      BY <2>3 DEF Form
    <2> QED BY <2>1, <2>2, <2>4
  <1>7. InOrder(everything, created, laid, cpl)
    <2>1. CASE InLoad(t)
      <3>1. InOrder(<<s[n].form>> \o everything, created, laid, cpl)
        BY <1>3, <2>1 DEF Ordered, Waiting
      <3> HIDE DEF created, laid, s, n
      <3> QED BY <1>4, <1>5, <1>6, <2>1, <3>1, LoadRuns
    <2>2. CASE ~ InLoad(t)
      <3>1. ~ SomebodyLoads
        BY <1>2, <2>2 DEF SomebodyLoads, InLoad
      <3>2. everything = <<>>
        BY <1>2, <3>1 DEF LoaderInv
      <3> QED BY <1>3, <3>1, <3>2 DEF Ordered
    <2> QED BY <2>1, <2>2
  <1>8. InOrder(NewForms(f), created, laid, cpl)
    <2> DEFINE c == classForms \o cs
               o == otherForms \o fs
    <2>1. Matched(cs, fs)
      BY Contained, MatchedFile
    <2> HIDE DEF cs, fs, created, laid
    <2>2. Matched(c, o) /\ c \in Seq(Forms) /\ o \in Seq(Forms)
      BY <1>3, <1>5, <2>1, MatchedJoin
    <2>3. InOrder((everything \o c) \o o, created, laid, cpl)
      <3> HIDE DEF c, o
      <3> QED BY <1>4, <1>5, <1>7, <2>2, QueueJoins
    <2>4. (everything \o classForms) \o cs = everything \o c
      <3>1. everything \in Seq(Forms) /\ classForms \in Seq(Forms) /\ cs \in Seq(Forms)
        BY <1>5
      <3> QED BY ONLY <3>1, ConcatAssociative
    <2> DEFINE b == everything \o c
    <2>5. b \in Seq(Forms)
      <3> HIDE DEF c
      <3> QED BY <1>5, <2>2
    <2> HIDE DEF b
    <2>6. (b \o otherForms) \o fs = b \o o
      <3>1. otherForms \in Seq(Forms) /\ fs \in Seq(Forms)
        BY <1>5
      <3> QED BY ONLY <2>5, <3>1, ConcatAssociative
    <2>7. NewForms(f) = (b \o otherForms) \o fs
      BY <2>4 DEF NewForms, cs, fs, b
    <2> QED BY <2>3, <2>6, <2>7 DEF b
  <1>9. /\ loads \in Seq(Calls) /\ loads # <<>> /\ Len(loads) = n + 1
        /\ \A i \in 1..n : loads[i] \in Loads /\ loads[i].form = s[i].form
    BY <1>1, NewLoadsFacts
  <1>10. \A i \in 1..(Len(loads) - 1) : loads[i] \in Loads /\ loads[i].form.step = "load"
    <2>1. Len(loads) - 1 = n
      BY <1>1, <1>9
    <2>2. ASSUME NEW i \in 1..n PROVE s[i].form.step = "load"
      <3>1. InLoad(t)
        BY DEF InLoad
      <3>2. i = n \/ i \in 1..(n - 1)
        BY <1>1
      <3> QED BY <1>3, <1>6, <3>1, <3>2
    <2> QED BY <1>9, <2>1, <2>2
  <1>11. Matched(<<>>, <<>>)
    BY DEF Matched, Creates, Reaches
  <1>12. NewForms(f) \in Seq(Forms)
    BY <1>1, NewFormsFacts
  <1>13. /\ ~ fault' /\ DOMAIN cpl' = DOMAIN superclasses' /\ CplsRight(superclasses', cpl')
         /\ Matched(classForms', otherForms')
         /\ InOrder(NewForms(f), DOMAIN superclasses', DOMAIN newSlots', cpl')
    <2>1. superclasses' = superclasses /\ cpl' = cpl /\ newSlots' = newSlots
      BY <1>2
    <2>2. Matched(classForms', otherForms')
      BY <1>2, <1>11
    <2>3. InOrder(NewForms(f), DOMAIN superclasses', DOMAIN newSlots', cpl')
      BY <1>8, <2>1
    <2> QED BY <1>2, <1>3, <1>4, <2>1, <2>2, <2>3
  <1> HIDE DEF loads
  <1> QED BY <1>1, <1>2, <1>9, <1>10, <1>12, <1>13, NextOrder

(* A form that ends lets the next one run. *)
LEMMA FinishOrder ==
  ASSUME LoaderInv, OrderInv, NEW t \in Threads, InLoad(t), Finish(t),
         ~ overlap', left' = {},
         ~ fault', DOMAIN cpl' = DOMAIN superclasses', CplsRight(superclasses', cpl'),
         InOrder(everything, DOMAIN superclasses', DOMAIN newSlots', cpl')
  PROVE  OrderInv'
  <1> DEFINE s == stack[t]
             n == Len(s)
  <1>1. /\ LoadTypes /\ s \in Seq(Loads) /\ s # <<>> /\ n \in Nat \ {0}
        /\ everything \in Seq(Forms)
    BY FormOfClass DEF LoaderInv, LoadTypes
  <1>2. /\ DoNextInit(t, s, everything)
        /\ classForms' = classForms /\ otherForms' = otherForms
        /\ ~ overlap /\ left = {}
    BY DEF Finish
  <1>3. /\ Matched(classForms, otherForms)
        /\ \A i \in 1..(n - 1) : s[i].form.step = "load"
    BY <1>2 DEF OrderInv
  <1>4. \A u \in Threads \ {t} : stack[u] = <<>>
    BY <1>2, OnlyOne
  <1>5. s \in Seq(Calls) /\ \A i \in 1..(n - 1) : s[i] \in Loads
    <2>1. Loads \subseteq Calls
      BY DEF Loads, Calls
    <2>2. \A i \in 1..(n - 1) : i \in 1..n
      BY <1>1
    <2> QED BY <1>1, <2>1, <2>2
  <1>6. Matched(classForms', otherForms')
    BY <1>2, <1>3
  <1> HIDE DEF s
  <1> QED BY <1>1, <1>2, <1>3, <1>4, <1>5, <1>6, NextOrder

LEMMA DefinitionOrder ==
  ASSUME LoaderInv, CplInv, OrderInv, NEW t \in Threads, RunDefinition(t),
         CplInv'
  PROVE  OrderInv'
  <1> SUFFICES ASSUME ~ overlap', left' = {} PROVE OrderInv'
    BY DEF OrderInv
  <1> DEFINE x == Last(stack[t]).form
  <1>1. /\ LoadTypes /\ InLoad(t) /\ x.step \in {"defclass1", "defclass2"}
        /\ Define(x) /\ (~ fault' => Defined(x)) /\ Finish(t)
    BY DEF RunDefinition, Runs, LoaderInv
  <1>2. ~ overlap /\ left = {}
    BY <1>1 DEF Finish
  <1>3. /\ ~ fault /\ DOMAIN cpl = DOMAIN superclasses /\ Ordered(Waiting(t))
    BY <1>1, <1>2 DEF OrderInv
  <1>4. /\ Last(stack[t]) = stack[t][Len(stack[t])] /\ x \in Forms
        /\ \E c \in Classes : x.of = Definition(c) /\ x.of.defines = c
    BY <1>1, FormOfClass
  <1>5. Ordered(<<x>> \o everything)
    BY <1>3, <1>4 DEF Waiting
  <1> HIDE DEF x
  <1>6. PICK c \in Classes : x.of = Definition(c) /\ x.of.defines = c
    BY <1>4
  <1>7. everything \in Seq(Forms)
    BY <1>1 DEF LoadTypes
  <1>8. /\ ~ fault' /\ DOMAIN cpl' = DOMAIN superclasses'
        /\ InOrder(everything, DOMAIN superclasses', DOMAIN newSlots', cpl')
    BY <1>1, <1>3, <1>4, <1>5, <1>6, <1>7, RunsWithoutFault
  <1>9. CplsRight(superclasses', cpl')
    BY <1>8 DEF CplInv
  <1> QED BY <1>1, <1>8, <1>9, FinishOrder

LEMMA NestedLoadOrder ==
  ASSUME LoaderInv, CplInv, OrderInv, NEW t \in Threads, EndNestedLoad(t)
  PROVE  OrderInv'
  <1> SUFFICES ASSUME ~ overlap', left' = {} PROVE OrderInv'
    BY DEF OrderInv
  <1> DEFINE x == Last(stack[t]).form
  <1>1. /\ LoadTypes /\ InLoad(t) /\ x.step = "load" /\ Finish(t)
        /\ UNCHANGED <<superclasses, cpl, newSlots, fault>>
    BY DEF EndNestedLoad, Runs, LoaderInv, classVars
  <1>2. ~ overlap /\ left = {}
    BY <1>1 DEF Finish
  <1>3. /\ ~ fault /\ DOMAIN cpl = DOMAIN superclasses /\ Ordered(Waiting(t))
    BY <1>1, <1>2 DEF OrderInv
  <1>4. Last(stack[t]) = stack[t][Len(stack[t])] /\ x \in Forms
    BY <1>1, FormOfClass
  <1>5. Ordered(<<x>> \o everything)
    BY <1>3, <1>4 DEF Waiting
  <1> HIDE DEF x
  <1>6. CplsRight(superclasses, cpl)
    BY <1>3 DEF CplInv
  <1>7. /\ DOMAIN superclasses \in SUBSET AnyClass
        /\ \A k \in DOMAIN superclasses : Range(Tail(cpl[k])) \subseteq DOMAIN superclasses
    BY <1>3, <1>6, ListsOfMade
  <1>8. everything \in Seq(Forms)
    BY <1>1 DEF LoadTypes
  <1>9. InOrder(everything, DOMAIN superclasses, DOMAIN newSlots, cpl)
    BY <1>1, <1>4, <1>5, <1>7, <1>8, LoadRuns DEF Ordered
  <1>10. /\ ~ fault' /\ DOMAIN cpl' = DOMAIN superclasses' /\ CplsRight(superclasses', cpl')
         /\ InOrder(everything, DOMAIN superclasses', DOMAIN newSlots', cpl')
    <2>1. superclasses' = superclasses /\ cpl' = cpl /\ newSlots' = newSlots /\ fault' = fault
      BY <1>1
    <2> QED BY <1>3, <1>6, <1>9, <2>1
  <1> QED BY <1>1, <1>10, FinishOrder

(* When the inner loads are left, something is left. *)
LEMMA LeavingLeaves ==
  ASSUME LoadTypes, NEW t \in Threads, InLoad(t),
         NEW depth \in 0..(Len(stack[t]) - 1), Leave(t, depth)
  PROVE  left' # {}
  <1> DEFINE n == Len(stack[t])
  <1>1. n \in Nat \ {0}
    BY FormOfClass
  <1>2. n \in (depth + 1)..n
    BY <1>1
  <1> QED BY <1>2 DEF Leave

(* What was read before an error joins what is queued. *)
LEMMA LoadFailsOrder ==
  ASSUME LoaderInv, OrderInv, NEW t \in Threads, NEW f \in Files, LoadFails(t, f)
  PROVE  OrderInv'
  <1> SUFFICES ASSUME ~ overlap', left' = {} PROVE OrderInv'
    BY DEF OrderInv
  <1>1. LoadTypes
    BY DEF LoaderInv
  <1>2. ~ InLoad(t)
    <2> SUFFICES ASSUME InLoad(t) PROVE FALSE
      OBVIOUS
    <2>1. PICK depth \in 0 .. (Len(stack[t]) - 1) : Leave(t, depth)
      BY DEF LoadFails
    <2> QED BY <1>1, <2>1, LeavingLeaves
  <1>3. /\ UNCHANGED <<stack, left, everything, overlap>>
        /\ UNCHANGED <<superclasses, cpl, newSlots, fault>>
    BY <1>2 DEF LoadFails, classVars
  <1>4. PICK n \in 0 .. Len(Contents[f]) - 1 :
          /\ classForms' = classForms \o CreationsIn(f, SubSeq(Contents[f], 1, n))
          /\ otherForms' = otherForms \o FormsIn(f, SubSeq(Contents[f], 1, n))
    BY DEF LoadFails
  <1> DEFINE items == SubSeq(Contents[f], 1, n)
  <1>5. items \in Seq(Items)
    <2>1. Contents[f] \in Seq(Items)
      BY Contained
    <2>2. n \in 0..Len(Contents[f])
      BY <2>1
    <2> QED BY <2>1, <2>2, Prefix
  <1> HIDE DEF items
  <1>6. /\ CreationsIn(f, items) \in Seq(Forms) /\ FormsIn(f, items) \in Seq(Forms)
        /\ Matched(CreationsIn(f, items), FormsIn(f, items))
    BY <1>5, FileForms, MatchedFile
  <1>7. classForms \in Seq(Forms) /\ otherForms \in Seq(Forms)
    BY <1>1 DEF LoadTypes
  <1>8. Matched(classForms, otherForms)
    BY <1>3 DEF OrderInv
  <1>9. Matched(classForms', otherForms')
    <2>1. /\ classForms' = classForms \o CreationsIn(f, items)
          /\ otherForms' = otherForms \o FormsIn(f, items)
      BY <1>4 DEF items
    <2> QED BY <1>6, <1>7, <1>8, <2>1, MatchedJoin
  <1> QED BY <1>3, <1>9 DEF OrderInv, Ordered, Waiting, SomebodyLoads, InLoad

LEMMA OrderInductive ==
  LoaderInv /\ CplInv /\ CplInv' /\ OrderInv /\ [LoadNext]_loadVars => OrderInv'
  <1> SUFFICES ASSUME LoaderInv, CplInv, CplInv', OrderInv, [LoadNext]_loadVars PROVE OrderInv'
    OBVIOUS
  <1>1. ASSUME NEW t \in Threads, NEW f \in Files, Load(t, f) PROVE OrderInv'
    BY <1>1, LoadOrder
  <1>2. ASSUME NEW t \in Threads, NEW f \in Files, LoadFails(t, f) PROVE OrderInv'
    BY <1>2, LoadFailsOrder
  <1>3. ASSUME NEW t \in Threads, RunDefinition(t) PROVE OrderInv'
    BY <1>3, DefinitionOrder
  <1>4. ASSUME NEW t \in Threads, EndNestedLoad(t) PROVE OrderInv'
    BY <1>4, NestedLoadOrder
  <1>5. ASSUME NEW t \in Threads, FailDefinition(t) \/ LeaveForm(t) PROVE OrderInv'
    <2>1. LoadTypes /\ InLoad(t)
      BY <1>5 DEF FailDefinition, LeaveForm, Runs, LoaderInv
    <2>2. PICK depth \in 0 .. (Len(stack[t]) - 1) : Leave(t, depth)
      BY <1>5 DEF FailDefinition, LeaveForm
    <2>3. left' # {}
      BY <2>1, <2>2, LeavingLeaves
    <2> QED BY <2>3 DEF OrderInv
  <1>6. CASE UNCHANGED loadVars
    <2>1. UNCHANGED <<queues, stack, left, overlap, superclasses, cpl, newSlots, fault>>
      BY <1>6 DEF loadVars, classVars
    <2> QED BY <2>1 DEF OrderInv, Ordered, Waiting, SomebodyLoads, InLoad, queues
  <1> QED BY <1>1, <1>2, <1>3, <1>4, <1>5, <1>6 DEF LoadNext

LEMMA OrderStarts == LoadInit => OrderInv
  <1> SUFFICES ASSUME LoadInit PROVE OrderInv
    OBVIOUS
  <1>1. /\ superclasses = [k \in {Root} |-> <<>>] /\ cpl = [k \in {Root} |-> <<Root>>]
        /\ newSlots = [k \in {Root} |-> <<>>] /\ fault = FALSE
        /\ classForms = <<>> /\ otherForms = <<>> /\ stack = [t \in Threads |-> <<>>]
    BY DEF LoadInit, ClassInit
  <1>2. Matched(<<>>, <<>>)
    BY DEF Matched, Creates, Reaches
  <1>3. /\ DOMAIN superclasses = {Root} /\ DOMAIN cpl = {Root} /\ DOMAIN newSlots = {Root}
        /\ \A t \in Threads : ~ InLoad(t)
    BY <1>1 DEF InLoad
  <1>4. Ordered(<<>>)
    <2>1. \A d : ~ Creates(<<>>, Len(<<>>), d)
      BY DEF Creates, Reaches
    <2> QED BY <1>3, <2>1 DEF Ordered, InOrder
  <1> QED BY <1>1, <1>2, <1>3, <1>4 DEF OrderInv

(* The queues of load.c keep the forms in order, wherever the files load   *)
(* one another and whichever reads fail: a class gets its slots after all  *)
(* the classes that had been created before it got theirs.                 *)
THEOREM OrderInvariance == LoadSpec => []OrderInv
  BY OrderStarts, OrderInductive, LoaderInvariance, LoaderCpls, PTL DEF LoadSpec

(* As long as one thread loads at a time and no form is left, defclass1    *)
(* finds the precedence lists of the superclasses, and init_defined_class  *)
(* that of its class and new_slots of all the classes in it.               *)
THEOREM ClassesComeInOrder == LoadSpec => []DefinitionsInOrder
  <1>1. OrderInv => DefinitionsInOrder
    BY DEF OrderInv, DefinitionsInOrder
  <1> QED BY <1>1, OrderInvariance, PTL

-----------------------------------------------------------------------------
(***************************************************************************)
(* The layout of slots.  What is said here of a list of slots, of lengths  *)
(* and of places is said by the slots of a set of classes.                 *)
(***************************************************************************)
AllSlots(slots, K) == UNION {{k} \X Range(slots[k]) : k \in K}

SlotsAmong(slots, K, each) == {s \in AllSlots(slots, K) : (s[2] \in EachSubclass) = each}

(* The slots of a class are sequences, without two of a name. *)
NamesApart(slots, K) ==
  \A k \in K : slots[k] \in Seq(Range(slots[k])) /\ IsInjective(slots[k])

(* What SlotsOf, InheritedLength and DesiredOffset find in given tables.   *)
SlotsIn(slots, c, each) ==
  SubQueue([i \in DOMAIN slots[c] |-> <<c, slots[c][i]>>],
           {s \in {c} \X Range(slots[c]) : (s[2] \in EachSubclass) = each})

LengthIn(lists, slots, c, each) ==
  FoldLeft(LAMBDA n, k : n + Len(SlotsIn(slots, k, each)), 0, Tail(lists[c]))

OffsetIn(lists, slots, s) ==
  LET each == s[2] \in EachSubclass
  IN LengthIn(lists, slots, s[1], each)
       + SelectInSeq(SlotsIn(slots, s[1], each), LAMBDA s2 : s2 = s) - 1

LEMMA FindsAre ==
  ASSUME NEW c, NEW each, NEW s
  PROVE  /\ SlotsOf(c, each) = SlotsIn(newSlots, c, each)
         /\ InheritedLength(c, each) = LengthIn(cpl, newSlots, c, each)
         /\ DesiredOffset(s) = OffsetIn(cpl, newSlots, s)
  <1>1. \A k, e : SlotsOf(k, e) = SlotsIn(newSlots, k, e)
    BY DEF SlotsOf, SlotsIn
  <1>2. \A k, e : InheritedLength(k, e) = LengthIn(cpl, newSlots, k, e)
    BY DEF InheritedLength, LengthIn, SlotsOf, SlotsIn, FoldLeft, MapThenFoldSet
  <1>3. DesiredOffset(s) = OffsetIn(cpl, newSlots, s)
    <2> DEFINE e == s[2] \in EachSubclass
    <2>1. SlotsOf(s[1], e) = SlotsIn(newSlots, s[1], e)
      BY <1>1
    <2>2. InheritedLength(s[1], e) = LengthIn(cpl, newSlots, s[1], e)
      BY <1>2
    <2> QED BY <2>1, <2>2 DEF DesiredOffset, OffsetIn, SelectInSeq
  <1> QED BY <1>1, <1>2, <1>3

(* A queue has as many members as places. *)
LEMMA QueueCounts ==
  ASSUME NEW S, NEW q \in Seq(S), IsQueue(q)
  PROVE  IsFiniteSet(Range(q)) /\ Cardinality(Range(q)) = Len(q) /\ Len(q) \in Nat
  <1>1. Len(q) \in Nat /\ DOMAIN q = 1..Len(q)
    OBVIOUS
  <1>2. q \in Surjection(1..Len(q), Range(q)) /\ q \in Injection(1..Len(q), Range(q))
    BY <1>1 DEF Surjection, Injection, IsInjective, IsQueue, Range
  <1>3. IsFiniteSet(1..Len(q)) /\ Cardinality(1..Len(q)) = Len(q)
    BY <1>1, FS_Interval
  <1> QED BY <1>1, <1>2, <1>3, FS_Surjection

(* The slots of one class. *)
LEMMA SlotsInAre ==
  ASSUME NEW slots, NEW c, NamesApart(slots, {c}), NEW each \in BOOLEAN
  PROVE  LET q == SlotsIn(slots, c, each)
             S == SlotsAmong(slots, {c}, each)
         IN q \in Seq(S) /\ IsQueue(q) /\ Range(q) = S /\ IsFiniteSet(S) /\ Len(q) = Cardinality(S)
  <1> DEFINE N == Range(slots[c])
             P == {c} \X N
             all == [i \in DOMAIN slots[c] |-> <<c, slots[c][i]>>]
             K == {s \in P : (s[2] \in EachSubclass) = each}
             q == SlotsIn(slots, c, each)
             S == SlotsAmong(slots, {c}, each)
  <1>1. slots[c] \in Seq(N) /\ IsInjective(slots[c])
    BY DEF NamesApart
  <1>2. all \in Seq(P) /\ DOMAIN all = DOMAIN slots[c]
    <2> HIDE DEF N
    <2> QED BY <1>1
  <1>3. IsQueue(all)
    BY <1>1 DEF IsQueue, IsInjective
  <1>4. Range(all) = P
    <2>1. Range(all) = {<<c, slots[c][i]>> : i \in DOMAIN slots[c]}
      BY DEF Range
    <2>2. N = {slots[c][i] : i \in DOMAIN slots[c]}
      BY DEF Range
    <2> HIDE DEF N, all
    <2> QED BY <2>1, <2>2
  <1>5. S = K
    BY DEF SlotsAmong, AllSlots
  <1>6. q = SubQueue(all, K)
    BY DEF SlotsIn
  <1> HIDE DEF all, P, q, S
  <1>7. q \in Seq(P) /\ IsQueue(q) /\ Range(q) = P \cap K
    BY <1>2, <1>3, <1>4, <1>6, SubQueueIsQueue
  <1>8. Range(q) = S /\ q \in Seq(S)
    <2>1. P \cap K = K
      OBVIOUS
    <2>2. Range(q) = S
      BY <1>5, <1>7, <2>1
    <2>3. DOMAIN q = 1..Len(q) /\ Len(q) \in Nat /\ \A i \in 1..Len(q) : q[i] \in Range(q)
      BY <1>7, InQueue
    <2>4. q = [i \in 1..Len(q) |-> q[i]]
      BY <1>7, <2>3
    <2> QED BY <2>2, <2>3, <2>4
  <1>9. IsFiniteSet(S) /\ Len(q) = Cardinality(S)
    BY <1>7, <1>8, QueueCounts
  <1> QED BY <1>7, <1>8, <1>9 DEF q, S

LEMMA ApartAdd ==
  ASSUME NEW S, IsFiniteSet(S), NEW T, IsFiniteSet(T), S \cap T = {}
  PROVE  IsFiniteSet(S \cup T) /\ Cardinality(S \cup T) = Cardinality(S) + Cardinality(T)
  <1>1. Cardinality(S) \in Nat /\ Cardinality(T) \in Nat /\ Cardinality(S \cap T) = 0
    BY FS_CardinalityType, FS_EmptySet
  <1>2. IsFiniteSet(S \cup T)
        /\ Cardinality(S \cup T) = Cardinality(S) + Cardinality(T) - Cardinality(S \cap T)
    BY FS_Union
  <1> QED BY <1>1, <1>2

(* Slots of two sets of classes. *)
LEMMA AmongFacts ==
  ASSUME NEW slots, NEW A, NEW B, NEW each \in BOOLEAN
  PROVE  /\ SlotsAmong(slots, A \cup B, each) = SlotsAmong(slots, A, each) \cup SlotsAmong(slots, B, each)
         /\ A \cap B = {} => SlotsAmong(slots, A, each) \cap SlotsAmong(slots, B, each) = {}
         /\ A \subseteq B => SlotsAmong(slots, A, each) \subseteq SlotsAmong(slots, B, each)
         /\ SlotsAmong(slots, {}, each) = {}
         /\ \A s \in SlotsAmong(slots, A, each) : s[1] \in A /\ s \in SlotsAmong(slots, {s[1]}, each)
                                                  /\ (s[2] \in EachSubclass) = each
  BY DEF SlotsAmong, AllSlots

(* What the fold of InheritedLength does at one set of places.             *)
LengthStep(slots, each, q, f, s) ==
  IF s = {} THEN 0 ELSE f[s \ {Max(s)}] + Len(SlotsIn(slots, q[Max(s)], each))

(* The lengths of the slots of different classes add up to what all have.  *)
LEMMA LengthIs ==
  ASSUME NEW lists, NEW slots, NEW c, NEW D, Tail(lists[c]) \in Seq(D), IsQueue(Tail(lists[c])),
         NamesApart(slots, Range(Tail(lists[c]))), NEW each \in BOOLEAN
  PROVE  LET S == SlotsAmong(slots, Range(Tail(lists[c])), each)
         IN IsFiniteSet(S) /\ LengthIn(lists, slots, c, each) = Cardinality(S)
  <1> DEFINE q == Tail(lists[c])
             n == Len(q)
             L(k) == Len(SlotsIn(slots, q[k], each))
             F == [x \in (1..n) \X Nat |-> x[2] + L(x[1])]
             Step(f, s) == LengthStep(slots, each, q, f, s)
             f0 == CHOOSE f : f = [s \in SUBSET (1..n) |-> Step(f, s)]
             Q(k) == {q[i] : i \in 1..k}
             Among(k) == SlotsAmong(slots, Q(k), each)
  <1> HIDE DEF q
  <1>1. q \in Seq(D) /\ IsQueue(q) /\ n \in Nat /\ DOMAIN q = 1..n
    BY DEF q
  <1>2. LengthIn(lists, slots, c, each) = f0[1..n]
    <2> HIDE DEF n
    <2> QED BY <1>1 DEF LengthIn, FoldLeft, MapThenFoldSet, LengthStep, q
  <1> HIDE DEF n, L
  <1>3. ASSUME NEW k \in 1..n
        PROVE  LET S == SlotsAmong(slots, {q[k]}, each)
               IN IsFiniteSet(S) /\ L(k) = Cardinality(S) /\ L(k) \in Nat
    <2>1. q[k] \in Range(q)
      BY <1>1 DEF Range
    <2>2. NamesApart(slots, {q[k]})
      BY <2>1 DEF NamesApart, q
    <2>3. /\ IsFiniteSet(SlotsAmong(slots, {q[k]}, each))
          /\ L(k) = Cardinality(SlotsAmong(slots, {q[k]}, each))
      BY <2>2, SlotsInAre DEF L
    <2> QED BY <2>3, FS_CardinalityType
  <1>5. F \in [(1..n) \X Nat -> Nat]
    <2>1. \A k \in 1..n : L(k) \in Nat
      BY <1>3
    <2> QED BY <2>1
  <1>6. \E f : f = [s \in SUBSET (1..n) |-> Step(f, s)]
    <2>1. PICK f \in [SUBSET (1..n) -> Nat] : Folds(f, n, 0, F)
      <3> HIDE DEF F
      <3> QED BY <1>1, <1>5, FoldExists
    <2>2. ASSUME NEW s \in SUBSET (1..n) PROVE f[s] = Step(f, s)
      <3>1. CASE s = {}
        BY <2>1, <3>1 DEF Folds, FoldStep, LengthStep
      <3>2. CASE s # {}
        <4>1. Max(s) \in 1..n /\ s \ {Max(s)} \in SUBSET (1..n)
          BY <1>1, <3>2, MaxPosition
        <4>2. <<Max(s), f[s \ {Max(s)}]>> \in (1..n) \X Nat
          BY <2>1, <4>1
        <4> QED BY <2>1, <3>2, <4>2 DEF Folds, FoldStep, LengthStep, L
      <3> QED BY <3>1, <3>2
    <2>3. f = [s \in SUBSET (1..n) |-> f[s]]
      OBVIOUS
    <2>4. f = [s \in SUBSET (1..n) |-> Step(f, s)]
      BY <2>2, <2>3
    <2> QED BY <2>4
  <1>7. f0 = [s \in SUBSET (1..n) |-> Step(f0, s)]
    BY <1>6
  <1> HIDE DEF f0, F
  <1>8. f0[1..0] = 0
    BY <1>7 DEF LengthStep
  <1>9. ASSUME NEW k \in 1..n PROVE f0[1..k] = f0[1..(k - 1)] + L(k)
    <2>1. k \in Nat \ {0} /\ 1..k \in SUBSET (1..n)
      BY <1>1
    <2>2. 1..k # {} /\ Max(1..k) = k /\ (1..k) \ {k} = 1..(k - 1)
      BY <2>1, FirstPositions
    <2>3. f0[1..k] = Step(f0, 1..k)
      BY <1>7, <2>1
    <2> QED BY <2>2, <2>3 DEF LengthStep, L
  <1> DEFINE Good(k) == IsFiniteSet(Among(k)) /\ f0[1..k] = Cardinality(Among(k))
             T == {k \in Nat : k <= n /\ ~ Good(k)}
  <1>10. Good(0)
    <2>1. Q(0) = {}
      OBVIOUS
    <2>2. Among(0) = {}
      BY <2>1, AmongFacts
    <2> QED BY <1>8, <2>2, FS_EmptySet
  <1>11. ASSUME NEW k \in 1..n, Good(k - 1) PROVE Good(k)
    <2> DEFINE X == SlotsAmong(slots, {q[k]}, each)
               Y == Among(k - 1)
    <2>1. Q(k) = Q(k - 1) \cup {q[k]} /\ Q(k - 1) \cap {q[k]} = {}
      <3>1. 1..k = (1..(k - 1)) \cup {k}
        OBVIOUS
      <3>2. \A i \in 1..(k - 1) : q[i] # q[k]
        BY <1>1 DEF IsQueue, IsInjective
      <3> QED BY <3>1, <3>2
    <2>2. Among(k) = Y \cup X /\ Y \cap X = {}
      <3> DEFINE A == Q(k - 1)
                 B == {q[k]}
      <3> HIDE DEF A, B
      <3>1. /\ SlotsAmong(slots, A \cup B, each)
                 = SlotsAmong(slots, A, each) \cup SlotsAmong(slots, B, each)
            /\ A \cap B = {} => SlotsAmong(slots, A, each) \cap SlotsAmong(slots, B, each) = {}
        BY DEF SlotsAmong, AllSlots
      <3>2. Q(k) = A \cup B /\ A \cap B = {}
        BY <2>1 DEF A, B
      <3> QED BY <3>1, <3>2 DEF A, B
    <2>3. IsFiniteSet(X) /\ L(k) = Cardinality(X) /\ L(k) \in Nat
      BY <1>3
    <2>4. IsFiniteSet(Y) /\ f0[1..(k - 1)] = Cardinality(Y)
      BY <1>11
    <2> HIDE DEF X, Among
    <2>5. IsFiniteSet(Y \cup X) /\ Cardinality(Y \cup X) = Cardinality(Y) + Cardinality(X)
      BY <2>2, <2>3, <2>4, ApartAdd
    <2>6. f0[1..k] = f0[1..(k - 1)] + L(k)
      BY <1>9
    <2> QED BY <2>2, <2>3, <2>4, <2>5, <2>6
  <1>12. Good(n)
    <2> HIDE DEF Good
    <2>1. ASSUME T # {} PROVE FALSE
      <3>1. PICK k \in T : \A m \in T : k <= m
        <4>1. T \in SUBSET Nat
          OBVIOUS
        <4> QED BY <2>1, <4>1, LeastNat
      <3>2. k \in 1..n
        BY <1>1, <1>10, <3>1
      <3>3. Good(k - 1)
        BY <1>1, <3>1, <3>2
      <3> QED BY <1>11, <3>1, <3>2, <3>3
    <2> QED BY <1>1, <2>1
  <1>13. Q(n) = Range(q)
    BY <1>1 DEF Range
  <1> HIDE DEF Q
  <1> QED BY <1>2, <1>12, <1>13 DEF q

(* The place of a member in a queue. *)
PlaceOf(q, t) == LET I == {i \in 1..Len(q) : q[i] = t} IN IF I # {} THEN Min(I) ELSE 0

LEMMA PlaceOfIs ==
  ASSUME NEW S, NEW q \in Seq(S), IsQueue(q)
  PROVE  /\ \A i \in 1..Len(q) : PlaceOf(q, q[i]) = i
         /\ \A t \in Range(q) : PlaceOf(q, t) \in 1..Len(q) /\ q[PlaceOf(q, t)] = t
         /\ {PlaceOf(q, t) : t \in Range(q)} = 1..Len(q)
  <1>1. Len(q) \in Nat /\ DOMAIN q = 1..Len(q) /\ \A i, j \in 1..Len(q) : q[i] = q[j] => i = j
    BY DEF IsQueue, IsInjective
  <1>2. ASSUME NEW i \in 1..Len(q) PROVE PlaceOf(q, q[i]) = i
    <2>1. {j \in 1..Len(q) : q[j] = q[i]} = {i}
      BY <1>1
    <2>2. Min({i}) = i
      BY DEF Min
    <2> QED BY <2>1, <2>2 DEF PlaceOf
  <1>3. ASSUME NEW t \in Range(q) PROVE \E i \in 1..Len(q) : q[i] = t
    BY InQueue
  <1>4. \A i \in 1..Len(q) : q[i] \in Range(q)
    BY InQueue
  <1> QED BY <1>2, <1>3, <1>4

LEMMA OffsetInIs ==
  ASSUME NEW lists, NEW slots, NEW s
  PROVE  LET each == s[2] \in EachSubclass
         IN OffsetIn(lists, slots, s)
              = LengthIn(lists, slots, s[1], each) + PlaceOf(SlotsIn(slots, s[1], each), s) - 1
  BY DEF OffsetIn, PlaceOf, SelectInSeq

(* The precedence list of a class, after the class itself. *)
FollowsOn(sup, lists, c) ==
  /\ Tail(lists[c]) \in Seq(DOMAIN sup) /\ IsQueue(Tail(lists[c]))
  /\ Range(Tail(lists[c])) = Above(sup, c) \ {c}

LEMMA ListFollowsOn ==
  ASSUME NEW sup, Hierarchy(sup), NEW c \in DOMAIN sup, NEW lists,
         lists[c] \in SetToSeqs(Above(sup, c)), Obeys(lists[c], sup, Above(sup, c))
  PROVE  FollowsOn(sup, lists, c)
  <1> DEFINE A == Above(sup, c)
             q == lists[c]
             D == DOMAIN sup
  <1>1. c \in A /\ A \subseteq D /\ IsFiniteSet(A)
    BY AboveFacts
  <1>2. Range(Tail(q)) \subseteq A \ {c}
    BY ClassIsFirst
  <1>3. q \in SetToSeqs(A)
    OBVIOUS
  <1> HIDE DEF A, q, D
  <1>4. q \in Seq(A) /\ IsInjective(q) /\ Range(q) = A
    BY <1>1, <1>3, OnceEach
  <1>5. q # <<>>
    BY <1>1, <1>4, InQueue
  <1>6. Tail(q) \in Seq(A) /\ IsQueue(Tail(q)) /\ Range(Tail(q)) = A \ {Head(q)} /\ Head(q) \in A
    BY <1>4, <1>5, TailQueue DEF IsQueue
  <1>7. Range(Tail(q)) = A \ {c}
    BY <1>1, <1>2, <1>6
  <1>8. Tail(q) \in Seq(D)
    BY <1>1, <1>6
  <1> QED BY <1>6, <1>7, <1>8 DEF FollowsOn, A, q, D

(* compute_lengths adds up what a class inherits. *)
LEMMA InheritedLengths ==
  ASSUME NEW sup, NEW c, NEW lists, FollowsOn(sup, lists, c),
         NEW slots, NamesApart(slots, Above(sup, c) \ {c}), NEW each \in BOOLEAN
  PROVE  LET inherited == SlotsAmong(slots, Above(sup, c) \ {c}, each)
         IN /\ IsFiniteSet(inherited) /\ Cardinality(inherited) \in Nat
            /\ LengthIn(lists, slots, c, each) = Cardinality(inherited)
  <1>1. NamesApart(slots, Range(Tail(lists[c])))
    BY DEF FollowsOn
  <1>2. Tail(lists[c]) \in Seq(DOMAIN sup) /\ IsQueue(Tail(lists[c]))
        /\ Range(Tail(lists[c])) = Above(sup, c) \ {c}
    BY DEF FollowsOn
  <1> DEFINE D == DOMAIN sup
  <1> HIDE DEF D
  <1>3. Tail(lists[c]) \in Seq(D)
    BY <1>2 DEF D
  <1>4. LET S == SlotsAmong(slots, Range(Tail(lists[c])), each)
        IN IsFiniteSet(S) /\ LengthIn(lists, slots, c, each) = Cardinality(S)
    BY <1>1, <1>2, <1>3, LengthIs
  <1> QED BY <1>2, <1>4, FS_CardinalityType

(* The own slots of a class are behind all that it inherits, one by one.   *)
OwnBehind(sup, lists, slots, c, each) ==
  LET inherited == SlotsAmong(slots, Above(sup, c) \ {c}, each)
      own == SlotsAmong(slots, {c}, each)
      all == SlotsAmong(slots, Above(sup, c), each)
  IN /\ IsFiniteSet(all) /\ IsFiniteSet(own)
     /\ all = inherited \cup own /\ inherited \cap own = {}
     /\ Cardinality(inherited) \in Nat /\ Cardinality(all) \in Nat
     /\ Cardinality(all) = Cardinality(inherited) + Cardinality(own)
     /\ \A s \in own : OffsetIn(lists, slots, s) \in Cardinality(inherited)..(Cardinality(all) - 1)
     /\ \A p \in Cardinality(inherited)..(Cardinality(all) - 1) :
          \E s \in own : OffsetIn(lists, slots, s) = p

LEMMA OwnOffsets ==
  ASSUME NEW sup, Hierarchy(sup), NEW c \in DOMAIN sup, NEW lists, FollowsOn(sup, lists, c),
         NEW slots, NamesApart(slots, Above(sup, c)), NEW each \in BOOLEAN
  PROVE  OwnBehind(sup, lists, slots, c, each)
  <1> DEFINE A == Above(sup, c)
             inherited == SlotsAmong(slots, A \ {c}, each)
             own == SlotsAmong(slots, {c}, each)
             all == SlotsAmong(slots, A, each)
             q == SlotsIn(slots, c, each)
             n == Cardinality(inherited)
  <1>1. c \in A
    BY AboveFacts
  <1>2. all = inherited \cup own /\ inherited \cap own = {}
    BY <1>1 DEF SlotsAmong, AllSlots
  <1>3. IsFiniteSet(inherited) /\ LengthIn(lists, slots, c, each) = n
    <2>1. NamesApart(slots, A \ {c})
      BY DEF NamesApart
    <2> QED BY <2>1, InheritedLengths
  <1>4. q \in Seq(own) /\ IsQueue(q) /\ Range(q) = own /\ IsFiniteSet(own) /\ Len(q) = Cardinality(own)
    <2>1. NamesApart(slots, {c})
      BY <1>1 DEF NamesApart
    <2> QED BY <2>1, SlotsInAre
  <1>5. ASSUME NEW s \in own PROVE OffsetIn(lists, slots, s) = n + PlaceOf(q, s) - 1
    <2>1. s[1] = c /\ (s[2] \in EachSubclass) = each
      BY DEF SlotsAmong, AllSlots
    <2> HIDE DEF n
    <2> QED BY <1>3, <2>1, OffsetInIs
  <1>6. n \in Nat /\ Cardinality(own) \in Nat
    BY <1>3, <1>4, FS_CardinalityType
  <1> HIDE DEF inherited, own, all, q, n
  <1>7. {PlaceOf(q, s) : s \in own} = 1..Len(q)
    BY <1>4, PlaceOfIs
  <1>8. IsFiniteSet(all) /\ Cardinality(all) = n + Cardinality(own)
    BY <1>2, <1>3, <1>4, ApartAdd DEF n
  <1>9. /\ \A s \in own : OffsetIn(lists, slots, s) \in n..(Cardinality(all) - 1)
        /\ \A p \in n..(Cardinality(all) - 1) : \E s \in own : OffsetIn(lists, slots, s) = p
    <2>1. \A s \in own : PlaceOf(q, s) \in 1..Len(q)
      BY <1>7
    <2>2. \A i \in 1..Len(q) : \E s \in own : PlaceOf(q, s) = i
      BY <1>7
    <2>3. ASSUME NEW s \in own PROVE OffsetIn(lists, slots, s) \in n..(Cardinality(all) - 1)
      BY <1>4, <1>5, <1>6, <1>8, <2>1
    <2>4. ASSUME NEW p \in n..(Cardinality(all) - 1)
          PROVE  \E s \in own : OffsetIn(lists, slots, s) = p
      <3>1. p - n + 1 \in 1..Len(q)
        BY <1>4, <1>6, <1>8
      <3>2. PICK s \in own : PlaceOf(q, s) = p - n + 1
        BY <2>2, <3>1
      <3>3. OffsetIn(lists, slots, s) = p
        BY <1>5, <1>6, <3>2
      <3> QED BY <3>3
    <2> QED BY <2>3, <2>4
  <1>10. Cardinality(all) \in Nat
    BY <1>6, <1>8
  <1> QED BY <1>2, <1>4, <1>6, <1>8, <1>9, <1>10 DEF OwnBehind, inherited, own, all, n

(* The place of an inherited slot is among those of what is inherited.     *)
LEMMA InheritedOffsets ==
  ASSUME NEW sup, Hierarchy(sup), NEW c \in DOMAIN sup, NEW lists,
         \A k \in Above(sup, c) : FollowsOn(sup, lists, k),
         NEW slots, NamesApart(slots, Above(sup, c) \ {c}), NEW each \in BOOLEAN,
         NEW s \in SlotsAmong(slots, Above(sup, c) \ {c}, each)
  PROVE  OffsetIn(lists, slots, s)
           \in 0..(Cardinality(SlotsAmong(slots, Above(sup, c) \ {c}, each)) - 1)
  <1> DEFINE k == s[1]
             A == Above(sup, c)
             inherited == SlotsAmong(slots, A \ {c}, each)
             below == SlotsAmong(slots, Above(sup, k), each)
  <1>1. k \in A \ {c} /\ s \in SlotsAmong(slots, {k}, each)
    BY DEF SlotsAmong, AllSlots
  <1>2. A \subseteq DOMAIN sup /\ Above(sup, k) \subseteq A
    BY <1>1, AboveFacts
  <1>3. c \notin Above(sup, k)
    BY <1>1, <1>2, AboveIsPartial
  <1>4. FollowsOn(sup, lists, k) /\ NamesApart(slots, Above(sup, k))
    BY <1>1, <1>2, <1>3 DEF NamesApart
  <1>5. below \subseteq inherited
    BY <1>2, <1>3 DEF SlotsAmong, AllSlots
  <1>6. IsFiniteSet(inherited)
    <2>1. FollowsOn(sup, lists, c)
      BY AboveFacts
    <2> QED BY <2>1, InheritedLengths
  <1>7. Cardinality(below) <= Cardinality(inherited) /\ Cardinality(inherited) \in Nat
    BY <1>5, <1>6, FS_Subset, FS_CardinalityType
  <1> DEFINE m == Cardinality(SlotsAmong(slots, Above(sup, k) \ {k}, each))
  <1>8. /\ OffsetIn(lists, slots, s) \in m..(Cardinality(below) - 1)
        /\ m \in Nat /\ Cardinality(below) \in Nat
    <2>1. k \in DOMAIN sup
      BY <1>1, <1>2
    <2>2. OwnBehind(sup, lists, slots, k, each)
      <3> HIDE DEF k
      <3> QED BY <1>4, <2>1, OwnOffsets
    <2> HIDE DEF k
    <2> QED BY <1>1, <2>2 DEF OwnBehind
  <1> HIDE DEF m, below, inherited
  <1>9. OffsetIn(lists, slots, s) \in 0..(Cardinality(inherited) - 1)
    BY <1>7, <1>8
  <1> QED BY <1>9 DEF inherited

(* A sequence in which two are joined; if it repeats nothing, neither do they. *)
LEMMA PartsOfJoin ==
  ASSUME NEW S, NEW q \in Seq(S), NEW r \in Seq(S)
  PROVE  /\ q \o r \in Seq(S) /\ Range(q \o r) = Range(q) \cup Range(r)
         /\ Len(q \o r) = Len(q) + Len(r)
         /\ IsInjective(q \o r) => IsInjective(q) /\ IsInjective(r)
  <1> DEFINE m == Len(q)
             n == Len(r)
             w == q \o r
  <1>1. /\ m \in Nat /\ n \in Nat /\ DOMAIN q = 1..m /\ DOMAIN r = 1..n
        /\ w \in Seq(S) /\ DOMAIN w = 1..(m + n) /\ Len(w) = m + n
        /\ \A i \in 1..m : w[i] = q[i]
        /\ \A i \in 1..n : w[m + i] = r[i]
        /\ \A i \in 1..(m + n) : i <= m \/ i - m \in 1..n
    OBVIOUS
  <1>2. \A i \in 1..(m + n) : w[i] = IF i <= m THEN q[i] ELSE r[i - m]
    BY <1>1
  <1> HIDE DEF m, n, w
  <1>3. ASSUME IsInjective(w) PROVE IsInjective(q) /\ IsInjective(r)
    <2>1. ASSUME NEW i \in 1..m, NEW j \in 1..m, q[i] = q[j] PROVE i = j
      <3>1. i \in DOMAIN w /\ j \in DOMAIN w /\ w[i] = w[j]
        BY <1>1, <2>1
      <3> QED BY <1>3, <3>1 DEF IsInjective
    <2>2. ASSUME NEW i \in 1..n, NEW j \in 1..n, r[i] = r[j] PROVE i = j
      <3>1. m + i \in DOMAIN w /\ m + j \in DOMAIN w /\ w[m + i] = w[m + j]
        BY <1>1, <2>2
      <3>2. m + i = m + j
        BY <1>3, <3>1 DEF IsInjective
      <3> QED BY <1>1, <3>2
    <2> QED BY <1>1, <2>1, <2>2 DEF IsInjective
  <1>4. Range(w) = Range(q) \cup Range(r)
    BY JoinMembers DEF w
  <1> QED BY <1>1, <1>3, <1>4 DEF m, n, w

(* The members of sequences joined in their order. *)
LEMMA FlattenMembers ==
  ASSUME NEW S, NEW n \in Nat, NEW seqs \in [1..n -> Seq(S)]
  PROVE  /\ FlattenSeq(seqs) \in Seq(S)
         /\ Range(FlattenSeq(seqs)) = UNION {Range(seqs[k]) : k \in 1..n}
         /\ IsInjective(FlattenSeq(seqs)) => \A k \in 1..n : IsInjective(seqs[k])
  <1>1. Len(seqs) = n
    OBVIOUS
  <1>0. CASE n = 0
    <2>1. seqs = <<>>
      BY <1>0
    <2>2. FlattenSeq(seqs) = seqs
      BY <1>0, <1>1 DEF FlattenSeq
    <2>3. Range(<<>>) = {} /\ <<>> \in Seq(S)
      BY DEF Range
    <2>4. 1..n = {}
      BY <1>0
    <2>5. UNION {Range(seqs[k]) : k \in 1..n} = {}
      BY <2>4
    <2>6. FlattenSeq(seqs) = <<>>
      BY <2>1, <2>2
    <2> QED BY <2>3, <2>4, <2>5, <2>6
  <1>1a. CASE n # 0
    <2>2. PICK f : /\ f = [i \in 1..n |-> FlattenStep(seqs, f, i)]
                   /\ FlattenSeq(seqs) = f[n]
      <3>1. n \in Nat \ {0}
        BY <1>1a
      <3> QED BY <1>1, <3>1, FlattenRecursion
    <2> DEFINE All(k) == UNION {Range(seqs[j]) : j \in 1..k}
               Apart(k) == IsInjective(f[k]) => \A j \in 1..k : IsInjective(seqs[j])
               Good(k) == f[k] \in Seq(S) /\ Range(f[k]) = All(k) /\ Apart(k)
               T == {k \in Nat \ {0} : k <= n /\ ~ Good(k)}
    <2>3. f[1] = seqs[1] /\ \A k \in 2..n : f[k] = f[k - 1] \o seqs[k]
      <3>1. ASSUME NEW k \in 1..n PROVE f[k] = FlattenStep(seqs, f, k)
        BY <2>2
      <3>2. f[1] = seqs[1]
        BY <1>1a, <3>1 DEF FlattenStep
      <3>3. ASSUME NEW k \in 2..n PROVE f[k] = f[k - 1] \o seqs[k]
        <4>1. k \in 1..n /\ k # 1
          OBVIOUS
        <4> QED BY <3>1, <4>1 DEF FlattenStep
      <3> QED BY <3>2, <3>3
    <2>4. Good(1)
      <3>1. All(1) = Range(seqs[1])
        OBVIOUS
      <3>2. seqs[1] \in Seq(S)
        BY <1>1a
      <3>3. Apart(1)
        <4>1. \A j \in 1..1 : j = 1
          OBVIOUS
        <4> QED BY <2>3, <4>1
      <3> QED BY <2>3, <3>1, <3>2, <3>3
    <2>5. ASSUME NEW k \in 2..n, Good(k - 1) PROVE Good(k)
      <3> DEFINE q == f[k - 1]
                 r == seqs[k]
      <3>1. All(k) = All(k - 1) \cup Range(seqs[k])
        <4>1. 1..k = (1..(k - 1)) \cup {k}
          OBVIOUS
        <4> QED BY <4>1
      <3>2. f[k] = q \o r
        BY Zenon, <2>3
      <3>3. k \in 1..n
        OBVIOUS
      <3>4. r \in Seq(S) /\ q \in Seq(S) /\ Range(q) = All(k - 1)
        BY <2>5, <3>3
      <3>5. IsInjective(q) => \A j \in 1..(k - 1) : IsInjective(seqs[j])
        BY <2>5
      <3> HIDE DEF All, q, r
      <3>6. /\ q \o r \in Seq(S) /\ Range(q \o r) = Range(q) \cup Range(r)
            /\ IsInjective(q \o r) => IsInjective(q) /\ IsInjective(r)
        BY <3>4, PartsOfJoin
      <3>7. Apart(k)
        <4>1. \A j \in 1..k : j \in 1..(k - 1) \/ j = k
          OBVIOUS
        <4> QED BY <3>2, <3>5, <3>6, <4>1 DEF r
      <3> QED BY <3>1, <3>2, <3>4, <3>6, <3>7 DEF r
    <2>6. Good(n)
      <3> HIDE DEF Good
      <3>1. ASSUME T # {} PROVE FALSE
        <4>1. PICK k \in T : \A m \in T : k <= m
          <5>1. T \in SUBSET Nat
            OBVIOUS
          <5> QED BY <3>1, <5>1, LeastNat
        <4>2. k \in 2..n
          BY <2>4, <4>1
        <4>3. Good(k - 1)
          BY <4>1, <4>2
        <4> QED BY <2>5, <4>1, <4>2, <4>3
      <3> QED BY <1>1a, <3>1
    <2> QED BY <2>2, <2>6
  <1> QED BY <1>0, <1>1a

-----------------------------------------------------------------------------
(***************************************************************************)
(* The order in which slots are inherited.                                 *)
(***************************************************************************)
(* What the walk of InheritOrder does at one class.                        *)
WalkStep(sup, f, k) == FlattenSeq([i \in DOMAIN sup[k] |-> f[sup[k][i]]]) \o <<k>>
Walks(sup, f, A) == f = [k \in A |-> WalkStep(sup, f, k)]

(* A hierarchy can be walked: a largest closed set that can be is all.     *)
LEMMA WalkExists ==
  ASSUME NEW sup, Hierarchy(sup)
  PROVE  \E f : Walks(sup, f, DOMAIN sup)
  <1> DEFINE D == DOMAIN sup
             Walked(A) == IsClosed(sup, A) /\ \E f : Walks(sup, f, A)
             T == {n \in Nat : \E A \in SUBSET D : Walked(A) /\ Cardinality(D \ A) = n}
  <1>1. IsFiniteSet(D) /\ \A A \in SUBSET D : IsFiniteSet(D \ A) /\ Cardinality(D \ A) \in Nat
    BY FS_Difference, FS_CardinalityType DEF Hierarchy
  <1>2. Walked({})
    <2>1. Walks(sup, [k \in {} |-> <<>>], {})
      BY DEF Walks
    <2> QED BY <2>1 DEF IsClosed
  <1>3. T # {} /\ T \in SUBSET Nat
    BY <1>1, <1>2
  <1>4. PICK n \in T : \A m \in T : n <= m
    BY <1>3, LeastNat
  <1>5. PICK A \in SUBSET D : Walked(A) /\ Cardinality(D \ A) = n
    BY <1>4
  <1>6. PICK f : Walks(sup, f, A)
    BY <1>5
  <1>7. ASSUME A # D PROVE FALSE
    <2>1. PICK k \in D \ A : Range(sup[k]) \cap (D \ A) = {}
      BY <1>5, <1>7 DEF Hierarchy
    <2>2. sup[k] \in Seq(D) /\ Range(sup[k]) \subseteq A
      <3>1. sup[k] \in Seq(D)
        BY <2>1 DEF Hierarchy
      <3> HIDE DEF D
      <3> QED BY <2>1, <3>1, InQueue
    <2> DEFINE B == A \cup {k}
               g == [x \in B |-> IF x = k THEN WalkStep(sup, f, k) ELSE f[x]]
    <2>3. B \in SUBSET D /\ IsClosed(sup, B)
      BY <1>5, <2>1, <2>2 DEF IsClosed
    <2>4. ASSUME NEW x \in B PROVE g[x] = WalkStep(sup, g, x)
      <3>1. Range(sup[x]) \subseteq A /\ sup[x] \in Seq(D)
        BY <1>5, <2>1, <2>2 DEF IsClosed, Hierarchy
      <3>2. \A i \in DOMAIN sup[x] : sup[x][i] \in A
        BY <3>1 DEF Range
      <3>3. \A y \in A : g[y] = f[y]
        BY <2>1
      <3>4. [i \in DOMAIN sup[x] |-> g[sup[x][i]]] = [i \in DOMAIN sup[x] |-> f[sup[x][i]]]
        BY <3>2, <3>3
      <3>5. WalkStep(sup, g, x) = WalkStep(sup, f, x)
        <4> HIDE DEF g
        <4> QED BY <3>4 DEF WalkStep
      <3>6. g[x] = WalkStep(sup, f, x)
        BY <1>6 DEF Walks
      <3> QED BY <3>5, <3>6
    <2>5. g = [x \in B |-> g[x]]
      OBVIOUS
    <2> HIDE DEF g
    <2>6. Walks(sup, g, B)
      BY <2>4, <2>5 DEF Walks
    <2>7. Cardinality(D \ B) = n - 1
      <3> DEFINE X == D \ A
      <3>1. D \ B = X \ {k} /\ k \in X
        OBVIOUS
      <3>2. IsFiniteSet(X) /\ Cardinality(X) = n
        BY <1>1, <1>5
      <3> HIDE DEF X, B
      <3>3. Cardinality(X \ {k}) = Cardinality(X) - 1
        BY <3>1, <3>2, FS_RemoveElement
      <3> QED BY <3>1, <3>2, <3>3
    <2>8. n - 1 \in T
      BY <1>1, <2>3, <2>6, <2>7
    <2> QED BY <1>4, <2>8
  <1> QED BY <1>6, <1>7

(* It comes to the classes above, and to no others. *)
LEMMA WalkIs ==
  ASSUME NEW sup, Hierarchy(sup), NEW w, Walks(sup, w, DOMAIN sup), NEW c \in DOMAIN sup
  PROVE  w[c] \in Seq(DOMAIN sup) /\ Range(w[c]) = Above(sup, c)
  <1> DEFINE D == DOMAIN sup
             Good(k) == w[k] \in Seq(D) /\ Range(w[k]) = Above(sup, k)
             B == {k \in D : ~ Good(k)}
  <1>1. ASSUME B # {} PROVE FALSE
    <2>1. PICK k \in B : Range(sup[k]) \cap B = {}
      BY <1>1 DEF Hierarchy
    <2> DEFINE s == sup[k]
               n == Len(s)
               seqs == [i \in 1..n |-> w[s[i]]]
    <2>2. s \in Seq(D) /\ k \in D
      BY <2>1 DEF Hierarchy
    <2> HIDE DEF D
    <2>3. DOMAIN s = 1..n /\ n \in Nat /\ Range(s) \subseteq D /\ \A i \in 1..n : s[i] \in Range(s)
      BY <2>2, InQueue
    <2>4. \A x \in Range(s) : Good(x)
      BY <2>1, <2>3
    <2>5. seqs \in [1..n -> Seq(D)] /\ \A i \in 1..n : Range(seqs[i]) = Above(sup, s[i])
      BY <2>3, <2>4
    <2>6. w[k] = FlattenSeq(seqs) \o <<k>>
      <3>1. w[k] = WalkStep(sup, w, k)
        BY <2>2 DEF Walks, D
      <3> QED BY <2>3, <3>1 DEF WalkStep
    <2> HIDE DEF seqs
    <2>7. /\ FlattenSeq(seqs) \in Seq(D)
          /\ Range(FlattenSeq(seqs)) = UNION {Range(seqs[i]) : i \in 1..n}
      BY <2>3, <2>5, FlattenMembers
    <2>8. <<k>> \in Seq(D) /\ Range(<<k>>) = {k}
      <3>1. <<k>> \in Seq(D) /\ DOMAIN <<k>> = 1..1 /\ <<k>>[1] = k
        BY <2>2
      <3> QED BY <3>1 DEF Range
    <2>9. w[k] \in Seq(D) /\ Range(w[k]) = Range(FlattenSeq(seqs)) \cup {k}
      <3> DEFINE q == FlattenSeq(seqs)
                 r == <<k>>
      <3>1. q \in Seq(D) /\ r \in Seq(D) /\ w[k] = q \o r
        BY <2>6, <2>7, <2>8
      <3> HIDE DEF q, r
      <3>2. w[k] \in Seq(D) /\ Range(w[k]) = Range(q) \cup Range(r)
        BY <3>1, JoinMembers
      <3> QED BY <2>8, <3>2 DEF q, r
    <2>10. UNION {Range(seqs[i]) : i \in 1..n} = UNION {Above(sup, x) : x \in Range(s)}
      <3>1. Range(s) = {s[i] : i \in 1..n}
        BY <2>3 DEF Range
      <3> QED BY <2>5, <3>1
    <2>11. Above(sup, k) = {k} \cup UNION {Above(sup, x) : x \in Range(s)}
      BY <2>2, AboveUnfolds DEF D
    <2> QED BY <2>1, <2>7, <2>9, <2>10, <2>11
  <1> QED BY <1>1

(* What the fold of InheritOrder does at one set of places. *)
OnceStep(w, f, s) ==
  IF s = {} THEN <<>>
  ELSE IF w[Max(s)] \in Range(f[s \ {Max(s)}]) THEN f[s \ {Max(s)}]
  ELSE Append(f[s \ {Max(s)}], w[Max(s)])

(* A walk without what it comes to again has the same classes, once.       *)
LEMMA OnceIs ==
  ASSUME NEW D, NEW w \in Seq(D)
  PROVE  LET f0 == CHOOSE f : f = [s \in SUBSET (1..Len(w)) |-> OnceStep(w, f, s)]
             q == f0[1..Len(w)]
         IN q \in Seq(D) /\ IsQueue(q) /\ Range(q) = Range(w)
  <1> DEFINE n == Len(w)
             S == {q \in Seq(D) : IsQueue(q)}
             Next(q, x) == IF x \in Range(q) THEN q ELSE Append(q, x)
             F == [x \in (1..n) \X S |-> Next(x[2], w[x[1]])]
             Step(f, s) == OnceStep(w, f, s)
             f0 == CHOOSE f : f = [s \in SUBSET (1..n) |-> Step(f, s)]
  <1>1. n \in Nat /\ DOMAIN w = 1..n /\ \A k \in 1..n : w[k] \in D
    OBVIOUS
  <1> HIDE DEF n, S
  <1>2. ASSUME NEW q \in S, NEW k \in 1..n
        PROVE  Next(q, w[k]) \in S /\ Range(Next(q, w[k])) = Range(q) \cup {w[k]}
    <2>1. q \in Seq(D) /\ IsQueue(q) /\ w[k] \in D
      BY <1>1 DEF S
    <2>2. w[k] \notin Range(q) =>
            /\ Append(q, w[k]) \in Seq(D) /\ IsQueue(Append(q, w[k]))
            /\ Range(Append(q, w[k])) = Range(q) \cup {w[k]}
      BY <2>1, AppendQueue
    <2> QED BY <2>1, <2>2 DEF S
  <1>3. <<>> \in S /\ Range(<<>>) = {}
    BY DEF S, IsQueue, IsInjective, Range
  <1>4. F \in [(1..n) \X S -> S]
    <2>1. \A q \in S, k \in 1..n : Next(q, w[k]) \in S
      BY <1>2
    <2> HIDE DEF Next
    <2> QED BY <2>1
  <1>5. \E f : f = [s \in SUBSET (1..n) |-> Step(f, s)]
    <2>1. PICK f \in [SUBSET (1..n) -> S] : Folds(f, n, <<>>, F)
      <3> HIDE DEF F
      <3> QED BY <1>1, <1>3, <1>4, FoldExists
    <2>2. ASSUME NEW s \in SUBSET (1..n) PROVE f[s] = Step(f, s)
      <3>1. CASE s = {}
        BY <2>1, <3>1 DEF Folds, FoldStep, OnceStep
      <3>2. CASE s # {}
        <4>1. Max(s) \in 1..n /\ s \ {Max(s)} \in SUBSET (1..n)
          BY <1>1, <3>2, MaxPosition
        <4>2. <<Max(s), f[s \ {Max(s)}]>> \in (1..n) \X S
          BY <2>1, <4>1
        <4> QED BY <2>1, <3>2, <4>2 DEF Folds, FoldStep, OnceStep
      <3> QED BY <3>1, <3>2
    <2>3. f = [s \in SUBSET (1..n) |-> f[s]]
      OBVIOUS
    <2>4. f = [s \in SUBSET (1..n) |-> Step(f, s)]
      BY <2>2, <2>3
    <2> QED BY <2>4
  <1>6. f0 = [s \in SUBSET (1..n) |-> Step(f0, s)]
    BY <1>5
  <1> HIDE DEF f0
  <1>7. f0[1..0] = <<>>
    BY <1>6 DEF OnceStep
  <1>8. ASSUME NEW k \in 1..n PROVE f0[1..k] = Next(f0[1..(k - 1)], w[k])
    <2>1. k \in Nat \ {0} /\ 1..k \in SUBSET (1..n)
      BY <1>1
    <2>2. 1..k # {} /\ Max(1..k) = k /\ (1..k) \ {k} = 1..(k - 1)
      BY <2>1, FirstPositions
    <2>3. f0[1..k] = Step(f0, 1..k)
      BY <1>6, <2>1
    <2> QED BY <2>2, <2>3 DEF OnceStep
  <1> HIDE DEF Next
  <1> DEFINE Good(k) == f0[1..k] \in S /\ Range(f0[1..k]) = {w[i] : i \in 1..k}
             T == {k \in Nat : k <= n /\ ~ Good(k)}
  <1>9. Good(0)
    BY <1>3, <1>7
  <1>10. ASSUME NEW k \in 1..n, Good(k - 1) PROVE Good(k)
    <2> DEFINE p == f0[1..(k - 1)]
               q == f0[1..k]
               W(j) == {w[i] : i \in 1..j}
    <2>1. W(k) = W(k - 1) \cup {w[k]}
      <3>1. 1..k = (1..(k - 1)) \cup {k}
        OBVIOUS
      <3> QED BY <3>1
    <2>2. q = Next(p, w[k]) /\ p \in S /\ Range(p) = W(k - 1)
      BY <1>8, <1>10
    <2> HIDE DEF p, q, W
    <2>3. q \in S /\ Range(q) = W(k)
      BY <1>2, <2>1, <2>2
    <2> QED BY <2>3 DEF q, W
  <1>11. Good(n)
    <2> HIDE DEF Good
    <2>1. ASSUME T # {} PROVE FALSE
      <3>1. PICK k \in T : \A m \in T : k <= m
        <4>1. T \in SUBSET Nat
          OBVIOUS
        <4> QED BY <2>1, <4>1, LeastNat
      <3>2. k \in 1..n
        BY <1>1, <1>9, <3>1
      <3>3. Good(k - 1)
        BY <1>1, <3>1, <3>2
      <3> QED BY <1>10, <3>1, <3>2, <3>3
    <2> QED BY <1>1, <2>1
  <1>12. {w[i] : i \in 1..n} = Range(w)
    BY <1>1 DEF Range
  <1> QED BY <1>11, <1>12 DEF n, S, f0

(* Slots are inherited from the classes above, from each once. *)
LEMMA InheritOrderIs ==
  ASSUME Hierarchy(superclasses), NEW c \in DOMAIN superclasses
  PROVE  LET q == InheritOrder(c)
             D == DOMAIN superclasses
         IN q \in Seq(D) /\ IsQueue(q) /\ Range(q) = Above(superclasses, c) \ {c}
  <1> DEFINE sup == superclasses
             D == DOMAIN sup
             w == CHOOSE f : Walks(sup, f, D)
             f0 == CHOOSE f : f = [s \in SUBSET (1..Len(w[c])) |-> OnceStep(w[c], f, s)]
             q == f0[1..Len(w[c])]
  <1>1. Walks(sup, w, D)
    BY WalkExists
  <1>2. w[c] \in Seq(D) /\ Range(w[c]) = Above(sup, c)
    <2> HIDE DEF w
    <2> QED BY <1>1, WalkIs
  <1>3. InheritOrder(c) = Without(q, c)
    <2>1. DOMAIN w[c] = 1..Len(w[c])
      BY <1>2
    <2> QED BY <2>1 DEF InheritOrder, FoldLeft, MapThenFoldSet, OnceStep, WalkStep, Walks
  <1> HIDE DEF w, D
  <1>4. q \in Seq(D) /\ IsQueue(q) /\ Range(q) = Above(sup, c)
    BY <1>2, OnceIs
  <1>5. c \in Above(sup, c)
    BY AboveFacts DEF D
  <1> HIDE DEF q
  <1> QED BY <1>3, <1>4, <1>5, WithoutQueue DEF D

(* What a class inherits: the slots of all classes above it, once each.    *)
LEMMA InheritedIs ==
  ASSUME Hierarchy(superclasses), NEW c \in DOMAIN superclasses,
         NamesApart(newSlots, Above(superclasses, c) \ {c}), NEW each \in BOOLEAN
  PROVE  LET q == Inherited(c, each)
             S == SlotsAmong(newSlots, Above(superclasses, c) \ {c}, each)
         IN q \in Seq(S) /\ IsQueue(q) /\ Range(q) = S
  <1> DEFINE D == DOMAIN superclasses
             A == Above(superclasses, c) \ {c}
             S == SlotsAmong(newSlots, A, each)
             o == InheritOrder(c)
             n == Len(o)
             seqs == [i \in 1..n |-> SlotsIn(newSlots, o[i], each)]
  <1>1. o \in Seq(D) /\ IsQueue(o) /\ Range(o) = A
    BY InheritOrderIs
  <1> HIDE DEF o, D, A
  <1>2. n \in Nat /\ DOMAIN o = 1..n /\ \A i \in 1..n : o[i] \in A
    BY <1>1, InQueue
  <1>3. Inherited(c, each) = FlattenSeq(seqs)
    <2>1. \A k : SlotsOf(k, each) = SlotsIn(newSlots, k, each)
      BY FindsAre
    <2> HIDE DEF n
    <2> QED BY <1>2, <2>1 DEF Inherited, o
  <1>4. ASSUME NEW i \in 1..n
        PROVE  /\ seqs[i] \in Seq(S) /\ IsQueue(seqs[i])
               /\ Range(seqs[i]) = SlotsAmong(newSlots, {o[i]}, each)
    <2> DEFINE k == o[i]
               q == SlotsIn(newSlots, k, each)
               K == SlotsAmong(newSlots, {k}, each)
    <2>1. k \in A /\ NamesApart(newSlots, {k})
      BY <1>2 DEF NamesApart, A
    <2> HIDE DEF k, q
    <2>2. q \in Seq(K) /\ IsQueue(q) /\ Range(q) = K
      BY <2>1, SlotsInAre DEF q
    <2>3. K \subseteq S
      BY <2>1 DEF SlotsAmong, AllSlots
    <2>4. seqs[i] = q
      BY DEF q, k
    <2> HIDE DEF S, seqs, K
    <2>5. q \in Seq(S)
      BY <2>2, <2>3
    <2> QED BY <2>2, <2>4, <2>5 DEF k, K
  <1>5. ASSUME NEW i \in 1..n, NEW j \in 1..n, i # j
        PROVE  Range(seqs[i]) \cap Range(seqs[j]) = {}
    <2>1. o[i] # o[j]
      BY <1>1, <1>2, <1>5 DEF IsQueue, IsInjective
    <2>2. SlotsAmong(newSlots, {o[i]}, each) \cap SlotsAmong(newSlots, {o[j]}, each) = {}
      BY <2>1 DEF SlotsAmong, AllSlots
    <2> HIDE DEF seqs
    <2> QED BY <1>4, <2>2
  <1>6. UNION {Range(seqs[i]) : i \in 1..n} = S
    <2>1. A = {o[i] : i \in 1..n}
      BY <1>1, <1>2 DEF Range
    <2>2. S = UNION {SlotsAmong(newSlots, {o[i]}, each) : i \in 1..n}
      <3> HIDE DEF n
      <3> QED BY <2>1 DEF SlotsAmong, AllSlots
    <2> HIDE DEF seqs, S
    <2> QED BY <1>4, <2>2
  <1>7. seqs \in [1..n -> Seq(S)]
    <2>1. \A i \in 1..n : seqs[i] \in Seq(S)
      BY <1>4
    <2>2. seqs = [i \in 1..n |-> seqs[i]]
      OBVIOUS
    <2> HIDE DEF seqs, S, n
    <2> QED BY <2>1, <2>2
  <1> HIDE DEF seqs, S, n
  <1>8. /\ FlattenSeq(seqs) \in Seq(S)
        /\ Range(FlattenSeq(seqs)) = UNION {Range(seqs[i]) : i \in 1..n}
    BY <1>2, <1>7, FlattenMembers
  <1>9. IsQueue(FlattenSeq(seqs))
    <2>1. CASE n = 0
      <3>1. UNION {Range(seqs[i]) : i \in 1..n} = {}
        BY <2>1
      <3> DEFINE q == FlattenSeq(seqs)
      <3> HIDE DEF q
      <3>2. q \in Seq(S) /\ Range(q) = {}
        BY <1>8, <3>1 DEF q
      <3>3. DOMAIN q = {}
        BY <3>2 DEF Range
      <3> QED BY <3>3 DEF IsQueue, IsInjective, q
    <2>2. CASE n # 0
      <3>1. n \in Nat \ {0}
        BY <1>2, <2>2
      <3> QED BY <1>4, <1>5, <1>7, <3>1, FlattenQueues
    <2> QED BY <2>1, <2>2
  <1> QED BY <1>3, <1>6, <1>8, <1>9 DEF S, A

(* No two of the slots above have one getter: so none of one class do.     *)
LEMMA NoneClash ==
  ASSUME Hierarchy(superclasses), NEW c \in DOMAIN superclasses,
         \A k \in Above(superclasses, c) \ {c} : newSlots[k] \in Seq(Range(newSlots[k]))
  PROVE  LET above == InheritOrder(c)
             inherited == FlattenSeq([i \in DOMAIN above |-> newSlots[above[i]]])
             N == UNION {Range(newSlots[k]) : k \in Above(superclasses, c) \ {c}}
         IN /\ inherited \in Seq(N)
            /\ ~ Clash(inherited) => NamesApart(newSlots, Above(superclasses, c) \ {c})
  <1> DEFINE D == DOMAIN superclasses
             A == Above(superclasses, c) \ {c}
             N == UNION {Range(newSlots[k]) : k \in A}
             o == InheritOrder(c)
             n == Len(o)
             seqs == [i \in 1..n |-> newSlots[o[i]]]
  <1>1. o \in Seq(D) /\ IsQueue(o) /\ Range(o) = A
    BY InheritOrderIs
  <1>2. \A k \in A : newSlots[k] \in Seq(Range(newSlots[k]))
    OBVIOUS
  <1> HIDE DEF o, D, A
  <1>3. n \in Nat /\ DOMAIN o = 1..n /\ \A i \in 1..n : o[i] \in A
    BY <1>1, InQueue
  <1>4. \A k \in A : Range(newSlots[k]) \subseteq N
    OBVIOUS
  <1> HIDE DEF N, n
  <1>5. seqs \in [1..n -> Seq(N)]
    <2>1. \A k \in A : newSlots[k] \in Seq(N)
      BY <1>2, <1>4
    <2> QED BY <1>3, <2>1
  <1>6. \A i \in 1..n : seqs[i] = newSlots[o[i]]
    OBVIOUS
  <1>7. [i \in DOMAIN o |-> newSlots[o[i]]] = seqs
    BY <1>3
  <1> HIDE DEF seqs
  <1>8. /\ FlattenSeq(seqs) \in Seq(N)
        /\ IsInjective(FlattenSeq(seqs)) => \A i \in 1..n : IsInjective(seqs[i])
    BY <1>3, <1>5, FlattenMembers
  <1>9. \A k \in A : \E i \in 1..n : o[i] = k
    BY <1>1, InQueue DEF n
  <1>10. IsInjective(FlattenSeq(seqs)) => NamesApart(newSlots, A)
    BY <1>2, <1>6, <1>8, <1>9 DEF NamesApart
  <1> QED BY <1>7, <1>8, <1>10 DEF Clash, o, A, N

(* The places of a finite set of numbers, by their number. *)
LEMMA NthPlaces ==
  ASSUME NEW P \in SUBSET Nat, IsFiniteSet(P)
  PROVE  {NthPlace(P, n) : n \in 1..Cardinality(P)} = P
  <1> DEFINE N == Cardinality(P)
             UpTo(p) == {q \in P : q <= p}
             rank == [p \in P |-> Cardinality(UpTo(p))]
  <1>1. N \in Nat
    BY FS_CardinalityType
  <1>2. ASSUME NEW p \in P PROVE IsFiniteSet(UpTo(p)) /\ rank[p] \in 1..N
    <2>1. p \in UpTo(p) /\ UpTo(p) \subseteq P
      OBVIOUS
    <2> HIDE DEF UpTo
    <2>2. IsFiniteSet(UpTo(p)) /\ Cardinality(UpTo(p)) \in Nat /\ Cardinality(UpTo(p)) <= N
      BY <2>1, FS_Subset, FS_CardinalityType
    <2>3. Cardinality(UpTo(p)) # 0
      BY <2>1, <2>2, FS_EmptySet
    <2> QED BY <1>1, <2>2, <2>3
  <1>3. ASSUME NEW p \in P, NEW q \in P, p < q PROVE rank[p] # rank[q]
    <2>1. UpTo(p) \subseteq UpTo(q) /\ q \in UpTo(q) /\ q \notin UpTo(p)
      <3>1. p \in Nat /\ q \in Nat /\ \A x \in P : x \in Nat
        OBVIOUS
      <3>2. \A x \in P : x <= p => x <= q
        BY <1>3, <3>1
      <3>3. ~ (q <= p) /\ q <= q
        BY <1>3, <3>1
      <3> QED BY <3>2, <3>3
    <2> HIDE DEF UpTo
    <2>2. Cardinality(UpTo(p)) # Cardinality(UpTo(q))
      BY <1>2, <2>1, FS_Subset
    <2> QED BY <2>2
  <1> HIDE DEF UpTo
  <1>4. rank \in [P -> 1..N] /\ IsInjective(rank)
    <2>1. rank \in [P -> 1..N]
      BY <1>2
    <2>2. ASSUME NEW p \in P, NEW q \in P, rank[p] = rank[q] PROVE p = q
      <3>1. p \in Nat /\ q \in Nat
        OBVIOUS
      <3>2. ~ (p < q) /\ ~ (q < p)
        BY <1>3, <2>2
      <3> QED BY <3>1, <3>2
    <2> HIDE DEF rank, N
    <2> QED BY <2>1, <2>2 DEF IsInjective
  <1>5. \A n \in 1..N : \E p \in P : rank[p] = n
    <2> HIDE DEF rank
    <2>1. rank \in Injection(P, 1..N)
      BY <1>4 DEF Injection
    <2>2. IsFiniteSet(1..N) /\ Cardinality(1..N) = N
      BY <1>1, FS_Interval
    <2>3. rank \in Surjection(P, 1..N)
      BY <2>1, <2>2, FS_Injection
    <2> QED BY <2>3 DEF Surjection
  <1>6. ASSUME NEW p \in P PROVE NthPlace(P, rank[p]) = p
    <2> DEFINE n == rank[p]
    <2>1. \A q \in P : rank[q] = n <=> q = p
      BY <1>4 DEF IsInjective
    <2>2. NthPlace(P, n) = CHOOSE q \in P : rank[q] = n
      BY DEF NthPlace, UpTo
    <2> HIDE DEF rank, n
    <2> QED BY <2>1, <2>2 DEF n
  <1> HIDE DEF rank, N
  <1>7. \A n \in 1..N : NthPlace(P, n) \in P
    BY <1>5, <1>6
  <1>8. \A p \in P : rank[p] \in 1..N
    BY <1>4
  <1> QED BY <1>6, <1>7, <1>8 DEF N

-----------------------------------------------------------------------------
(***************************************************************************)
(* The displaced slots and the places left free.                           *)
(***************************************************************************)
(* What the fold of Displaced does at one slot, and at one set of places.  *)
DisplaceOne(d, s) ==
  IF DesiredOffset(s) \in d.taken THEN [d EXCEPT !.slots = <<s>> \o @]
  ELSE [d EXCEPT !.taken = @ \cup {DesiredOffset(s)}]

DisplaceStep(q, f, s) ==
  IF s = {} THEN [taken |-> {}, slots |-> <<>>]
  ELSE DisplaceOne(f[s \ {Max(s)}], q[Max(s)])

(* What has become of some slots: those not displaced have their places.   *)
Settled(d, P) ==
  /\ d.slots \in Seq(P) /\ IsQueue(d.slots)
  /\ d.taken = {DesiredOffset(s) : s \in P \ Range(d.slots)}
  /\ IsFiniteSet(d.taken)

LEMMA OneDisplaced ==
  ASSUME NEW P, NEW d \in [taken : SUBSET Nat, slots : Seq(P)], Settled(d, P), NEW t, t \notin P,
         DesiredOffset(t) \in Nat
  PROVE  LET d2 == DisplaceOne(d, t)
         IN /\ d2 \in [taken : SUBSET Nat, slots : Seq(P \cup {t})] /\ Settled(d2, P \cup {t})
            /\ Cardinality(d2.taken) + Len(d2.slots) = Cardinality(d.taken) + Len(d.slots) + 1
  <1> DEFINE d2 == DisplaceOne(d, t)
             P2 == P \cup {t}
             x == DesiredOffset(t)
             OneMore == /\ d2 \in [taken : SUBSET Nat, slots : Seq(P2)] /\ Settled(d2, P2)
                      /\ Cardinality(d2.taken) + Len(d2.slots) = Cardinality(d.taken) + Len(d.slots) + 1
  <1> HIDE DEF x, OneMore
  <1>1. /\ d.slots \in Seq(P) /\ IsQueue(d.slots) /\ Range(d.slots) \subseteq P
        /\ d.taken = {DesiredOffset(s) : s \in P \ Range(d.slots)} /\ d.taken \in SUBSET Nat
        /\ IsFiniteSet(d.taken) /\ Cardinality(d.taken) \in Nat /\ Len(d.slots) \in Nat
    BY InQueue, FS_CardinalityType DEF Settled
  <1>2. d.slots \in Seq(P2)
    BY <1>1
  <1>3. ASSUME x \in d.taken PROVE OneMore
    <2>1. d2 = [d EXCEPT !.slots = <<t>> \o @]
      BY <1>3 DEF DisplaceOne, x
    <2>2. d2.taken = d.taken /\ d2.slots = <<t>> \o d.slots
      BY <2>1
    <2>3. /\ d2.slots \in Seq(P2) /\ IsQueue(d2.slots) /\ Range(d2.slots) = Range(d.slots) \cup {t}
      BY <1>1, <1>2, <2>2, ConsQueue
    <2>4. Len(d2.slots) = Len(d.slots) + 1
      BY <1>1, <2>2
    <2>5. P2 \ Range(d2.slots) = P \ Range(d.slots)
      BY <2>3
    <2>6. Settled(d2, P2)
      BY <1>1, <2>2, <2>3, <2>5 DEF Settled
    <2>7. d2 \in [taken : SUBSET Nat, slots : Seq(P2)]
      <3> DEFINE q == <<t>> \o d.slots
      <3> HIDE DEF q
      <3>1. q \in Seq(P2)
        BY <2>2, <2>3 DEF q
      <3>2. d2 = [d EXCEPT !.slots = q]
        BY <2>1 DEF q
      <3> HIDE DEF d2, P2
      <3> QED BY <3>1, <3>2
    <2> HIDE DEF d2, P2
    <2> QED BY <1>1, <2>2, <2>4, <2>6, <2>7 DEF OneMore
  <1>4. ASSUME x \notin d.taken PROVE OneMore
    <2>1. d2 = [d EXCEPT !.taken = @ \cup {x}]
      BY <1>4 DEF DisplaceOne, x
    <2>2. d2.taken = d.taken \cup {x} /\ d2.slots = d.slots
      BY <2>1
    <2>3. P2 \ Range(d2.slots) = (P \ Range(d.slots)) \cup {t}
      BY <1>1, <2>2
    <2>4. d2.taken = {DesiredOffset(s) : s \in P2 \ Range(d2.slots)}
      <3> DEFINE R == P \ Range(d.slots)
      <3> HIDE DEF R
      <3>1. d.taken = {DesiredOffset(s) : s \in R}
        BY <1>1 DEF R
      <3>2. {DesiredOffset(s) : s \in R \cup {t}} = {DesiredOffset(s) : s \in R} \cup {x}
        BY DEF x
      <3> QED BY <2>2, <2>3, <3>1, <3>2 DEF R
    <2>5. IsFiniteSet(d2.taken) /\ Cardinality(d2.taken) = Cardinality(d.taken) + 1
      <3> DEFINE A == d.taken
      <3> HIDE DEF A
      <3>1. IsFiniteSet(A) /\ x \notin A
        BY <1>1, <1>4 DEF A
      <3>2. IsFiniteSet(A \cup {x}) /\ Cardinality(A \cup {x}) = Cardinality(A) + 1
        BY <3>1, FS_AddElement
      <3>3. d2.taken = A \cup {x}
        BY <2>2 DEF A
      <3> HIDE DEF d2
      <3> QED BY <3>2, <3>3 DEF A
    <2>6. Settled(d2, P2)
      BY <1>1, <1>2, <2>2, <2>4, <2>5 DEF Settled
    <2>7. d2 \in [taken : SUBSET Nat, slots : Seq(P2)]
      <3>1. x \in Nat
        BY DEF x
      <3> HIDE DEF P2
      <3> QED BY <1>2, <2>1, <3>1
    <2> HIDE DEF d2, P2
    <2> QED BY <1>1, <2>2, <2>5, <2>6, <2>7 DEF OneMore
  <1>5. OneMore
    BY <1>3, <1>4
  <1> QED BY <1>5 DEF OneMore

(* Of all inherited slots those that found their places have them, and the *)
(* others wait, once each.                                                 *)
LEMMA DisplacedIs ==
  ASSUME NEW S, NEW c, NEW each, Inherited(c, each) \in Seq(S), IsQueue(Inherited(c, each)),
         Range(Inherited(c, each)) = S, \A s \in S : DesiredOffset(s) \in Nat
  PROVE  LET d == Displaced(c, each)
         IN /\ Settled(d, S)
            /\ Cardinality(d.taken) + Len(d.slots) = Len(Inherited(c, each))
  <1> DEFINE q == Inherited(c, each)
             n == Len(q)
             R == [taken : SUBSET Nat, slots : Seq(S)]
             a == [taken |-> {}, slots |-> <<>>]
             F == [x \in (1..n) \X R |-> DisplaceOne(x[2], q[x[1]])]
             Step(f, s) == DisplaceStep(q, f, s)
             f0 == CHOOSE f : f = [s \in SUBSET (1..n) |-> Step(f, s)]
             P(k) == {q[i] : i \in 1..k}
  <1> HIDE DEF q
  <1>1. q \in Seq(S) /\ IsQueue(q) /\ n \in Nat /\ DOMAIN q = 1..n /\ \A i \in 1..n : q[i] \in S
    BY DEF q
  <1>2. Displaced(c, each) = f0[1..n]
    <2> HIDE DEF n
    <2> QED BY <1>1 DEF Displaced, FoldLeft, MapThenFoldSet, DisplaceStep, DisplaceOne, q
  <1> HIDE DEF n
  <1>3. ASSUME NEW d \in R, NEW k \in 1..n PROVE DisplaceOne(d, q[k]) \in R
    <2> DEFINE t == q[k]
               x == DesiredOffset(t)
               r == <<t>> \o d.slots
    <2>1. t \in S /\ x \in Nat
      BY <1>1
    <2>2. <<t>> \o d.slots \in Seq(S)
      BY <2>1
    <2> HIDE DEF t, x, r
    <2>3. DisplaceOne(d, t) = IF x \in d.taken THEN [d EXCEPT !.slots = r]
                              ELSE [d EXCEPT !.taken = @ \cup {x}]
      BY DEF DisplaceOne, x, r
    <2>4. r \in Seq(S)
      BY <2>2 DEF r
    <2>5. DisplaceOne(d, t) \in R
      BY <2>1, <2>3, <2>4
    <2> QED BY <2>5 DEF t
  <1>4. a \in R
    OBVIOUS
  <1> HIDE DEF R, a
  <1>5. F \in [(1..n) \X R -> R]
    BY <1>3
  <1>6. \E f : f = [s \in SUBSET (1..n) |-> Step(f, s)]
    <2>1. PICK f \in [SUBSET (1..n) -> R] : Folds(f, n, a, F)
      <3> HIDE DEF F
      <3> QED BY <1>1, <1>4, <1>5, FoldExists
    <2>2. ASSUME NEW s \in SUBSET (1..n) PROVE f[s] = Step(f, s)
      <3>1. CASE s = {}
        BY <2>1, <3>1 DEF Folds, FoldStep, DisplaceStep, a
      <3>2. CASE s # {}
        <4>1. Max(s) \in 1..n /\ s \ {Max(s)} \in SUBSET (1..n)
          BY <1>1, <3>2, MaxPosition
        <4>2. <<Max(s), f[s \ {Max(s)}]>> \in (1..n) \X R
          BY <2>1, <4>1
        <4> QED BY <2>1, <3>2, <4>2 DEF Folds, FoldStep, DisplaceStep
      <3> QED BY <3>1, <3>2
    <2>3. f = [s \in SUBSET (1..n) |-> f[s]]
      OBVIOUS
    <2>4. f = [s \in SUBSET (1..n) |-> Step(f, s)]
      BY <2>2, <2>3
    <2> QED BY <2>4
  <1>7. f0 = [s \in SUBSET (1..n) |-> Step(f0, s)]
    BY <1>6
  <1> HIDE DEF f0, F
  <1>8. f0[1..0] = a
    BY <1>7 DEF DisplaceStep, a
  <1>9. ASSUME NEW k \in 1..n PROVE f0[1..k] = DisplaceOne(f0[1..(k - 1)], q[k])
    <2>1. k \in Nat \ {0} /\ 1..k \in SUBSET (1..n)
      BY <1>1
    <2>2. 1..k # {} /\ Max(1..k) = k /\ (1..k) \ {k} = 1..(k - 1)
      BY <2>1, FirstPositions
    <2>3. f0[1..k] = Step(f0, 1..k)
      BY <1>7, <2>1
    <2> QED BY <2>2, <2>3 DEF DisplaceStep
  <1> DEFINE D(k) == f0[1..k]
             Good(k) == /\ D(k) \in [taken : SUBSET Nat, slots : Seq(P(k))] /\ Settled(D(k), P(k))
                        /\ Cardinality(D(k).taken) + Len(D(k).slots) = k
             T == {k \in Nat : k <= n /\ ~ Good(k)}
  <1>10. Good(0)
    <2>1. P(0) = {} /\ D(0) = a
      BY <1>8
    <2>2. a.taken = {} /\ a.slots = <<>> /\ Len(a.slots) = 0 /\ a.slots \in Seq({})
          /\ Range(<<>>) = {} /\ a \in [taken : SUBSET Nat, slots : Seq({})]
      BY DEF a, Range
    <2>3. Settled(a, {})
      BY <2>2, FS_EmptySet DEF Settled, IsQueue, IsInjective
    <2>4. Cardinality(a.taken) + Len(a.slots) = 0
      BY <2>2, FS_EmptySet
    <2> HIDE DEF P, D
    <2> QED BY <2>1, <2>2, <2>3, <2>4
  <1>11. ASSUME NEW k \in 1..n, Good(k - 1) PROVE Good(k)
    <2>1. P(k) = P(k - 1) \cup {q[k]} /\ q[k] \notin P(k - 1)
      <3>1. 1..k = (1..(k - 1)) \cup {k}
        OBVIOUS
      <3>2. ASSUME NEW i \in 1..(k - 1) PROVE q[i] # q[k]
        <4>1. i \in DOMAIN q /\ k \in DOMAIN q /\ i # k
          BY <1>1
        <4> HIDE DEF Good, P, D
        <4> QED BY <1>1, <4>1 DEF IsQueue, IsInjective
      <3> HIDE DEF Good, D
      <3> QED BY <3>1, <3>2
    <2>2. D(k) = DisplaceOne(D(k - 1), q[k])
      BY <1>9
    <2>3. DesiredOffset(q[k]) \in Nat
      BY <1>1
    <2> HIDE DEF P, D
    <2> DEFINE d == D(k - 1)
               A == P(k - 1)
               t == q[k]
    <2>4. /\ d \in [taken : SUBSET Nat, slots : Seq(A)] /\ Settled(d, A)
          /\ Cardinality(d.taken) + Len(d.slots) = k - 1
      BY <1>11
    <2> HIDE DEF d, A, t
    <2>5. LET d2 == DisplaceOne(d, t)
          IN /\ d2 \in [taken : SUBSET Nat, slots : Seq(A \cup {t})] /\ Settled(d2, A \cup {t})
             /\ Cardinality(d2.taken) + Len(d2.slots) = Cardinality(d.taken) + Len(d.slots) + 1
      BY <2>1, <2>3, <2>4, OneDisplaced DEF A, t
    <2>6. D(k) = DisplaceOne(d, t) /\ P(k) = A \cup {t}
      BY <2>1, <2>2 DEF d, A, t
    <2>7. k \in Nat /\ k - 1 + 1 = k
      OBVIOUS
    <2> QED BY <2>4, <2>5, <2>6, <2>7
  <1>12. Good(n)
    <2> HIDE DEF Good
    <2>1. ASSUME T # {} PROVE FALSE
      <3>1. PICK k \in T : \A m \in T : k <= m
        <4>1. T \in SUBSET Nat
          OBVIOUS
        <4> QED BY <2>1, <4>1, LeastNat
      <3>2. k \in 1..n
        BY <1>1, <1>10, <3>1
      <3>3. Good(k - 1)
        BY <1>1, <3>1, <3>2
      <3> QED BY <1>11, <3>1, <3>2, <3>3
    <2> QED BY <1>1, <2>1
  <1>13. P(n) = S
    BY <1>1 DEF Range, q
  <1> HIDE DEF P
  <1> QED BY <1>2, <1>12, <1>13 DEF q, n

(* The place of a slot by a table of displaced slots: find_position.       *)
PlacedBy(table, lists, slots, s) ==
  IF s \in DOMAIN table THEN table[s] ELSE OffsetIn(lists, slots, s)

(* The slots of S take just the first places, as many as they are. *)
Fills(table, lists, slots, S) ==
  /\ \A s \in S : PlacedBy(table, lists, slots, s) \in 0..(Cardinality(S) - 1)
  /\ \A p \in 0..(Cardinality(S) - 1) : \E s \in S : PlacedBy(table, lists, slots, s) = p

(* The displaced slots are as many as the free places, and each finds one. *)
LEMMA PositionsFill ==
  ASSUME Hierarchy(superclasses), NEW c \in DOMAIN superclasses,
         \A k \in Above(superclasses, c) : FollowsOn(superclasses, cpl, k),
         NamesApart(newSlots, Above(superclasses, c) \ {c}), NEW each \in BOOLEAN
  PROVE  LET table == ComputePositions(c, each)
             S == SlotsAmong(newSlots, Above(superclasses, c) \ {c}, each)
         IN DOMAIN table \subseteq S /\ Fills(table, cpl, newSlots, S)
  <1> DEFINE table == ComputePositions(c, each)
             S == SlotsAmong(newSlots, Above(superclasses, c) \ {c}, each)
             q == Inherited(c, each)
             d == Displaced(c, each)
             w == d.slots
             n == Cardinality(S)
             free == (0..(n - 1)) \ d.taken
             At(s) == OffsetIn(cpl, newSlots, s)
  <1>1. FollowsOn(superclasses, cpl, c)
    BY AboveFacts
  <1>2. IsFiniteSet(S) /\ n \in Nat /\ InheritedLength(c, each) = n
    BY <1>1, InheritedLengths, FindsAre
  <1>3. q \in Seq(S) /\ IsQueue(q) /\ Range(q) = S /\ Len(q) = n
    <2>1. q \in Seq(S) /\ IsQueue(q) /\ Range(q) = S
      BY InheritedIs
    <2> HIDE DEF q, S
    <2> QED BY <2>1, QueueCounts DEF n
  <1>4. \A s : DesiredOffset(s) = At(s)
    BY FindsAre
  <1>5. ASSUME NEW s \in S PROVE At(s) \in 0..(n - 1)
    BY InheritedOffsets
  <1>6. table = [s \in Range(w) |-> NthPlace(free, PlaceOf(w, s))]
    <2>1. table = [s \in Range(w) |->
                     NthPlace((0..(InheritedLength(c, each) - 1)) \ d.taken,
                              SelectInSeq(w, LAMBDA s2 : s2 = s))]
      BY DEF ComputePositions
    <2>2. \A s : SelectInSeq(w, LAMBDA s2 : s2 = s) = PlaceOf(w, s)
      BY DEF SelectInSeq, PlaceOf
    <2> HIDE DEF w, table, n, d
    <2> QED BY <1>2, <2>1, <2>2
  <1>7. Settled(d, S) /\ Cardinality(d.taken) + Len(w) = n
    <2>1. \A s \in S : DesiredOffset(s) \in Nat
      BY <1>2, <1>4, <1>5
    <2> HIDE DEF S, d, n
    <2> QED BY <1>3, <2>1, DisplacedIs DEF d, q
  <1> HIDE DEF S, q, d, n, At, table
  <1>8. /\ w \in Seq(S) /\ IsQueue(w) /\ Range(w) \subseteq S /\ Len(w) \in Nat
        /\ IsFiniteSet(d.taken) /\ Cardinality(d.taken) \in Nat
        /\ d.taken = {At(s) : s \in S \ Range(w)}
    <2>1. w \in Seq(S) /\ IsQueue(w) /\ IsFiniteSet(d.taken)
          /\ d.taken = {DesiredOffset(s) : s \in S \ Range(w)}
      BY <1>7 DEF Settled
    <2>2. d.taken = {At(s) : s \in S \ Range(w)}
      BY <1>4, <2>1
    <2> QED BY <2>1, <2>2, InQueue, FS_CardinalityType
  <1>9. d.taken \subseteq 0..(n - 1)
    BY <1>5, <1>8
  <1>10. free \in SUBSET Nat /\ IsFiniteSet(free) /\ Cardinality(free) = Len(w)
    <2>1. IsFiniteSet(0..(n - 1)) /\ Cardinality(0..(n - 1)) = n
      <3>1. \A a, b \in Int : IsFiniteSet(a..b) /\ Cardinality(a..b) = IF a > b THEN 0 ELSE b - a + 1
        BY FS_Interval
      <3>2. 0 \in Int /\ n - 1 \in Int /\ (0 > n - 1 => n = 0) /\ n - 1 - 0 + 1 = n
        BY <1>2
      <3> HIDE DEF free
      <3> QED BY <3>1, <3>2
    <2>2. IsFiniteSet(free)
      BY <2>1, FS_Difference
    <2> DEFINE A == d.taken
    <2> HIDE DEF A
    <2>3. A \cap free = {} /\ A \cup free = 0..(n - 1)
      BY <1>9 DEF A
    <2> HIDE DEF free
    <2>4. Cardinality(A \cup free) = Cardinality(A) + Cardinality(free)
      BY <1>8, <2>2, <2>3, ApartAdd DEF A
    <2>5. Cardinality(free) \in Nat
      BY <2>2, FS_CardinalityType
    <2>6. Cardinality(free) = Len(w)
      <3> HIDE DEF w
      <3>1. Cardinality(A) + Cardinality(free) = n
        BY <2>1, <2>3, <2>4
      <3>2. Cardinality(A) + Len(w) = n /\ Cardinality(A) \in Nat /\ Len(w) \in Nat
        BY <1>7, <1>8 DEF A
      <3> QED BY <2>5, <3>1, <3>2
    <2>7. free \in SUBSET Nat
      BY <1>2 DEF free
    <2> QED BY <2>2, <2>6, <2>7
  <1> HIDE DEF free
  <1>11. {NthPlace(free, i) : i \in 1..Len(w)} = free
    BY <1>10, NthPlaces
  <1>12. /\ \A i \in 1..Len(w) : w[i] \in Range(w) /\ PlaceOf(w, w[i]) = i
         /\ \A s \in Range(w) : PlaceOf(w, s) \in 1..Len(w)
    BY <1>8, PlaceOfIs, InQueue
  <1> HIDE DEF w
  <1>13. DOMAIN table = Range(w) /\ \A s \in Range(w) : table[s] = NthPlace(free, PlaceOf(w, s))
    BY <1>6
  <1>14. \A s : PlacedBy(table, cpl, newSlots, s) = IF s \in Range(w) THEN table[s] ELSE At(s)
    BY <1>13 DEF PlacedBy, At
  <1>15. free \subseteq 0..(n - 1) /\ \A p \in 0..(n - 1) : p \in d.taken \/ p \in free
    BY DEF free
  <1>16. ASSUME NEW s \in S PROVE PlacedBy(table, cpl, newSlots, s) \in 0..(n - 1)
    <2>1. CASE s \in Range(w)
      <3>1. table[s] \in free
        BY <1>11, <1>12, <1>13, <2>1
      <3> QED BY <1>14, <1>15, <2>1, <3>1
    <2>2. CASE s \notin Range(w)
      BY <1>5, <1>14, <2>2
    <2> QED BY <2>1, <2>2
  <1>17. ASSUME NEW p \in 0..(n - 1) PROVE \E s \in S : PlacedBy(table, cpl, newSlots, s) = p
    <2>1. CASE p \in d.taken
      <3>1. PICK s \in S \ Range(w) : At(s) = p
        BY <1>8, <2>1
      <3> QED BY <1>14, <3>1
    <2>2. CASE p \in free
      <3>1. PICK i \in 1..Len(w) : NthPlace(free, i) = p
        BY <1>11, <2>2
      <3>2. w[i] \in S /\ w[i] \in Range(w) /\ table[w[i]] = p
        BY <1>8, <1>12, <1>13, <3>1
      <3> QED BY <1>14, <3>2
    <2> QED BY <1>15, <2>1, <2>2
  <1>18. Fills(table, cpl, newSlots, S)
    BY <1>16, <1>17 DEF Fills, n
  <1> QED BY <1>8, <1>13, <1>18 DEF table, S

-----------------------------------------------------------------------------
(***************************************************************************)
(* The invariant of the layout: definitions follow one another as          *)
(* defclass1 and defclass2 rely on, and the slots of a finished class      *)
(* fill its instances.  It holds even of what was made before the code     *)
(* followed #f.                                                            *)
(***************************************************************************)
WellListed(sup, lists, slots) ==
  /\ Hierarchy(sup) /\ DOMAIN slots \subseteq DOMAIN lists /\ DOMAIN lists \subseteq DOMAIN sup
  /\ \A k \in DOMAIN lists : FollowsOn(sup, lists, k)
  /\ \A k \in DOMAIN slots : slots[k] \in Seq(Range(slots[k])) /\ Above(sup, k) \subseteq DOMAIN slots

WellLaid(sup, lists, slots, tables, missed, c) ==
  /\ NamesApart(slots, Above(sup, c))
  /\ \A each \in Layouts :
       /\ DOMAIN tables[each] \subseteq missed
       /\ Fills(tables[each], lists, slots, SlotsAmong(slots, Above(sup, c), each))

SlotInv ==
  /\ WellListed(superclasses, cpl, newSlots)
  /\ finished \subseteq DOMAIN newSlots /\ finished \subseteq DOMAIN positions
  /\ \A c \in finished : WellLaid(superclasses, cpl, newSlots, positions[c], everMissed, c)

(* What others do to their lists and slots does not move a slot.           *)
LEMMA OffsetStays ==
  ASSUME NEW sup, Hierarchy(sup), NEW lists, NEW lists2, NEW slots, NEW slots2,
         NEW s, s[1] \in DOMAIN sup, FollowsOn(sup, lists, s[1]), lists2[s[1]] = lists[s[1]],
         NamesApart(slots, Above(sup, s[1])), \A k \in Above(sup, s[1]) : slots2[k] = slots[k]
  PROVE  OffsetIn(lists2, slots2, s) = OffsetIn(lists, slots, s)
  <1> DEFINE c == s[1]
             each == s[2] \in EachSubclass
             A == Above(sup, c) \ {c}
  <1>1. c \in Above(sup, c) /\ each \in BOOLEAN
    BY AboveFacts
  <1>2. FollowsOn(sup, lists2, c)
    BY DEF FollowsOn
  <1>3. NamesApart(slots, A) /\ NamesApart(slots2, A)
    BY DEF NamesApart
  <1>4. SlotsAmong(slots2, A, each) = SlotsAmong(slots, A, each)
    BY DEF SlotsAmong, AllSlots
  <1>5. SlotsIn(slots2, c, each) = SlotsIn(slots, c, each)
    BY <1>1 DEF SlotsIn
  <1>6. LengthIn(lists2, slots2, c, each) = LengthIn(lists, slots, c, each)
    <2> HIDE DEF c, each
    <2>1. LengthIn(lists, slots, c, each) = Cardinality(SlotsAmong(slots, A, each))
      BY <1>1, <1>3, InheritedLengths DEF c
    <2>2. LengthIn(lists2, slots2, c, each) = Cardinality(SlotsAmong(slots2, A, each))
      BY <1>1, <1>2, <1>3, InheritedLengths
    <2> QED BY <1>4, <2>1, <2>2
  <1> QED BY <1>5, <1>6, OffsetInIs

(* So the slots above a class go on filling the same places.               *)
LEMMA FillsStay ==
  ASSUME NEW sup, Hierarchy(sup), NEW K \in SUBSET DOMAIN sup, \A k \in K : Above(sup, k) \subseteq K,
         NEW lists, NEW lists2, \A k \in K : FollowsOn(sup, lists, k) /\ lists2[k] = lists[k],
         NEW slots, NEW slots2, NamesApart(slots, K), \A k \in K : slots2[k] = slots[k],
         NEW each \in BOOLEAN, NEW table, Fills(table, lists, slots, SlotsAmong(slots, K, each))
  PROVE  /\ SlotsAmong(slots2, K, each) = SlotsAmong(slots, K, each)
         /\ NamesApart(slots2, K)
         /\ Fills(table, lists2, slots2, SlotsAmong(slots2, K, each))
  <1> DEFINE S == SlotsAmong(slots, K, each)
  <1>1. SlotsAmong(slots2, K, each) = S
    BY DEF SlotsAmong, AllSlots
  <1>2. ASSUME NEW s \in S PROVE OffsetIn(lists2, slots2, s) = OffsetIn(lists, slots, s)
    <2>1. s[1] \in K
      BY DEF SlotsAmong, AllSlots
    <2>2. /\ s[1] \in DOMAIN sup /\ FollowsOn(sup, lists, s[1]) /\ lists2[s[1]] = lists[s[1]]
          /\ Above(sup, s[1]) \subseteq K
      BY <2>1
    <2>3. NamesApart(slots, Above(sup, s[1])) /\ \A k \in Above(sup, s[1]) : slots2[k] = slots[k]
      BY <2>2 DEF NamesApart
    <2> QED BY <2>2, <2>3, OffsetStays
  <1> HIDE DEF S
  <1>3. ASSUME NEW s \in S PROVE PlacedBy(table, lists2, slots2, s) = PlacedBy(table, lists, slots, s)
    BY <1>2 DEF PlacedBy
  <1>4. Fills(table, lists2, slots2, S)
    <2>1. Fills(table, lists, slots, S)
      BY DEF S
    <2> QED BY <1>3, <2>1 DEF Fills
  <1>5. NamesApart(slots2, K)
    BY DEF NamesApart
  <1> QED BY <1>1, <1>4, <1>5 DEF S

(* A class stays well laid while what is above it stays.                   *)
LEMMA WellLaidStays ==
  ASSUME NEW sup, Hierarchy(sup), NEW c \in DOMAIN sup, NEW sup2, Above(sup2, c) = Above(sup, c),
         NEW lists, NEW lists2,
         \A k \in Above(sup, c) : FollowsOn(sup, lists, k) /\ lists2[k] = lists[k],
         NEW slots, NEW slots2, \A k \in Above(sup, c) : slots2[k] = slots[k],
         NEW tables, NEW missed, NEW missed2, missed \subseteq missed2,
         WellLaid(sup, lists, slots, tables, missed, c)
  PROVE  WellLaid(sup2, lists2, slots2, tables, missed2, c)
  <1> DEFINE K == Above(sup, c)
  <1>1. K \in SUBSET DOMAIN sup /\ \A k \in K : Above(sup, k) \subseteq K
    BY AboveFacts
  <1>2. NamesApart(slots, K)
    BY DEF WellLaid
  <1>3. NamesApart(slots2, K)
    BY <1>2 DEF NamesApart
  <1>4. ASSUME NEW each \in Layouts
        PROVE  /\ DOMAIN tables[each] \subseteq missed2
               /\ Fills(tables[each], lists2, slots2, SlotsAmong(slots2, K, each))
    <2>1. /\ each \in BOOLEAN /\ DOMAIN tables[each] \subseteq missed
          /\ Fills(tables[each], lists, slots, SlotsAmong(slots, K, each))
      BY DEF WellLaid, Layouts
    <2> HIDE DEF K
    <2>2. \A k \in K : FollowsOn(sup, lists, k) /\ lists2[k] = lists[k] /\ slots2[k] = slots[k]
      BY DEF K
    <2> QED BY <1>1, <1>2, <2>1, <2>2, FillsStay
  <1> QED BY <1>3, <1>4 DEF WellLaid

(* The slots of a class that was just defined are behind all the others.   *)
LEMMA NewlyLaid ==
  ASSUME Hierarchy(superclasses), NEW c \in DOMAIN superclasses,
         \A k \in Above(superclasses, c) : FollowsOn(superclasses, cpl, k),
         NEW slots, \A k \in Above(superclasses, c) \ {c} : slots[k] = newSlots[k],
         NamesApart(slots, Above(superclasses, c)),
         NEW tables, \A each \in Layouts : tables[each] = ComputePositions(c, each),
         NEW missed, \A each \in Layouts : DOMAIN tables[each] \subseteq missed
  PROVE  WellLaid(superclasses, cpl, slots, tables, missed, c)
  <1> DEFINE sup == superclasses
             A == Above(sup, c) \ {c}
             K == Above(sup, c)
  <1>1. c \in K /\ K = A \cup {c} /\ A \in SUBSET DOMAIN sup /\ FollowsOn(sup, cpl, c)
    BY AboveFacts
  <1>2. \A k \in A : Above(sup, k) \subseteq A
    <2>1. ASSUME NEW k \in A PROVE Above(sup, k) \subseteq K /\ c \notin Above(sup, k)
      BY AboveFacts, AboveIsPartial
    <2> QED BY <2>1
  <1>3. NamesApart(newSlots, A) /\ NamesApart(slots, A)
    BY DEF NamesApart
  <1> SUFFICES ASSUME NEW each \in Layouts
               PROVE  Fills(tables[each], cpl, slots, SlotsAmong(slots, K, each))
    BY DEF WellLaid
  <1> DEFINE table == tables[each]
             inherited == SlotsAmong(newSlots, A, each)
             own == SlotsAmong(slots, {c}, each)
             all == SlotsAmong(slots, K, each)
             m == Cardinality(inherited)
             n == Cardinality(all)
             At(s) == PlacedBy(table, cpl, slots, s)
  <1>4. each \in BOOLEAN
    BY DEF Layouts
  <1>5. DOMAIN table \subseteq inherited /\ Fills(table, cpl, newSlots, inherited)
    BY <1>3, <1>4, PositionsFill
  <1>6. SlotsAmong(slots, A, each) = inherited /\ Fills(table, cpl, slots, inherited)
    <2> DEFINE B == A
    <2>1. B \in SUBSET DOMAIN sup /\ \A k \in B : Above(sup, k) \subseteq B
      BY <1>1, <1>2
    <2>2. \A k \in B : FollowsOn(sup, cpl, k) /\ cpl[k] = cpl[k] /\ slots[k] = newSlots[k]
      BY <1>1
    <2>3. NamesApart(newSlots, B) /\ Fills(table, cpl, newSlots, SlotsAmong(newSlots, B, each))
      BY <1>3, <1>5
    <2> HIDE DEF B, table
    <2>4. /\ SlotsAmong(slots, B, each) = SlotsAmong(newSlots, B, each)
          /\ Fills(table, cpl, slots, SlotsAmong(slots, B, each))
      BY <1>4, <2>1, <2>2, <2>3, FillsStay
    <2> QED BY <2>4 DEF B
  <1>7. /\ all = inherited \cup own /\ inherited \cap own = {} /\ m \in Nat /\ n \in Nat
        /\ n = m + Cardinality(own) /\ Cardinality(own) \in Nat
        /\ \A p \in m..(n - 1) : \E s \in own : OffsetIn(cpl, slots, s) = p
        /\ \A s \in own : OffsetIn(cpl, slots, s) \in m..(n - 1)
    <2>1. OwnBehind(sup, cpl, slots, c, each)
      BY <1>1, <1>4, OwnOffsets
    <2>2. /\ IsFiniteSet(own) /\ all = inherited \cup own /\ inherited \cap own = {}
          /\ m \in Nat /\ n \in Nat /\ n = m + Cardinality(own)
          /\ \A p \in m..(n - 1) : \E s \in own : OffsetIn(cpl, slots, s) = p
          /\ \A s \in own : OffsetIn(cpl, slots, s) \in m..(n - 1)
      <3> HIDE DEF inherited
      <3> QED BY <1>6, <2>1 DEF OwnBehind
    <2>3. Cardinality(own) \in Nat
      BY <2>2, FS_CardinalityType
    <2> HIDE DEF all, own, inherited, m, n
    <2> QED BY <2>2, <2>3
  <1>8. \A s \in own : At(s) = OffsetIn(cpl, slots, s)
    BY <1>5, <1>7 DEF PlacedBy
  <1>9. /\ \A s \in inherited : At(s) \in 0..(m - 1)
        /\ \A p \in 0..(m - 1) : \E s \in inherited : At(s) = p
    BY <1>6 DEF Fills
  <1> HIDE DEF inherited, own, all, m, n, At
  <1>10. \A s \in all : At(s) \in 0..(n - 1)
    <2>1. \A s \in inherited : At(s) \in 0..(n - 1)
      BY <1>7, <1>9
    <2>2. \A s \in own : At(s) \in 0..(n - 1)
      BY <1>7, <1>8
    <2> QED BY <1>7, <2>1, <2>2
  <1>11. ASSUME NEW p \in 0..(n - 1) PROVE \E s \in all : At(s) = p
    <2>1. CASE p < m
      <3>1. p \in 0..(m - 1)
        BY <1>7, <2>1
      <3> QED BY <1>7, <1>9, <3>1
    <2>2. CASE ~ (p < m)
      <3>1. p \in m..(n - 1)
        BY <1>7, <2>2
      <3>2. PICK s \in own : OffsetIn(cpl, slots, s) = p
        BY <1>7, <3>1
      <3> QED BY <1>7, <1>8, <3>2
    <2> QED BY <2>1, <2>2
  <1> QED BY <1>10, <1>11 DEF Fills, all, n, At

LEMMA DefClass1Slots ==
  ASSUME CplInv, SlotInv, NEW c \in Classes, NEW supers \in SuperChoices[c], DefClass1(c, supers)
  PROVE  SlotInv'
  <1> DEFINE sup == superclasses
             larger == superclasses'
  <1>1. /\ ~ fault /\ c \notin DOMAIN sup /\ Range(supers) \subseteq DOMAIN sup
        /\ larger = With(sup, c, supers)
        /\ UNCHANGED <<newSlots, positions, finished, everMissed>>
    BY Zenon DEF DefClass1
  <1>2. Hierarchy(sup) /\ DOMAIN cpl \subseteq DOMAIN sup
    BY <1>1 DEF CplInv, CplsRight
  <1>3. supers \in Seq(DOMAIN sup)
    <2>1. supers \in Seq(Classes \cup {Root})
      BY ClassesAssumption
    <2>2. \A i \in 1..Len(supers) : supers[i] \in DOMAIN sup
      BY <1>1, <2>1, InQueue
    <2> QED BY <2>1, <2>2
  <1>4. /\ Hierarchy(larger) /\ DOMAIN larger = DOMAIN sup \cup {c}
        /\ \A k \in DOMAIN sup : Above(larger, k) = Above(sup, k)
    <2>1. Grown(sup, c, supers, larger)
      BY <1>1, <1>2, <1>3, HierarchyGrows
    <2> QED BY <2>1 DEF Grown
  <1>5. /\ DOMAIN cpl \subseteq DOMAIN cpl' /\ DOMAIN cpl' \subseteq DOMAIN cpl \cup {c}
        /\ \A k \in DOMAIN cpl : cpl'[k] = cpl[k]
        /\ c \in DOMAIN cpl' => FollowsOn(larger, cpl', c)
    <2>1. CASE UNCHANGED cpl
      BY <1>1, <1>2, <2>1
    <2>2. CASE ~ UNCHANGED cpl
      <3>1. ~ fault' /\ \E list : cpl' = With(cpl, c, list)
        <4> DEFINE members == {c} \cup UNION {Ancestors(s) : s \in Range(supers)}
                   list == IF Len(supers) = 1 THEN <<c>> \o cpl[supers[1]]
                           ELSE SlowComputeCpl(members, With(superclasses, c, supers))
        <4>1. /\ UNCHANGED fault
              /\ cpl' = IF Len(list) = Cardinality(members) THEN With(cpl, c, list) ELSE cpl
          BY Zenon, <2>2 DEF DefClass1
        <4> HIDE DEF list, members
        <4> QED BY <1>1, <2>2, <4>1
      <3>2. /\ DOMAIN cpl' = DOMAIN cpl \cup {c} /\ \A k \in DOMAIN cpl : cpl'[k] = cpl[k]
        BY <1>1, <1>2, <3>1 DEF With
      <3>3. HasRightCpl(c, larger, cpl')
        <4>1. CplInv'
          BY DefClass1Inv
        <4> QED BY <1>4, <3>1, <4>1 DEF CplInv, CplsRight
      <3>4. FollowsOn(larger, cpl', c)
        BY <1>4, <3>2, <3>3, ListFollowsOn DEF HasRightCpl
      <3> QED BY <3>2, <3>4
    <2> QED BY <2>1, <2>2
  <1> HIDE DEF larger
  <1>6. WellListed(sup, cpl, newSlots)
    BY DEF SlotInv
  <1>7. WellListed(larger, cpl', newSlots)
    <2>1. ASSUME NEW k \in DOMAIN cpl PROVE FollowsOn(larger, cpl', k)
      <3>1. /\ Tail(cpl[k]) \in Seq(DOMAIN sup) /\ IsQueue(Tail(cpl[k]))
            /\ Range(Tail(cpl[k])) = Above(sup, k) \ {k} /\ k \in DOMAIN sup
        BY <1>6 DEF WellListed, FollowsOn
      <3> DEFINE q == Tail(cpl[k])
                 D == DOMAIN sup
      <3> HIDE DEF q, D
      <3>2. q \in Seq(D) /\ q \in Seq(D \cup {c})
        BY <3>1 DEF q, D
      <3>3. Tail(cpl'[k]) = q
        BY <1>5 DEF q
      <3> QED BY <1>4, <3>1, <3>2, <3>3 DEF FollowsOn, q, D
    <2>2. \A k \in DOMAIN newSlots : Above(larger, k) = Above(sup, k)
      BY <1>4, <1>6 DEF WellListed
    <2> QED BY <1>4, <1>5, <1>6, <2>1, <2>2 DEF WellListed
  <1>8. ASSUME NEW k \in finished
        PROVE  WellLaid(larger, cpl', newSlots, positions[k], everMissed, k)
    <2>1. /\ k \in DOMAIN newSlots /\ k \in DOMAIN sup
          /\ WellLaid(sup, cpl, newSlots, positions[k], everMissed, k)
      BY <1>6 DEF SlotInv, WellListed
    <2>2. Above(larger, k) = Above(sup, k)
      BY <1>4, <2>1
    <2>3. \A k2 \in Above(sup, k) : FollowsOn(sup, cpl, k2) /\ cpl'[k2] = cpl[k2]
      BY <1>5, <1>6, <2>1 DEF WellListed
    <2> QED BY <1>2, <2>1, <2>2, <2>3, WellLaidStays
  <1> QED BY <1>1, <1>7, <1>8 DEF SlotInv, larger

LEMMA DefClass2Slots ==
  ASSUME SlotInv, NEW c \in Classes, NEW names \in SlotChoices[c], DefClass2(c, names)
  PROVE  SlotInv'
  <1> DEFINE sup == superclasses
             above == InheritOrder(c)
             inherited == FlattenSeq([i \in DOMAIN above |-> newSlots[above[i]]])
             tables == [each \in Layouts |-> ComputePositions(c, each)]
             slots == newSlots'
  <1>1. /\ c \notin DOMAIN newSlots /\ UNCHANGED <<superclasses, cpl>>
        /\ \/ UNCHANGED <<newSlots, positions, finished, everMissed>>
           \/ /\ Prepared(c) /\ slots = With(newSlots, c, names)
              /\ \/ UNCHANGED <<positions, finished, everMissed>>
                 \/ /\ ~ Clash(inherited)
                    /\ positions' = With(positions, c, tables) /\ NotePositions(tables)
                    /\ finished' = IF Clash(inherited \o names) THEN finished ELSE finished \cup {c}
    BY Zenon DEF DefClass2
  <1>2. /\ WellListed(sup, cpl, newSlots)
        /\ finished \subseteq DOMAIN newSlots /\ finished \subseteq DOMAIN positions
        /\ \A k \in finished : WellLaid(sup, cpl, newSlots, positions[k], everMissed, k)
    BY DEF SlotInv
  <1> HIDE DEF slots
  <1>3. CASE UNCHANGED <<newSlots, positions, finished, everMissed>>
    BY <1>1, <1>2, <1>3 DEF SlotInv
  <1>4. CASE Prepared(c) /\ slots = With(newSlots, c, names)
    <2>1. /\ c \in DOMAIN cpl /\ c \in DOMAIN sup /\ Hierarchy(sup)
          /\ FollowsOn(sup, cpl, c) /\ Above(sup, c) \ {c} \subseteq DOMAIN newSlots
      BY <1>2, <1>4 DEF Prepared, WellListed, FollowsOn
    <2>2. /\ DOMAIN slots = DOMAIN newSlots \cup {c} /\ slots[c] = names
          /\ \A k \in DOMAIN newSlots : slots[k] = newSlots[k]
      BY <1>1, <1>4 DEF With
    <2>3. names \in Seq(Range(names))
      BY ClassesAssumption
    <2>4. WellListed(sup, cpl, slots)
      BY <1>2, <2>1, <2>2, <2>3 DEF WellListed
    <2>5. ASSUME NEW k \in finished, NEW missed, everMissed \subseteq missed
          PROVE  WellLaid(sup, cpl, slots, positions[k], missed, k)
      <3>1. /\ k \in DOMAIN sup /\ Above(sup, k) \subseteq DOMAIN newSlots
            /\ WellLaid(sup, cpl, newSlots, positions[k], everMissed, k)
        BY <1>2 DEF WellListed
      <3>2. \A k2 \in Above(sup, k) : FollowsOn(sup, cpl, k2) /\ cpl[k2] = cpl[k2]
        BY <1>2, <3>1 DEF WellListed
      <3>3. \A k2 \in Above(sup, k) : slots[k2] = newSlots[k2]
        BY <2>2, <3>1
      <3> QED BY <2>1, <2>5, <3>1, <3>2, <3>3, WellLaidStays
    <2>6. CASE UNCHANGED <<positions, finished, everMissed>>
      <3>1. \A k \in finished : WellLaid(sup, cpl, slots, positions[k], everMissed, k)
        BY <2>5
      <3> QED BY <1>1, <1>2, <2>2, <2>4, <2>6, <3>1 DEF SlotInv, slots
    <2>7. CASE /\ ~ Clash(inherited)
               /\ positions' = With(positions, c, tables) /\ NotePositions(tables)
               /\ finished' = IF Clash(inherited \o names) THEN finished ELSE finished \cup {c}
      <3>1. /\ DOMAIN positions' = DOMAIN positions \cup {c} /\ positions'[c] = tables
            /\ \A k \in DOMAIN positions \ {c} : positions'[k] = positions[k]
        BY <2>7 DEF With
      <3>2. /\ everMissed \subseteq everMissed'
            /\ \A each \in Layouts : DOMAIN tables[each] \subseteq everMissed'
        <4> HIDE DEF tables
        <4> QED BY <2>7 DEF NotePositions
      <3>3. ASSUME NEW k \in finished
            PROVE  k # c /\ WellLaid(sup, cpl, slots, positions'[k], everMissed', k)
        BY <1>1, <1>2, <2>5, <3>1, <3>2
      <3>4. ASSUME ~ Clash(inherited \o names)
            PROVE  WellLaid(sup, cpl, slots, positions'[c], everMissed', c)
        <4> DEFINE A == Above(sup, c) \ {c}
                   N == UNION {Range(newSlots[k]) : k \in A}
        <4>1. inherited \in Seq(N) /\ NamesApart(newSlots, A)
          <5>1. \A k \in A : newSlots[k] \in Seq(Range(newSlots[k]))
            BY <1>2, <2>1 DEF WellListed
          <5> HIDE DEF inherited, N
          <5>2. inherited \in Seq(N) /\ (~ Clash(inherited) => NamesApart(newSlots, A))
            BY <2>1, <5>1, NoneClash DEF inherited, N
          <5> QED BY <2>7, <5>2
        <4> HIDE DEF inherited, N
        <4>2. IsInjective(names)
          <5> DEFINE M == N \cup Range(names)
          <5>1. inherited \in Seq(M) /\ names \in Seq(M)
            <6> DEFINE R == Range(names)
            <6> HIDE DEF R
            <6>1. names \in Seq(R)
              BY <2>3 DEF R
            <6> QED BY <4>1, <6>1 DEF R
          <5> HIDE DEF M
          <5>2. IsInjective(inherited \o names)
            BY <3>4 DEF Clash
          <5> QED BY <5>1, <5>2, PartsOfJoin
        <4>3. NamesApart(slots, Above(sup, c))
          <5>1. \A k \in A : slots[k] = newSlots[k]
            BY <2>1, <2>2
          <5>2. \A k \in Above(sup, c) : k \in A \/ k = c
            OBVIOUS
          <5> QED BY <2>2, <2>3, <4>1, <4>2, <5>1, <5>2 DEF NamesApart
        <4>4. /\ \A k \in Above(sup, c) : FollowsOn(sup, cpl, k)
              /\ \A k \in Above(sup, c) \ {c} : slots[k] = newSlots[k]
          BY <1>2, <2>1, <2>2 DEF WellListed
        <4>5. \A each \in Layouts : tables[each] = ComputePositions(c, each)
          OBVIOUS
        <4> HIDE DEF tables
        <4> QED BY <2>1, <3>1, <3>2, <4>3, <4>4, <4>5, NewlyLaid
      <3>5. /\ finished' \subseteq finished \cup {c}
            /\ c \in finished' => c \in finished \/ ~ Clash(inherited \o names)
        BY <2>7
      <3>6. \A k \in finished' : WellLaid(sup, cpl, slots, positions'[k], everMissed', k)
        BY <3>3, <3>4, <3>5
      <3>7. finished' \subseteq DOMAIN slots /\ finished' \subseteq DOMAIN positions'
        BY <1>2, <2>2, <3>1, <3>5
      <3> QED BY <1>1, <2>4, <3>6, <3>7 DEF SlotInv, slots
    <2> QED BY <1>1, <1>4, <2>6, <2>7, <1>3
  <1> QED BY <1>1, <1>3, <1>4

LEMMA SlotStepInv == CplInv /\ SlotInv /\ [ClassNext]_classVars => SlotInv'
  <1> SUFFICES ASSUME CplInv, SlotInv, [ClassNext]_classVars PROVE SlotInv'
    OBVIOUS
  <1>1. ASSUME NEW c \in Classes, NEW supers \in SuperChoices[c], DefClass1(c, supers)
        PROVE  SlotInv'
    BY <1>1, DefClass1Slots
  <1>2. ASSUME NEW c \in Classes, NEW names \in SlotChoices[c], DefClass2(c, names)
        PROVE  SlotInv'
    BY <1>2, DefClass2Slots
  <1>3. CASE UNCHANGED classVars
    BY <1>3 DEF classVars, SlotInv
  <1> QED BY <1>1, <1>2, <1>3 DEF ClassNext

LEMMA SlotsStart == ClassInit => SlotInv
  <1> SUFFICES ASSUME ClassInit PROVE SlotInv
    OBVIOUS
  <1>1. /\ DOMAIN superclasses = {Root} /\ DOMAIN cpl = {Root} /\ cpl[Root] = <<Root>>
        /\ DOMAIN newSlots = {Root} /\ newSlots[Root] = <<>> /\ finished = {} /\ ~ fault
    BY DEF ClassInit
  <1>2. Hierarchy(superclasses) /\ HasRightCpl(Root, superclasses, cpl)
    BY <1>1, ClassStarts DEF CplInv, CplsRight
  <1>3. FollowsOn(superclasses, cpl, Root)
    BY <1>1, <1>2, ListFollowsOn DEF HasRightCpl
  <1>4. <<>> \in Seq(Range(<<>>)) /\ Above(superclasses, Root) \subseteq {Root}
    BY <1>1, <1>2, AboveFacts
  <1>5. WellListed(superclasses, cpl, newSlots)
    BY <1>1, <1>2, <1>3, <1>4 DEF WellListed
  <1> QED BY <1>1, <1>5 DEF SlotInv

LEMMA LaidApart == SlotInv => SlotsKeptApart
  <1> SUFFICES ASSUME SlotInv, NEW c \in finished, NEW each \in Layouts
               PROVE  LET all == Inherited(c, each) \o SlotsOf(c, each)
                      IN /\ {AccessorPosition(c, s) : s \in Range(all)} = 0 .. Len(all) - 1
                         /\ \A s \in Range(all) : AccessorPosition(c, s) = Position(c, s)
    BY DEF SlotsKeptApart
  <1> DEFINE sup == superclasses
             A == Above(sup, c)
             S == SlotsAmong(newSlots, A, each)
             q == Inherited(c, each)
             r == SlotsOf(c, each)
             all == q \o r
             table == positions[c][each]
             n == Cardinality(S)
             At(s) == AccessorPosition(c, s)
  <1>1. /\ each \in BOOLEAN /\ c \in DOMAIN sup /\ Hierarchy(sup) /\ NamesApart(newSlots, A)
        /\ DOMAIN table \subseteq everMissed /\ Fills(table, cpl, newSlots, S)
    BY DEF SlotInv, WellListed, WellLaid, Layouts
  <1>2. c \in A
    BY <1>1, AboveFacts
  <1>3. NamesApart(newSlots, A \ {c}) /\ NamesApart(newSlots, {c})
    BY <1>1, <1>2 DEF NamesApart
  <1>4. LET I == SlotsAmong(newSlots, A \ {c}, each)
        IN q \in Seq(I) /\ IsQueue(q) /\ Range(q) = I
    BY <1>1, <1>3, InheritedIs
  <1>5. LET O == SlotsAmong(newSlots, {c}, each)
        IN r \in Seq(O) /\ IsQueue(r) /\ Range(r) = O
    <2>1. r = SlotsIn(newSlots, c, each)
      BY FindsAre
    <2> QED BY <1>1, <1>3, <2>1, SlotsInAre
  <1>6. all \in Seq(S) /\ IsQueue(all) /\ Range(all) = S
    <2> DEFINE I == SlotsAmong(newSlots, A \ {c}, each)
               O == SlotsAmong(newSlots, {c}, each)
    <2>1. S = I \cup O /\ I \cap O = {}
      BY <1>2 DEF SlotsAmong, AllSlots
    <2> HIDE DEF I, O, S, q, r, A
    <2>2. q \in Seq(I) /\ IsQueue(q) /\ Range(q) = I
      BY <1>4 DEF I
    <2>3. r \in Seq(O) /\ IsQueue(r) /\ Range(r) = O
      BY <1>5 DEF O
    <2>4. q \in Seq(I \cup O) /\ r \in Seq(I \cup O)
      BY <2>2, <2>3
    <2> QED BY <2>1, <2>2, <2>3, <2>4, JoinQueues
  <1> HIDE DEF q, r
  <1>7. Len(all) = n
    <2> HIDE DEF S, all
    <2> QED BY <1>6, QueueCounts
  <1>8. ASSUME NEW s \in S
        PROVE  /\ Position(c, s) = PlacedBy(table, cpl, newSlots, s)
               /\ At(s) = Position(c, s)
    <2>1. (s[2] \in EachSubclass) = each
      BY DEF SlotsAmong
    <2>2. DesiredOffset(s) = OffsetIn(cpl, newSlots, s)
      BY FindsAre
    <2>3. Position(c, s) = IF s \in DOMAIN table THEN table[s] ELSE DesiredOffset(s)
      BY <2>1 DEF Position
    <2> HIDE DEF table
    <2>4. s \notin everMissed => Position(c, s) = DesiredOffset(s)
      BY <1>1, <2>3
    <2> QED BY <2>2, <2>3, <2>4 DEF PlacedBy, AccessorPosition
  <1> HIDE DEF S, At, all, table
  <1>9. {At(s) : s \in Range(all)} = 0 .. (Len(all) - 1)
    <2>1. \A s \in S : At(s) \in 0..(n - 1)
      BY <1>1, <1>8 DEF Fills
    <2>2. \A p \in 0..(n - 1) : \E s \in S : At(s) = p
      BY <1>1, <1>8 DEF Fills
    <2> HIDE DEF n
    <2> QED BY <1>6, <1>7, <2>1, <2>2
  <1>10. \A s \in Range(all) : At(s) = Position(c, s)
    BY <1>6, <1>8
  <1> QED BY <1>9, <1>10 DEF At, all, q, r

(* The layout goes on filling the instances of the finished classes, and   *)
(* new_slots is there for all that is above a class that has it.           *)
THEOREM SlotInvariance == ClassSpec => []SlotInv
  BY SlotsStart, ClassInvariance, SlotStepInv, PTL DEF ClassSpec

(* The slots of a finished class have places of their own, and just the    *)
(* first ones, and the accessors find them there: compute_lengths,         *)
(* inherit_slots and compute_positions, for every hierarchy and whatever   *)
(* slots its classes create, over any sequence of defclass1 and defclass2. *)
THEOREM SlotsStayApart == ClassSpec => []SlotsKeptApart
  BY SlotInvariance, LaidApart, PTL

(* So they have in whatever order files bring the definitions.             *)
THEOREM SlotsApartWhileLoading == LoadSpec => []SlotsKeptApart
  <1>1. LoadInit => SlotInv
    BY SlotsStart DEF LoadInit
  <1>2. LoaderInv => LoadTypes
    BY DEF LoaderInv
  <1>3. LoadSpec => []SlotInv
    BY <1>1, <1>2, LoaderCpls, LoaderDefines, SlotStepInv, LoaderInvariance, PTL DEF LoadSpec
  <1> QED BY <1>3, LaidApart, PTL
=============================================================================
