----------------------------- MODULE MindyDispatch ----------------------------
(***************************************************************************)
(* Calling a generic function: func.c with the types of type.c.  The       *)
(* applicable methods, sorted, are kept in a cache of the generic function *)
(* under the types of the arguments; these start as the classes of the     *)
(* arguments of the call and are narrowed where the outcome depends on     *)
(* more than the class.  Methods come and go, and classes are defined,     *)
(* while the cache is in use.                                              *)
(***************************************************************************)
EXTENDS MindyClasses

CONSTANTS
  Objects, ClassOf,       \* instances, and the class of each
  Methods, Specializers,  \* methods, and the types each takes
  Signatures,             \* the types the generic function may be declared with
  ArgLists,               \* the arguments of the calls
  Asked,                  \* the methods that are called, or asked, on their own
  MaxMethods              \* bound on the methods of the generic function

ASSUME DispatchAssumption ==
  /\ ClassOf \in [Objects -> Classes]
  /\ ArgLists \subseteq Seq(Objects)
  /\ Asked \subseteq Methods /\ MaxMethods \in Nat

VARIABLES
  signature,  \* GF(gf)->specializers
  methods,    \* GF(gf)->methods, the latest first
  cache,      \* GF(gf)->cache, the entry used last first
  methodCache \* class_cache of each method asked: #f is NoEntry

dispatchVars == <<classVars, signature, methods, cache, methodCache>>

-----------------------------------------------------------------------------
(***************************************************************************)
(* Types: a class, a singleton, or a class none of some types.             *)
(***************************************************************************)
Class(c) == [kind |-> "class", of |-> c]
Singleton(o) == [kind |-> "singleton", of |-> o]

(* What a method may be specialized on, and one type for each argument. *)
ASSUME MethodsAssumption ==
  \A m \in Methods :
    /\ \A args \in ArgLists : Len(Specializers[m]) = Len(args)
    /\ \A m2 \in Methods : Len(Specializers[m]) = Len(Specializers[m2])
    /\ Specializers[m] \in Seq({Class(c) : c \in Classes \cup {Root}}
                                  \cup {Singleton(o) : o \in Objects})

(* restrict_type *)
NoneOf(t, exclude) ==
  [kind |-> "none-of", of |-> t.of,
   exclude |-> {exclude} \cup (IF t.kind = "none-of" THEN t.exclude ELSE {})]

(* instancep; the types excluded are never themselves none-of types. *)
Instance(o, t) ==
  LET simple(u) == IF u.kind = "singleton" THEN o = u.of ELSE u.of \in Range(cpl[ClassOf[o]])
  IN simple(t) /\ (t.kind = "none-of" => \A u \in t.exclude : ~ simple(u))

(* subtypep *)
Subtype(t1, t2) ==
  CASE t1.kind = "singleton" -> Instance(t1.of, t2)
    [] t1.kind # "singleton" -> t2.kind = "class" /\ t2.of \in Range(cpl[t1.of])

(* overlapp *)
Overlap(t1, t2) ==
  CASE t1.kind = "singleton" -> Instance(t1.of, t2)
    [] t1.kind # "singleton" ->
         IF t2.kind = "singleton" THEN t1.of \in Range(cpl[ClassOf[t2.of]])
         ELSE \E c \in {t1.of} \cup AllSubclasses(t1.of) : t2.of \in Range(cpl[c])

-----------------------------------------------------------------------------
(***************************************************************************)
(* gfd_applicable_method_p: whether a method takes the arguments, and what *)
(* the types become so that the answer is the same for all they admit.     *)
(***************************************************************************)
\* Mutant: an argument taken for its identity does not narrow the type.
ApplicableByClass(m, args, types) ==
  FoldLeft(LAMBDA r, i :
             IF ~ r.applicable \/ Subtype(r.types[i], Specializers[m][i]) THEN r
             ELSE IF Instance(args[i], Specializers[m][i]) THEN r
             ELSE [r EXCEPT !.applicable = FALSE],
           [applicable |-> TRUE, types |-> types], [i \in DOMAIN args |-> i])

Narrow(r, specializer, arg, i) ==
  CASE ~ r.applicable \/ Subtype(r.types[i], specializer) -> r
    [] OTHER ->
         IF Instance(arg, specializer) THEN [r EXCEPT !.types[i] = Singleton(arg)]
         ELSE [applicable |-> FALSE,
               types |-> IF Overlap(r.types[i], specializer)
                         THEN [r.types EXCEPT ![i] = NoneOf(@, specializer)]
                         ELSE r.types]

Applicable(m, args, types) ==
  FoldLeft(LAMBDA r, i : Narrow(r, Specializers[m][i], args[i], i),
           [applicable |-> TRUE, types |-> types], [i \in DOMAIN args |-> i])

ClassesOf(args) == [i \in DOMAIN args |-> Class(ClassOf[args[i]])]

(* The test of a cached entry: a class must be that of the argument. *)
Accepts(entry, args) ==
  \A i \in DOMAIN args :
    IF entry.types[i].kind = "class" THEN entry.types[i] = Class(ClassOf[args[i]])
    ELSE Instance(args[i], entry.types[i])

-----------------------------------------------------------------------------
(***************************************************************************)
(* compare_methods and the sort of slow_sorted_applicable_methods.         *)
(***************************************************************************)
ComparePosition(t1, t2, arg) ==
  CASE Subtype(t1, t2) /\ Subtype(t2, t1) -> "same"
    [] Subtype(t1, t2) /\ ~ Subtype(t2, t1) -> "more"
    [] Subtype(t2, t1) /\ ~ Subtype(t1, t2) -> "less"
    [] OTHER ->
         IF t1.kind # "class" \/ t2.kind # "class" THEN "ambiguous"
         ELSE LET order == cpl[ClassOf[arg]]
              IN IF order[SelectInSeq(order, LAMBDA k : k \in {t1.of, t2.of})] = t1.of
                 THEN "more" ELSE "less"

Compare(m1, m2, args) ==
  LET each == {ComparePosition(Specializers[m1][i], Specializers[m2][i], args[i]) :
                 i \in DOMAIN args} \ {"same"}
  IN IF Cardinality(each) = 1 THEN CHOOSE r \in each : TRUE
     ELSE IF each = {} THEN "identical" ELSE "ambiguous"

Found(sorted) == Range(sorted.ordered) \cup sorted.ambiguous

\* Mutant: methods that are ambiguous are ordered like any others.
SortAll(sorted, m, is) ==
  LET place == SelectInSeq(sorted.ordered, LAMBDA o : is[o] # "less")
  IN [sorted EXCEPT !.ordered = IF place = 0 THEN Append(@, m) ELSE InsertAt(@, place, m)]

(* One more applicable method, and what it is compared with each that was  *)
(* found before.  The methods that are ordered come first; the ambiguous   *)
(* ones stand where it is unclear which would be next.  A method that is   *)
(* ambiguous with some of these but not with all of them is itself         *)
(* forgotten, together with the others.                                    *)
Sort(sorted, m, is) ==
  LET place == SelectInSeq(sorted.ordered, LAMBDA o : is[o] # "less")
      unclear == {o \in sorted.ambiguous : is[o] = "ambiguous"}
      below == \E o \in sorted.ambiguous : is[o] = "less"
  IN CASE place # 0 /\ is[sorted.ordered[place]] = "more" ->
            [sorted EXCEPT !.ordered = InsertAt(@, place, m)]
       [] place # 0 /\ is[sorted.ordered[place]] = "ambiguous" ->
            [ordered |-> SubSeq(sorted.ordered, 1, place - 1),
             ambiguous |-> {m, sorted.ordered[place]}]
       [] place = 0 /\ unclear # {} -> [sorted EXCEPT !.ambiguous = unclear]
       [] place = 0 /\ unclear = {} /\ ~ below -> [sorted EXCEPT !.ordered = Append(@, m)]
       [] OTHER -> sorted

Nothing == [ordered |-> <<>>, ambiguous |-> {}]

TryMethod(entry, m, args) ==
  LET r == Applicable(m, args, entry.types)
  IN [types |-> r.types,
      result |-> IF ~ r.applicable THEN entry.result
                 ELSE Sort(entry.result, m,
                           [o \in Found(entry.result) |-> Compare(m, o, args)])]

(* The whole of slow_sorted_applicable_methods: the entry it makes. *)
SlowEntry(args) ==
  FoldLeft(LAMBDA entry, m : TryMethod(entry, m, args),
           [types |-> ClassesOf(args), result |-> Nothing], methods)

-----------------------------------------------------------------------------
(***************************************************************************)
(* Actions.                                                                *)
(***************************************************************************)
CanCall(args) == \A i \in DOMAIN args : ClassOf[args[i]] \in DOMAIN newSlots

(* gf_xep: the entry that accepts the arguments moves to the front. *)
CallGeneric(args) ==
  LET hit == SelectInSeq(cache, LAMBDA entry : Accepts(entry, args))
  IN /\ ~ fault /\ methods # <<>> /\ CanCall(args)
     /\ cache' = IF hit = 0 THEN <<SlowEntry(args)>> \o cache
                 ELSE <<cache[hit]>> \o RemoveAt(cache, hit)
     /\ UNCHANGED <<classVars, signature, methods, methodCache>>

(* A method is there once the classes and objects that it names are. *)
Initialized(m) ==
  \A i \in DOMAIN Specializers[m] :
    LET t == Specializers[m][i]
    IN IF t.kind = "class" THEN t.of \in DOMAIN cpl ELSE ClassOf[t.of] \in DOMAIN newSlots

NoEntry == [types |-> <<>>, result |-> FALSE]

(* applicable_method_p: a method's own cache has one entry, made anew when *)
(* it does not accept the arguments.                                       *)
TestMethod(m, args) ==
  LET r == Applicable(m, args, ClassesOf(args))
  IN /\ ~ fault /\ CanCall(args) /\ Initialized(m)
     /\ ~ (methodCache[m] # NoEntry /\ Accepts(methodCache[m], args))
     /\ methodCache' = [methodCache EXCEPT ![m] = [types |-> r.types, result |-> r.applicable]]
     /\ UNCHANGED <<classVars, signature, methods, cache>>

Conforms(m, types) ==
  \A i \in DOMAIN types : Subtype(Specializers[m][i], types[i])

SameSpecializers(m1, m2) ==
  \A i \in DOMAIN Specializers[m1] :
    /\ Subtype(Specializers[m1][i], Specializers[m2][i])
    /\ Subtype(Specializers[m2][i], Specializers[m1][i])

(* really_add_method on a list of methods. *)
AddedTo(list, m) ==
  LET old == SelectInSeq(list, LAMBDA o : SameSpecializers(o, m))
  IN IF old = 0 THEN <<m>> \o list ELSE [list EXCEPT ![old] = m]

AddMethod(m) ==
  /\ ~ fault /\ Initialized(m) /\ Conforms(m, signature)
  /\ methods' = AddedTo(methods, m) /\ Len(methods') <= MaxMethods
  /\ cache' = <<>>
  /\ UNCHANGED <<classVars, signature, methodCache>>

(* remove-method, which clears the cache even if there is nothing to remove *)
(* and the call ends in an error.                                           *)
RemoveMethod(m) ==
  /\ ~ fault /\ Initialized(m)
  /\ methods' = RemoveFirst(methods, m)
  /\ cache' = <<>>
  /\ UNCHANGED <<classVars, signature, methodCache>>

(* set_gf_signature: the methods are added again, one by one.  The first   *)
(* that does not conform is an error, and the rest are lost with it.       *)
SetSignature(types) ==
  LET refused == SelectInSeq(methods, LAMBDA m : ~ Conforms(m, types))
      kept == IF refused = 0 THEN methods ELSE SubSeq(methods, 1, refused - 1)
  IN /\ ~ fault /\ types # signature
     /\ \A i \in DOMAIN types : types[i].of \in DOMAIN cpl
     /\ signature' = types
     /\ methods' = FoldLeft(AddedTo, <<>>, kept)
     /\ cache' = IF kept = <<>> THEN cache ELSE <<>>
     /\ UNCHANGED <<classVars, methodCache>>

DispatchInit ==
  /\ ClassInit
  /\ \E types \in Signatures : signature = types /\ \A i \in DOMAIN types : types[i] = Class(Root)
  /\ methods = <<>>
  /\ cache = <<>>
  /\ methodCache = [m \in Asked |-> NoEntry]

DispatchNext ==
  \/ ClassNext /\ UNCHANGED <<signature, methods, cache, methodCache>>
  \/ \E args \in ArgLists : CallGeneric(args) \/ \E m \in Asked : TestMethod(m, args)
  \/ \E m \in Methods : AddMethod(m) \/ RemoveMethod(m)
  \/ \E types \in Signatures : SetSignature(types)

DispatchSpec == DispatchInit /\ [][DispatchNext]_dispatchVars

-----------------------------------------------------------------------------
(***************************************************************************)
(* Properties.                                                             *)
(***************************************************************************)

(* What the methods and the arguments alone say, without a cache.          *)
Takes(m, args) == \A i \in DOMAIN args : Instance(args[i], Specializers[m][i])

TakersOf(args) == {m \in Range(methods) : Takes(m, args)}

Plain(c) == \A k \in Ancestors(c) : Len(superclasses[k]) <= 1

MadeFor(entry, args) ==
  \A i \in DOMAIN args :
    \/ entry.types[i].kind = "singleton" \/ entry.types[i].of = ClassOf[args[i]]
    \/ Plain(ClassOf[args[i]])

(* Whenever a cached entry is used it answers what the slow way would,     *)
(* whatever methods and classes have come and gone since, and the cached   *)
(* answer of a method about itself is right too.  Left out are arguments   *)
(* of a subclass, with several superclasses, of the class an entry was     *)
(* made for: those a none-of entry takes as its own, though methods of     *)
(* other superclasses, or in another order, may be theirs.                 *)
CacheAnswersAfresh ==
  ~ fault => \A args \in {a \in ArgLists : CanCall(a)} :
    /\ methods # <<>> => \A i \in DOMAIN cache :
         Accepts(cache[i], args) /\ MadeFor(cache[i], args)
           => cache[i].result = SlowEntry(args).result
    /\ \A m \in Asked :
         methodCache[m] # NoEntry /\ Accepts(methodCache[m], args) /\ MadeFor(methodCache[m], args)
           => methodCache[m].result = Takes(m, args)

(* The methods that are called one after the other, by next-method, are    *)
(* each more specific than the following, and than the ambiguous ones that *)
(* end the list; a call finds nothing only if no method takes the          *)
(* arguments.  And if no method is ambiguous with two others, what is not  *)
(* in the list is less specific than an ambiguous one, so that its turn    *)
(* would come after the ambiguity.                                         *)
NextMethodsSorted ==
  ~ fault => \A args \in {a \in ArgLists : CanCall(a)} :
    LET found == SlowEntry(args).result
        takers == TakersOf(args)
        Over(m1, m2) == Compare(m1, m2, args) = "more"
        Rivals(m) == {o \in takers : Compare(m, o, args) = "ambiguous"}
    IN /\ Range(found.ordered) \cup found.ambiguous \subseteq takers
       /\ takers # {} => found # Nothing
       /\ \A i, j \in DOMAIN found.ordered :
            i < j => Over(found.ordered[i], found.ordered[j])
       /\ \A m \in Range(found.ordered) : \A o \in found.ambiguous : Over(m, o)
       /\ (\A m \in takers : Cardinality(Rivals(m)) <= 1) =>
            \A m \in takers : \/ m \in Range(found.ordered) \cup found.ambiguous
                              \/ \E o \in found.ambiguous : Over(o, m)

(* Whoever is ambiguous with whom, a method that is called comes after all *)
(* methods that take the arguments and are more specific.                  *)
MostSpecificFirst ==
  ~ fault => \A args \in {a \in ArgLists : CanCall(a)} :
    LET found == SlowEntry(args).result
    IN \A i \in DOMAIN found.ordered : \A m \in TakersOf(args) :
         Compare(m, found.ordered[i], args) = "more"
           => \E j \in 1 .. i - 1 : found.ordered[j] = m
=============================================================================
