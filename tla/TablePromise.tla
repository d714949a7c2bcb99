---------------------------- MODULE TablePromise ----------------------------
(***************************************************************************)
(* What a table promises the thread that uses it: a mapping that changes   *)
(* only by the calls of the thread, and answers that are those of the      *)
(* mapping, whatever the collector does meanwhile -- until it spoils the   *)
(* table.                                                                  *)
(***************************************************************************)
EXTENDS Naturals, FiniteSets

CONSTANTS
  Calls,    \* the calls a client makes
  NoCall,
  NoAnswer,
  Default   \* what element answers when there is no such key

VARIABLES
  map,      \* the elements by key, over the keys that are in the table
  call,     \* the call in progress
  answer,   \* what the last call returned
  spoilt    \* whether the collector has spoilt the table

Known(k) == k \in DOMAIN map
With(k, x) == [j \in DOMAIN map \cup {k} |-> IF j = k THEN x ELSE map[j]]
Without(k) == [j \in DOMAIN map \ {k} |-> map[j]]

After(c) ==
  CASE c.op = "element-setter"   -> With(c.key, c.elt)
    [] c.op = "remove-key!"      -> Without(c.key)
    [] c.op = "remove-all-keys!" -> <<>>
    [] OTHER                     -> map

Result(c) ==
  CASE c.op = "element"        -> [element |-> IF Known(c.key) THEN map[c.key] ELSE Default]
    [] c.op = "element-setter" -> [element |-> c.elt]
    [] c.op = "remove-key!"    -> [removed |-> Known(c.key)]
    [] c.op = "size"           -> [size |-> Cardinality(DOMAIN map)]
    [] OTHER                   -> [cleared |-> TRUE]

Begin(c) ==
  /\ call = NoCall
  /\ call' = c
  /\ answer' = NoAnswer
  /\ UNCHANGED <<map, spoilt>>

Answer ==
  /\ call # NoCall
  /\ map' = After(call)
  /\ answer' = Result(call)
  /\ call' = NoCall
  /\ UNCHANGED spoilt

Spoil == ~ spoilt /\ spoilt' /\ UNCHANGED <<map, call, answer>>

(* Nothing is promised of a table that is spoilt, but that it remains so.  *)
Drift == spoilt /\ spoilt'

PromiseInit == map = <<>> /\ call = NoCall /\ answer = NoAnswer /\ ~ spoilt
PromiseNext == (\E c \in Calls : Begin(c)) \/ Answer \/ Spoil \/ Drift
PromiseSpec == PromiseInit /\ [][PromiseNext]_<<map, call, answer, spoilt>>
=============================================================================
