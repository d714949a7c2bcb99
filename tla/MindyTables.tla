----------------------------- MODULE MindyTables -----------------------------
(***************************************************************************)
(* Tables that hash by address: table.dylan, pointer-hash and the hash     *)
(* states of table.c, and what a collection of gc.c does to them.          *)
(*                                                                         *)
(* An object is hashed by its address, which a collection changes.  Each   *)
(* hash comes with a state, which the collection makes invalid, and a      *)
(* table keeps the merged states of its buckets to know when to rehash.    *)
(*                                                                         *)
(* One thread uses the table.  A collection runs between two of its steps: *)
(* each action reads an address or the validity of a state once at most,   *)
(* the rest of what it does is the same before and after a collection.     *)
(***************************************************************************)
EXTENDS Queues, FiniteSets, TLC

CONSTANTS
  Pointers,       \* the keys that are hashed by address
  FixedHash,      \* the hash ids of the others: symbols, integers, characters
  Elts,
  Default,        \* what element answers when there is no such key
  Addresses,
  StartSizes,     \* the sizes a table is made with
  MaxCollections  \* bound on the collections; there is one more if they
                  \* have split a rehash

Keys == Pointers \cup DOMAIN FixedHash

ASSUME TablesAssumption ==
  /\ FixedHash \in [DOMAIN FixedHash -> Nat]
  /\ Pointers \cap DOMAIN FixedHash = {}
  /\ Addresses \subseteq Nat
  /\ StartSizes \subseteq Nat \ {0}
  /\ MaxCollections \in Nat

VARIABLES
  addr,       \* the address of each object
  epoch,      \* the hash state of the space in use: one for each collection
  split,      \* whether a collection has struck a rehash that had begun to
              \* hash (see Struck): not in the code
  buckets,    \* the entries of each bucket
  states,     \* bucket-states
  tableState, \* table-hash-state
  tableSize,  \* table-size
  call,       \* the call in progress
  at,         \* where the thread is in it
  key,        \* key-id, key-state, bucket-index, and where find-elt found the key
  rehash,     \* what a rehash holds: i, remaining, deferred-elements, and
              \* whether it has hashed an entry
  answer,     \* what the last call returned
  iter        \* the iteration in progress, with the keys it has visited and
              \* whether the table was rehashed since it began

tableVars == <<buckets, states, tableState, tableSize>>
threadVars == <<call, at, key, rehash, answer>>
vars == <<addr, epoch, split, tableVars, threadVars, iter>>

-----------------------------------------------------------------------------
(***************************************************************************)
(* Hash states: the permanent one, and one for each collection so far.     *)
(***************************************************************************)

Permanent == 0
StateValid(s) == s \in {Permanent, epoch}
Volatility(s) == IF s = Permanent THEN 0 ELSE 1

(* dylan_merge_hash_states: the second of two equally volatile states. *)
Merge(s1, s2) == IF Volatility(s1) > Volatility(s2) THEN s1 ELSE s2

(* Mutant: the state of an entry that waited is not merged into that of    *)
(* its bucket.                                                             *)
MergeNothing(s2, s1) == s2

MergeBefore(s2, s1) == Merge(s1, s2)

(* Where the collector can put the objects. *)
Placements == {f \in [Pointers -> Addresses] : IsInjective(f)}

(* object-hash: dylan_pointer_hash, or a hash that the type of the key     *)
(* has, for which the state is the one given.                              *)
HashId(k) == IF k \in Pointers THEN addr[k] ELSE FixedHash[k]
HashState(k, initial) == IF k \in Pointers THEN Merge(initial, epoch) ELSE initial

-----------------------------------------------------------------------------
(***************************************************************************)
(* The buckets.                                                            *)
(***************************************************************************)

Entry(k, x, id, s) == [key |-> k, elt |-> x, id |-> id, state |-> s]
Size == Cardinality(DOMAIN buckets)
Empty(n) == [b \in 0..n - 1 |-> <<>>]
AllPermanent(n) == [b \in 0..n - 1 |-> Permanent]

(* find-elt: the first entry with the id and the key, 0 if there is none. *)
FindElt(bucket, k, id) ==
  LET places == {p \in DOMAIN bucket : bucket[p].id = id /\ bucket[p].key = k}
  IN IF places = {} THEN 0 ELSE CHOOSE p \in places : \A q \in places : p <= q

(* find-new-size: the first odd number from target that 3, 5, 7 and 11 do  *)
(* not divide.  There is one: 2310 is the product of the five primes.      *)
FindNewSize(target) ==
  LET fits(n) == \A d \in {2, 3, 5, 7, 11} : n % d # 0
  IN CHOOSE n \in target..2310 * target + 1 :
       fits(n) /\ \A m \in target..n - 1 : ~ fits(m)

StartingTableSize == 13
ExpandWhen == 200
ExpandTo == 300
ShrinkWhen == 10
ShrinkTo == 100

(* All the entries, bucket by bucket; those of them that belong into       *)
(* bucket b of n; and the states to be merged for them.                    *)
AllEntries(bs) == FlattenSeq([b \in 1..Cardinality(DOMAIN bs) |-> bs[b - 1]])
GoTo(entries, b, n) == SubQueue(entries, {e \in Range(entries) : e.id % n = b})
StatesOf(entries) == [p \in DOMAIN entries |-> entries[p].state]

(* resize-table: the entries keep their ids, and are put one by one before *)
(* those that were put before.                                             *)
Resized(old, n) ==
  LET goes(b) == GoTo(AllEntries(old), b, n)
  IN [of |-> [b \in 0..n - 1 |-> Reverse(goes(b))],
      states |-> [b \in 0..n - 1 |-> FoldLeft(Merge, Permanent, StatesOf(goes(b)))]]

(* maybe-expand-table and maybe-shrink-table, for size entries in buckets. *)
Expanded(bs, ss, size) ==
  LET n == Cardinality(DOMAIN bs)
  IN IF size * 100 > n * ExpandWhen
       THEN Resized(bs, FindNewSize((n * ExpandTo) \div 100))
       ELSE [of |-> bs, states |-> ss]

Shrunk(bs, ss, size) ==
  LET n == Cardinality(DOMAIN bs)
  IN IF size * 100 < n * ShrinkWhen
       THEN Resized(bs, FindNewSize((n * ShrinkTo) \div 100))
       ELSE [of |-> bs, states |-> ss]

-----------------------------------------------------------------------------
(***************************************************************************)
(* Calls.  Each ends in one step, which nothing but its checks can tell    *)
(* from a step that a collection follows.                                  *)
(***************************************************************************)

NoCall == [op |-> "none"]
NoAnswer == [none |-> TRUE]
NoKey == [id |-> 0, state |-> Permanent, bucket |-> 0, place |-> 0]
NoRehash == [i |-> 0, remaining |-> <<>>, deferred |-> <<>>, hashed |-> FALSE]

Calls ==
  [op : {"element", "remove-key!"}, key : Keys]
    \cup [op : {"element-setter"}, key : Keys, elt : Elts]
    \cup [op : {"size", "remove-all-keys!"}]

(* Where a call begins, and begins again after a hash that was of no use. *)
Start(c) ==
  CASE c.op \in {"element", "element-setter"} -> "hash"
    [] c.op = "remove-key!"                   -> "while"
    [] OTHER                                  -> "do"

(* A client changes no table that it iterates over. *)
Begin(c) ==
  /\ at = "idle"
  /\ iter.on => c.op \in {"element", "size"}
  /\ call' = c
  /\ at' = Start(c)
  /\ answer' = NoAnswer
  /\ UNCHANGED <<addr, epoch, split, tableVars, key, rehash, iter>>

Return(x) ==
  /\ answer' = x
  /\ call' = NoCall /\ at' = "idle" /\ key' = NoKey

(* The hash of the key, and what find-elt finds with it. *)
Hash ==
  /\ at = "hash"
  /\ LET id == HashId(call.key)
         b  == id % Size
     IN key' = [id |-> id, state |-> HashState(call.key, tableState), bucket |-> b,
                place |-> FindElt(buckets[b], call.key, id)]
  /\ at' = IF call.op = "element" /\ key'.place # 0 THEN "do" ELSE "table"
  /\ UNCHANGED <<addr, epoch, split, tableVars, call, rehash, answer, iter>>

(* The first bucket from b that may be invalid: the permanent state never  *)
(* is, and those that have it are passed over.                             *)
NextBucket(b) ==
  CHOOSE c \in b..Size :
    /\ c < Size => states[c] # Permanent
    /\ \A d \in b..c - 1 : states[d] = Permanent

StartRehash ==
  /\ at' = "bucket" /\ key' = NoKey
  /\ rehash' = [NoRehash EXCEPT !.i = NextBucket(0)]

(* remove-key! only begins again: it rehashes in its while loop. *)
StartAgain ==
  IF call.op = "remove-key!" THEN at' = "while" /\ key' = NoKey /\ UNCHANGED rehash
  ELSE StartRehash

(* Mutant: the state of the table is not looked at. *)
CheckTableTrusting ==
  /\ at \in {"while", "table"}
  /\ at' = IF at = "while" THEN "hash" ELSE "key"
  /\ UNCHANGED <<addr, epoch, split, tableVars, call, key, rehash, answer, iter>>

(* state-valid? of table-hash-state: before the hash in remove-key!, and   *)
(* in all three after it.                                                  *)
CheckTable ==
  /\ at \in {"while", "table"}
  /\ IF StateValid(tableState)
       THEN at' = (IF at = "while" THEN "hash" ELSE "key") /\ UNCHANGED <<key, rehash>>
       ELSE IF at = "while" THEN StartRehash ELSE StartAgain
  /\ UNCHANGED <<addr, epoch, split, tableVars, call, answer, iter>>

CheckKey ==
  /\ at = "key"
  /\ IF StateValid(key.state) THEN at' = "do" /\ UNCHANGED <<key, rehash>> ELSE StartAgain
  /\ UNCHANGED <<addr, epoch, split, tableVars, call, answer, iter>>

-----------------------------------------------------------------------------
(***************************************************************************)
(* What a call does to the table, once its hash is known to be good.       *)
(***************************************************************************)

Element ==
  /\ at = "do" /\ call.op = "element"
  /\ Return([element |-> IF key.place # 0 THEN buckets[key.bucket][key.place].elt ELSE Default])
  /\ UNCHANGED <<addr, epoch, split, tableVars, rehash, iter>>

(* The states of a new entry are merged into a bucket of the table as it   *)
(* is after the expansion, by the index that the key had before it.        *)
ElementSetter ==
  /\ at = "do" /\ call.op = "element-setter"
  /\ LET new   == Entry(call.key, call.elt, key.id, key.state)
         b     == key.bucket
         added == Expanded([buckets EXCEPT ![b] = <<new>> \o @], states, tableSize + 1)
         into  == IF key.place # 0
                    THEN [of |-> [buckets EXCEPT ![b][key.place] = new], states |-> states]
                    ELSE added
     IN /\ buckets' = into.of
        /\ states' = [into.states EXCEPT ![b] = Merge(key.state, @)]
        /\ tableState' = Merge(key.state, tableState)
        /\ tableSize' = IF key.place # 0 THEN tableSize ELSE tableSize + 1
  /\ Return([element |-> call.elt])
  /\ UNCHANGED <<addr, epoch, split, rehash, iter>>

(* The merged states are left as they are. *)
RemoveKey ==
  /\ at = "do" /\ call.op = "remove-key!"
  /\ IF key.place # 0
       THEN LET into == Shrunk([buckets EXCEPT ![key.bucket] = RemoveAt(@, key.place)],
                               states, tableSize - 1)
            IN /\ buckets' = into.of /\ states' = into.states
               /\ tableSize' = tableSize - 1
               /\ UNCHANGED tableState
       ELSE UNCHANGED tableVars
  /\ Return([removed |-> key.place # 0])
  /\ UNCHANGED <<addr, epoch, split, rehash, iter>>

SizeOf ==
  /\ at = "do" /\ call.op = "size"
  /\ Return([size |-> tableSize])
  /\ UNCHANGED <<addr, epoch, split, tableVars, rehash, iter>>

(* table-init gives the table its default size, whatever it was made with. *)
RemoveAllKeys ==
  /\ at = "do" /\ call.op = "remove-all-keys!"
  /\ buckets' = Empty(StartingTableSize) /\ states' = AllPermanent(StartingTableSize)
  /\ tableSize' = 0 /\ tableState' = Permanent
  /\ Return([cleared |-> TRUE])
  /\ UNCHANGED <<addr, epoch, split, rehash, iter>>

-----------------------------------------------------------------------------
(***************************************************************************)
(* rehash, one bucket and one entry after the other.                       *)
(***************************************************************************)

i == rehash.i
InRehash == at \in {"bucket", "entry", "rehash"}

(* The next bucket: its entries are taken out if its state is invalid. *)
RehashBucket ==
  /\ at = "bucket" /\ i < Size
  /\ IF StateValid(states[i])
       THEN /\ rehash' = [rehash EXCEPT !.i = NextBucket(i + 1)]
            /\ UNCHANGED <<buckets, states, at>>
       ELSE /\ states' = [states EXCEPT ![i] = Permanent]
            /\ buckets' = [buckets EXCEPT ![i] = <<>>]
            /\ rehash' = [rehash EXCEPT !.remaining = buckets[i]]
            /\ at' = "entry"
  /\ UNCHANGED <<addr, epoch, split, tableState, tableSize, call, key, answer, iter>>

(* An entry whose state is valid stays in its bucket. *)
RehashEntry ==
  /\ at = "entry"
  /\ IF rehash.remaining = <<>>
       THEN /\ at' = "bucket" /\ rehash' = [rehash EXCEPT !.i = NextBucket(i + 1)]
            /\ UNCHANGED <<buckets, states>>
       ELSE LET e == Head(rehash.remaining)
            IN IF StateValid(e.state)
                 THEN /\ buckets' = [buckets EXCEPT ![i] = <<e>> \o @]
                      /\ states' = [states EXCEPT ![i] = Merge(e.state, @)]
                      /\ rehash' = [rehash EXCEPT !.remaining = Tail(@)]
                      /\ UNCHANGED at
                 ELSE at' = "rehash" /\ UNCHANGED <<buckets, states, rehash>>
  /\ UNCHANGED <<addr, epoch, split, tableState, tableSize, call, key, answer, iter>>

(* The others are hashed again, and wait if their bucket is still to come. *)
RehashHash ==
  /\ at = "rehash"
  /\ LET old == Head(rehash.remaining)
         e   == [old EXCEPT !.id = HashId(old.key), !.state = HashState(old.key, Permanent)]
         b   == e.id % Size
         put == [rehash EXCEPT !.remaining = Tail(@), !.hashed = TRUE]
     IN IF b <= i
          THEN /\ buckets' = [buckets EXCEPT ![b] = <<e>> \o @]
               /\ states' = [states EXCEPT ![b] = Merge(e.state, @)]
               /\ rehash' = put
          ELSE /\ rehash' = [put EXCEPT !.deferred = <<e>> \o @]
               /\ UNCHANGED <<buckets, states>>
  /\ at' = "entry"
  /\ UNCHANGED <<addr, epoch, split, tableState, tableSize, call, key, answer, iter>>

(* The entries that waited are put in, and the call begins again. *)
FinishRehash ==
  /\ at = "bucket" /\ i = Size
  /\ LET goes(b) == GoTo(rehash.deferred, b, Size)
     IN /\ buckets' = [b \in DOMAIN buckets |-> Reverse(goes(b)) \o buckets[b]]
        /\ states' = [b \in DOMAIN states |->
                        FoldLeft(MergeBefore, states[b], StatesOf(goes(b)))]
        /\ tableState' = FoldLeft(Merge, Permanent, [n \in 1..Size |-> states'[n - 1]])
  /\ rehash' = NoRehash
  /\ at' = Start(call)
  /\ key' = NoKey
  /\ iter' = [iter EXCEPT !.rehashed = iter.on]
  /\ UNCHANGED <<addr, epoch, split, tableSize, call, answer>>

-----------------------------------------------------------------------------
(***************************************************************************)
(* The iteration protocol.  The cell that an iteration holds is known by   *)
(* the key of its entry: a rehash links the cells anew, and an iteration   *)
(* follows the links.  After a split rehash a key may have two entries,    *)
(* and no iteration is begun.                                              *)
(***************************************************************************)

NoCell == "no cell"
ASSUME NoCellAssumption == NoCell \notin Keys

NoIter == [on |-> FALSE, lost |-> FALSE, touched |-> 0, index |-> 0, cell |-> NoCell,
           visited |-> <<>>, rehashed |-> FALSE]

(* The entries that follow the cell of key k in its bucket. *)
Cell(k) ==
  LET b == CHOOSE c \in DOMAIN buckets : \E e \in Range(buckets[c]) : e.key = k
      p == CHOOSE q \in DOMAIN buckets[b] : buckets[b][q].key = k
  IN SubSeq(buckets[b], p + 1, Len(buckets[b]))

Finished == iter.touched >= tableSize

(* Mutant: the bucket that the iteration is in is looked at again. *)
NextTableStateAgain(it) ==
  LET on     == [it EXCEPT !.touched = it.touched + 1]
      after  == IF it.cell = NoCell THEN <<>> ELSE Cell(it.cell)
      others == {b \in DOMAIN buckets : b >= it.index /\ buckets[b] # <<>>}
      b      == CHOOSE c \in others : \A d \in others : c <= d
  IN IF on.touched >= tableSize THEN on
     ELSE IF after # <<>> THEN [on EXCEPT !.cell = after[1].key]
     ELSE IF others = {} THEN [on EXCEPT !.lost = TRUE]
     ELSE [on EXCEPT !.index = b, !.cell = buckets[b][1].key]

(* next-table-state: the next cell of the bucket, or the first of the next *)
(* bucket that has one.  The search has no end but an index error.         *)
NextTableState(it) ==
  LET on     == [it EXCEPT !.touched = it.touched + 1]
      after  == IF it.cell = NoCell THEN <<>> ELSE Cell(it.cell)
      others == {b \in DOMAIN buckets : b > it.index /\ buckets[b] # <<>>}
      b      == CHOOSE c \in others : \A d \in others : c <= d
  IN IF on.touched >= tableSize THEN on
     ELSE IF after # <<>> THEN [on EXCEPT !.cell = after[1].key]
     ELSE IF others = {} THEN [on EXCEPT !.lost = TRUE]
     ELSE [on EXCEPT !.index = b, !.cell = buckets[b][1].key]

IterBegin ==
  /\ at = "idle" /\ ~ iter.on /\ split = "never"
  /\ iter' = NextTableState([NoIter EXCEPT !.on = TRUE, !.touched = -1, !.index = -1])
  /\ UNCHANGED <<addr, epoch, split, tableVars, threadVars>>

IterNext ==
  /\ at = "idle" /\ iter.on /\ ~ iter.lost /\ ~ Finished
  /\ iter' = NextTableState([iter EXCEPT !.visited = Append(@, iter.cell)])
  /\ UNCHANGED <<addr, epoch, split, tableVars, threadVars>>

IterEnd ==
  /\ at = "idle" /\ iter.on /\ (iter.lost \/ Finished)
  /\ iter' = NoIter
  /\ UNCHANGED <<addr, epoch, split, tableVars, threadVars>>

-----------------------------------------------------------------------------
(* What a collection does to a rehash: it splits one that has hashed some  *)
(* entries, and hashes the others after it.  "past" is a split that a      *)
(* collection outside of any rehash has followed.                          *)
Struck ==
  IF rehash.hashed \/ (split = "now" /\ InRehash) THEN "now"
  ELSE IF split = "never" THEN "never" ELSE "past"

(* collect_garbage: every object moves, and the state of the space is      *)
(* invalid.  The driver collects between two slices of the thread.         *)
Collect ==
  /\ epoch <= MaxCollections + (IF split = "never" THEN 0 ELSE 1)
  /\ addr' \in Placements
  /\ epoch' = epoch + 1
  /\ split' = Struck
  /\ UNCHANGED <<tableVars, threadVars, iter>>

TablesInit ==
  /\ addr \in Placements
  /\ epoch = 1 /\ split = "never"
  /\ \E n \in StartSizes : buckets = Empty(n) /\ states = AllPermanent(n)
  /\ tableState = Permanent /\ tableSize = 0
  /\ call = NoCall /\ at = "idle" /\ key = NoKey /\ rehash = NoRehash
  /\ answer = NoAnswer /\ iter = NoIter

ThreadStep ==
  \/ Hash \/ CheckTable \/ CheckKey
  \/ Element \/ ElementSetter \/ RemoveKey \/ SizeOf \/ RemoveAllKeys
  \/ RehashBucket \/ RehashEntry \/ RehashHash \/ FinishRehash

TablesNext ==
  \/ \E c \in Calls : Begin(c)
  \/ ThreadStep
  \/ IterBegin \/ IterNext \/ IterEnd
  \/ Collect

TablesSpec == TablesInit /\ [][TablesNext]_vars

-----------------------------------------------------------------------------
(***************************************************************************)
(* Properties.                                                             *)
(***************************************************************************)

(* The entries of the table, those a rehash holds included. *)
Entries ==
  (UNION {Range(buckets[b]) : b \in DOMAIN buckets})
    \cup Range(rehash.remaining) \cup Range(rehash.deferred)

Contents ==
  [k \in {e.key : e \in Entries} |-> (CHOOSE e \in Entries : e.key = k).elt]

(* A stale hash never goes unnoticed: while table-hash-state is valid and  *)
(* no rehash is under way, every entry is in the bucket in which a lookup  *)
(* with the key's present address searches, under the id it searches for.  *)
NoStaleHash ==
  ~ InRehash /\ StateValid(tableState) =>
    \A b \in DOMAIN buckets : \A e \in Range(buckets[b]) :
      e.id = HashId(e.key) /\ b = e.id % Size

(* Only a collection in the middle of a rehash makes a stale hash go       *)
(* unnoticed, and only until the next one outside of a rehash: that one    *)
(* makes all volatile states invalid, also those that the merged state of  *)
(* a bucket or of the table had hidden.                                    *)
StaleOnlyIfSplit == split # "now" => NoStaleHash

(* An iteration of a table that is not rehashed meanwhile visits every key *)
(* once and ends without an index error, although next-table-state counts  *)
(* the entries and does not look for the end of the vector.                *)
IterationVisitsAll ==
  iter.on /\ ~ iter.rehashed /\ ~ InRehash =>
    /\ ~ iter.lost
    /\ IsInjective(iter.visited)
    /\ Finished => Range(iter.visited) = DOMAIN Contents

(* The calls change and answer what a mapping would: as long as none       *)
(* splits a rehash, no collection makes a key vanish, appear twice or come *)
(* back, and the counts agree.                                             *)
Promise == INSTANCE TablePromise WITH map <- Contents, spoilt <- split # "never"
KeepsPromise == Promise!PromiseSpec
=============================================================================
