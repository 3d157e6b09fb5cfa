-------------------------- MODULE RuntimeHashtable --------------------------
(***************************************************************************)
(* The hashtable of the runtime (src/src/scratch_runtime.cpp, the section  *)
(* "hashtable"), and the dictionary, whose operations only forward to it:  *)
(* an array of buckets, each a chain of pairs that grows at its tail.      *)
(*                                                                         *)
(* A chain is the sequence of its pairs.  erase frees a whole chain but    *)
(* leaves its second pair in the bucket: such a bucket is dangling, and    *)
(* touching it is undefined behaviour: fault is set and nothing happens    *)
(* any more.                                                               *)
(*                                                                         *)
(* As in RuntimeArray, a client keeps the contract of every operation that *)
(* is not in Careless.  All clients keep what RUNTIME_ASSERT demands: that *)
(* the capacity never becomes zero.                                        *)
(***************************************************************************)
EXTENDS Integers, Sequences, SequencesExt, FiniteSets

CONSTANTS
  Keys, Values,
  Hash,         \* hash code of a key, before it is reduced to a bucket
  Null,         \* the null pointer at() may return
  InitCapacity, \* DEFAULT_HASHTABLE_CAPACITY
  Factors,      \* factors, in quarters, a client may set
  MaxPairs,     \* bound on the number of pairs
  MaxCapacity,  \* bound on the capacity a client asks for
  Careless      \* operations called without regard to their contract

ASSUME HashtableAssumption ==
  /\ Hash \in [Keys -> Nat]
  /\ Null \notin Values
  /\ InitCapacity \in Nat \ {0}
  /\ Factors \subseteq Nat
  /\ MaxPairs \in Nat /\ MaxCapacity \in Nat
  /\ Careless \subseteq {"erase", "at"}

VARIABLES
  table,     \* tableData: the chain of every bucket
  capacity,
  size,
  growBy,    \* capacityGrowthFactor, in quarters
  maxUsage,  \* maxUsageFactor, in quarters
  dangling,  \* the buckets whose chain has been freed
  fault,     \* undefined behaviour has happened
  call,      \* the last operation the client called, with its arguments
  answer     \* what the last at() returned

factors == <<growBy, maxUsage>>
store == <<table, capacity, size, dangling>>
vars == <<table, capacity, size, growBy, maxUsage, dangling, fault, call, answer>>

Pair == [key : Keys, val : Values]
EmptyTable(cap) == [b \in 0 .. (cap - 1) |-> <<>>]

(* Runtime_hashtable_new *)
Init ==
  /\ capacity = InitCapacity /\ table = EmptyTable(InitCapacity) /\ size = 0
  /\ growBy = 6 /\ maxUsage = 3
  /\ dangling = {} /\ fault = FALSE
  /\ call = [op |-> "none"] /\ answer = Null
-----------------------------------------------------------------------------
(* Runtime_hashtable_hash_index *)
HashIndex(cap, key) == Hash[key] % cap

(* The places of the pairs of a table: a bucket and a position in its      *)
(* chain.                                                                  *)
Places(t, cap) == UNION {{b} \X DOMAIN t[b] : b \in 0 .. (cap - 1)}
PairAt(t, p) == t[p[1]][p[2]]

(* rebuild_hashes goes from bucket to bucket, and along each chain.        *)
NotAfter(p, q) == IF p[1] = q[1] THEN p[2] <= q[2] ELSE p[1] < q[1]
Turn(P, p) == Cardinality({q \in P : NotAfter(q, p)})
Nth(P, n) == CHOOSE p \in P : Turn(P, p) = n

(* The pairs at the places P, in the order in which they are visited. *)
Visited(t, P) == [n \in 1 .. Cardinality(P) |-> PairAt(t, Nth(P, n))]

(* The places of the pairs that go to bucket b. *)
Moved(t, P, cap, b) == {p \in P : HashIndex(cap, PairAt(t, p).key) = b}

(* Bug: the pairs are filed under the old capacity. *)
RebuiltForOldCapacity(t, oldCap, newCap) ==
  LET P == Places(t, oldCap)
  IN [b \in 0 .. (newCap - 1) |-> Visited(t, Moved(t, P, oldCap, b))]

(* Bug: the new array of buckets is as long as the old one. *)
RebuiltInOldLength(t, oldCap, newCap) ==
  LET P == Places(t, oldCap)
  IN [b \in 0 .. (oldCap - 1) |-> Visited(t, Moved(t, P, newCap, b))]

(* Bug: the pairs go to the head of their new chain. *)
RebuiltAtHead(t, oldCap, newCap) ==
  LET P == Places(t, oldCap)
  IN [b \in 0 .. (newCap - 1) |-> Reverse(Visited(t, Moved(t, P, newCap, b)))]

(* Runtime_hashtable_rebuild_hashes: every pair goes to the tail of the    *)
(* chain of its new bucket.                                                *)
Rebuilt(t, oldCap, newCap) ==
  LET P == Places(t, oldCap)
  IN [b \in 0 .. (newCap - 1) |-> Visited(t, Moved(t, P, newCap, b))]

(* Quarters times the capacity, truncated: exact in double arithmetic.     *)
Scaled(cap, quarters) == (cap * quarters) \div 4

(* Bug: the table is allowed one pair more. *)
IsOverfull == size > Scaled(capacity, maxUsage)

IsFull == size >= Scaled(capacity, maxUsage)

Ready == ~fault
Keeps(op, contract) == op \in Careless \/ contract

Fault ==
  /\ fault' = TRUE
  /\ UNCHANGED <<table, capacity, size, dangling, factors, answer>>

(* Runtime_hashtable_set_capacity: rehashing touches every chain. *)
SetCapacity(cap) ==
  /\ Ready /\ cap # 0
  /\ call' = [op |-> "setCapacity", n |-> cap]
  /\ IF dangling # {} THEN Fault
     ELSE /\ table' = Rebuilt(table, capacity, cap)
          /\ capacity' = cap
          /\ UNCHANGED <<size, dangling, factors, fault, answer>>

(* The setters of the two factors. *)
SetFactor ==
  /\ Ready
  /\ \E q \in Factors : \/ growBy' = q /\ maxUsage' = maxUsage
                        \/ maxUsage' = q /\ growBy' = growBy
  /\ call' = [op |-> "setFactor"]
  /\ UNCHANGED <<store, fault, answer>>

(* Runtime_hashtable_insert: grow when the table is full, then add the     *)
(* pair at the tail of its chain, whatever the chain holds already.        *)
Insert(key, val) ==
  LET cap == IF IsFull THEN Scaled(capacity, growBy) ELSE capacity
      t   == IF IsFull THEN Rebuilt(table, capacity, cap) ELSE table
      b   == HashIndex(cap, key)
  IN
  /\ Ready /\ cap # 0
  /\ size < MaxPairs
  /\ call' = [op |-> "insert", key |-> key, val |-> val]
  /\ IF (IsFull /\ dangling # {}) \/ (~IsFull /\ b \in dangling)
     THEN Fault
     ELSE /\ table' = [t EXCEPT ![b] = Append(@, [key |-> key, val |-> val])]
          /\ capacity' = cap
          /\ size' = size + 1
          /\ UNCHANGED <<dangling, factors, fault, answer>>

ChainOf(key) == table[HashIndex(capacity, key)]

(* Erasing is right only for a pair that is alone in its bucket. *)
EraseContract(key) == Len(ChainOf(key)) = 1 /\ ChainOf(key)[1].key = key

(* Bug: the pair is taken out, but not counted out. *)
EraseLeavesCount(key) ==
  /\ Ready
  /\ Keeps("erase", EraseContract(key))
  /\ call' = [op |-> "erase", key |-> key]
  /\ table' = [table EXCEPT ![HashIndex(capacity, key)] = <<>>]
  /\ UNCHANGED <<size, dangling, capacity, factors, fault, answer>>

(* Runtime_hashtable_erase: the head of the bucket is taken out, whatever  *)
(* its key, and freed together with all the pairs behind it.  Nothing      *)
(* happens when the bucket is empty.                                       *)
Erase(key) ==
  LET b == HashIndex(capacity, key)
      c == table[b]
  IN
  /\ Ready
  /\ Keeps("erase", EraseContract(key))
  /\ call' = [op |-> "erase", key |-> key]
  /\ IF b \in dangling THEN Fault
     ELSE /\ c # <<>>
          /\ table' = [table EXCEPT ![b] = Tail(c)]
          /\ dangling' = IF Tail(c) = <<>> THEN dangling ELSE dangling \cup {b}
          /\ size' = size - 1
          /\ UNCHANGED <<capacity, factors, fault, answer>>

(* A bucket of one pair answers for any key; in a longer one the head is   *)
(* never looked at.                                                        *)
AtContract(key) ==
  LET c == ChainOf(key) IN
  c # <<>> => IF Len(c) = 1 THEN c[1].key = key ELSE c[1].key # key

Matches(c, key) == {i \in 2 .. Len(c) : c[i].key = key}

Found(c, key) ==
  IF c = <<>> THEN Null
  ELSE IF Len(c) = 1 THEN c[1].val
  ELSE IF Matches(c, key) = {} THEN Null
  ELSE c[CHOOSE i \in Matches(c, key) : \A j \in Matches(c, key) : i <= j].val

(* Runtime_hashtable_at *)
At(key) ==
  /\ Ready
  /\ Keeps("at", AtContract(key))
  /\ call' = [op |-> "at", key |-> key]
  /\ IF HashIndex(capacity, key) \in dangling THEN Fault
     ELSE /\ answer' = Found(ChainOf(key), key)
          /\ UNCHANGED <<store, factors, fault>>

(* Runtime_hashtable_clear frees every chain; Runtime_hashtable_delete     *)
(* begins with it, and the client then starts over with a new table.       *)
Clear ==
  /\ Ready
  /\ call' = [op |-> "clear"]
  /\ IF dangling # {} THEN Fault
     ELSE /\ table' = EmptyTable(capacity) /\ size' = 0
          /\ UNCHANGED <<capacity, dangling, factors, fault, answer>>

Next ==
  \/ \E k \in Keys, v \in Values : Insert(k, v)
  \/ \E k \in Keys : Erase(k)
  \/ \E k \in Keys : At(k)
  \/ \E c \in 1 .. MaxCapacity : SetCapacity(c)
  \/ SetFactor
  \/ Clear

Spec == Init /\ [][Next]_vars
-----------------------------------------------------------------------------
(* Properties *)

TypeOK ==
  /\ capacity \in Nat \ {0} /\ size \in Nat
  /\ table \in [0 .. (capacity - 1) -> Seq(Pair)]
  /\ growBy \in Nat /\ maxUsage \in Nat
  /\ dangling \subseteq 0 .. (capacity - 1)
  /\ fault \in BOOLEAN
  /\ answer \in Values \cup {Null}

(* After any sequence of inserts, erasures and rehashes, every pair sits   *)
(* in the bucket its key hashes to under the current capacity.             *)
InHomeBucket ==
  \A b \in DOMAIN table : \A i \in DOMAIN table[b] :
    HashIndex(capacity, table[b][i].key) = b

(* size, which decides when the table grows, is the number of pairs.       *)
SizeIsCount == dangling = {} => size = Cardinality(Places(table, capacity))

(* No operation touches a pair that was freed. *)
NoUseAfterFree == ~fault

(* With the default factors and a capacity of at least 2, an insert leaves *)
(* a table that was at most three quarters full at most so.                *)
Defaults == growBy = 6 /\ maxUsage = 3
LoadWithin == size <= Scaled(capacity, 3)
LoadBounded ==
  [][Defaults /\ capacity >= 2 /\ LoadWithin /\ size' > size => LoadWithin']_vars

(* The table is a multimap: at answers with the oldest value of a key, and *)
(* growing keeps every value and the order of the values of a key.         *)
PlacesOf(t, cap, key) ==
  {p \in {HashIndex(cap, key)} \X DOMAIN t[HashIndex(cap, key)] :
     PairAt(t, p).key = key}
Entries(t, cap, key) ==
  LET P == PlacesOf(t, cap, key)
  IN [n \in 1 .. Cardinality(P) |-> PairAt(t, Nth(P, n)).val]
Calls == [op : {"insert"}, key : Keys, val : Values]
           \cup [op : {"erase", "at"}, key : Keys]
           \cup [op : {"setCapacity"}, n : 1 .. MaxCapacity]
           \cup [op : {"setFactor", "clear"}]
Contents == [k \in Keys |-> Entries(table, capacity, k)]
M == INSTANCE Multimap WITH entries <- Contents
IsMultimap == M!Spec
=============================================================================
