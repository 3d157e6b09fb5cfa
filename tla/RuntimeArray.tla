---------------------------- MODULE RuntimeArray ----------------------------
(***************************************************************************)
(* A dynamic array of the runtime (src/src/scratch_runtime.cpp, the        *)
(* section "array"): a growing block of memory behind size, capacity and   *)
(* data.  Modelled are the arrays whose elements own nothing (the default  *)
(* case of Runtime_array_heap_free_data), all of one type: append_from,    *)
(* which does nothing when the source's differs, always finds it the same, *)
(* and copy, which takes it over from the source, has nothing to change.   *)
(*                                                                         *)
(* Memory is modelled down to what the operations can tell apart: a block  *)
(* is the sequence of its elements, an element has a first byte (head) and *)
(* the remaining ones (tail), because the byte-wise shift of insert treats *)
(* them differently.  A null data pointer is the empty block (no block of  *)
(* length 0 is ever allocated).  An access outside the block is undefined  *)
(* behaviour: mem.fault is set and nothing happens any more.               *)
(*                                                                         *)
(* Several operations work only when called in the right circumstances.    *)
(* Their contracts are stated here as conditions on the caller; a client   *)
(* keeps every contract except those of the operations in Careless.        *)
(***************************************************************************)
EXTENDS Integers, Sequences

CONSTANTS
  Heads,     \* what the first byte of an element may hold
  Tails,     \* what the other bytes may hold ({0} for one-byte elements)
  MaxSize,   \* bound on the sizes and capacities asked for
  Careless   \* operations called without regard to their contract

ASSUME ArrayAssumption ==
  /\ 0 \in Heads /\ 0 \in Tails   \* zeroed memory
  /\ MaxSize \in Nat
  /\ Careless \subseteq {"shift", "grow", "appendFrom", "reserve", "resize", 
                         "copy", "delete"}

Element == [head : Heads, tail : Tails]
Zero == [head |-> 0, tail |-> 0]
Zeros(n) == [i \in 1 .. n |-> Zero]

VARIABLES
  live,      \* the array exists
  size,      \* Runtime_heap_array::size
  capacity,  \* Runtime_heap_array::capacity
  mem,       \* [data, blocks, fault]: the block data points to, how many
             \* blocks are allocated, whether memory was accessed outside one
  call       \* the last operation the client called, with its arguments

vars == <<live, size, capacity, mem, call>>

NoMemory == [data |-> <<>>, blocks |-> 0, fault |-> FALSE]

Init == live = FALSE /\ size = 0 /\ capacity = 0 /\ mem = NoMemory
        /\ call = [op |-> "none"]
-----------------------------------------------------------------------------
(* Runtime_array_heap_free_data: an array of size 0 keeps its block. *)
FreeData(m, sz) ==
  IF m.data = <<>> \/ sz = 0 THEN m
  ELSE [data |-> <<>>, blocks |-> m.blocks - 1, fault |-> m.fault]

(* Bug: the old elements are not copied. *)
ReservedEmpty(m, sz, cap) ==
  IF cap = 0 THEN FreeData(m, sz)
  ELSE [data |-> Zeros(cap), fault |-> m.fault,
        blocks |-> FreeData(m, sz).blocks + 1]

(* Runtime_array_heap_reserve: a new zeroed block of cap elements, with the *)
(* first sz elements of the old one, which is then freed.                   *)
Reserved(m, sz, cap) ==
  IF cap = 0 THEN FreeData(m, sz)
  ELSE IF m.data = <<>>
       THEN [data |-> Zeros(cap), blocks |-> m.blocks + 1, fault |-> m.fault]
       ELSE [data   |-> [i \in 1 .. cap |->
                           IF i <= sz /\ i <= Len(m.data)
                           THEN m.data[i] ELSE Zero],
             blocks |-> FreeData(m, sz).blocks + 1,
             fault  |-> m.fault \/ sz > cap \/ sz > Len(m.data)]

(* The elements s are copied to position at (0-based) of the block.        *)
Written(m, at, s) ==
  [data   |-> [i \in DOMAIN m.data |->
                 IF i \in (at + 1) .. (at + Len(s)) THEN s[i - at] ELSE m.data[i]],
   blocks |-> m.blocks,
   fault  |-> m.fault \/ (s # <<>> /\ at + Len(s) > Len(m.data))]

(* Bug: the multiplier is applied to the size in integers, 1 for 1.5. *)
GrownByOne(cap) == cap

(* The multipliers 1.5 and 2.0 are applied in double arithmetic, which is  *)
(* exact for the capacities a block of memory can have.                    *)
Grown(cap) == (3 * cap) \div 2
FirstCapacity(n) == IF n < 4 THEN 2 * n ELSE Grown(n)

(* The loop of insert moves bytes one element up, from the end of the      *)
(* array down to, but not including, the first byte at the insertion       *)
(* point: it starts with the byte after the last element.                  *)
Shifted(m, sz, at) ==
  IF at >= sz THEN m
  ELSE [m EXCEPT
     !.data  = [i \in DOMAIN @ |->
                  CASE i = at + 2            -> [@[i] EXCEPT !.tail = m.data[i - 1].tail]
                    [] i \in (at + 3) .. (sz + 1) -> @[i - 1]
                    [] i = sz + 2            -> [@[i] EXCEPT !.head = m.data[i - 1].head]
                    [] OTHER                 -> @[i]],
     !.fault = @ \/ sz + 2 > Len(m.data)]
-----------------------------------------------------------------------------
(* The operations, each with the contract its caller has to keep.          *)

Ready == live /\ ~mem.fault
Keeps(op, contract) == op \in Careless \/ contract

(* A block that can be replaced without being lost, see FreeData. *)
Replaceable == size > 0 \/ mem.data = <<>>

(* Runtime_array_new; Runtime_array_new_empty is n = 0. *)
New(n) ==
  /\ ~live /\ ~mem.fault
  /\ live' = TRUE
  /\ size' = n
  /\ capacity' = FirstCapacity(n)
  /\ mem' = Reserved([mem EXCEPT !.data = <<>>], n, FirstCapacity(n))
  /\ call' = [op |-> "new", n |-> n]

(* Writing through the pointer Runtime_array_at returns. *)
Store(i, e) ==
  /\ Ready
  /\ mem' = Written(mem, i - 1, <<e>>)
  /\ UNCHANGED <<live, size, capacity>>
  /\ call' = [op |-> "store", at |-> i, e |-> e]

(* Only at the end, and not into a block the growth policy cannot enlarge. *)
GrowContract == mem.data # <<>> /\ (size < capacity \/ capacity >= 2)

(* Runtime_array_insert, and Runtime_array_append with at = size. *)
Insert(e, at) ==
  /\ Ready
  /\ size < MaxSize
  /\ Keeps("shift", at = size)
  /\ Keeps("grow", GrowContract)
  /\ LET full == size = capacity
         cap  == IF full THEN Grown(capacity) ELSE capacity
         m    == IF full THEN Reserved(mem, size, cap) ELSE mem
     IN /\ capacity' = cap
        /\ mem' = Written(Shifted(m, size, at), at, <<e>>)
  /\ size' = size + 1
  /\ live' = live
  /\ call' = [op |-> "insert", at |-> at, e |-> e]

AppendFromContract(n) ==
  \/ n = 0
  \/ size + n < capacity /\ mem.data # <<>>
  \/ size + n = capacity /\ Replaceable

(* Runtime_array_append_from with another array as its source, of contents *)
(* s and capacity srcCap (0 for a static array).                           *)
AppendFrom(s, srcCap) ==
  /\ Ready
  /\ size + Len(s) <= MaxSize
  /\ Keeps("appendFrom", AppendFromContract(Len(s)))
  /\ s # <<>>
  /\ LET full == size + Len(s) = capacity
         cap  == IF full THEN Grown(capacity + srcCap) ELSE capacity
         m    == IF full THEN Reserved(mem, size, cap) ELSE mem
     IN /\ capacity' = cap
        /\ mem' = Written(m, size, s)
  /\ size' = size + Len(s)
  /\ live' = live
  /\ call' = [op |-> "appendFrom", s |-> s]

ReserveContract(n) == n >= size /\ (n > capacity => Replaceable)

(* Runtime_array_reserve: asking for less only lowers capacity. *)
Reserve(n) ==
  /\ Ready
  /\ Keeps("reserve", ReserveContract(n))
  /\ capacity' = n
  /\ mem' = IF n > capacity THEN Reserved(mem, size, n) ELSE mem
  /\ UNCHANGED <<live, size>>
  /\ call' = [op |-> "reserve", n |-> n]

ResizeContract(n) ==
  /\ n >= capacity
  /\ n <= Grown(capacity) \/ n > 2 * capacity
  /\ Replaceable

(* Runtime_array_resize: below the capacity it does nothing. *)
Resize(n) ==
  /\ Ready
  /\ Keeps("resize", ResizeContract(n))
  /\ IF n < capacity
     THEN UNCHANGED <<size, capacity, mem>>
     ELSE LET cap == Grown(IF n - capacity > capacity THEN n ELSE capacity)
          IN size' = n /\ capacity' = cap /\ mem' = Reserved(mem, size, cap)
  /\ live' = live
  /\ call' = [op |-> "resize", n |-> n]

CopyContract(n) ==
  \/ n = capacity /\ Replaceable
  \/ n < capacity /\ size = 0 /\ mem.data # <<>>

(* Runtime_array_copy: clear, grow if the source just fits, copy.          *)
Copy(s, srcCap) ==
  /\ Ready
  /\ Keeps("copy", CopyContract(Len(s)))
  /\ s # <<>>
  /\ LET full  == Len(s) = capacity
         cap   == IF full THEN Grown(capacity + srcCap) ELSE capacity
         clear == FreeData(mem, size)
         m     == IF full THEN Reserved(clear, 0, cap) ELSE clear
     IN /\ capacity' = cap
        /\ mem' = Written(m, 0, s)
  /\ size' = Len(s)
  /\ live' = live
  /\ call' = [op |-> "copy", s |-> s]

(* Runtime_array_clear: the capacity is kept, the block is not. *)
Clear ==
  /\ Ready
  /\ mem' = FreeData(mem, size)
  /\ size' = 0
  /\ UNCHANGED <<live, capacity>>
  /\ call' = [op |-> "clear"]

(* Runtime_array_delete: clear, then the array itself is freed. *)
Delete ==
  /\ Ready
  /\ Keeps("delete", Replaceable)
  /\ mem' = FreeData(mem, size)
  /\ live' = FALSE /\ size' = 0 /\ capacity' = 0
  /\ call' = [op |-> "delete"]

Sources == UNION {[1 .. n -> Element] : n \in 0 .. MaxSize}

Next ==
  \/ \E n \in 0 .. MaxSize : New(n) \/ Reserve(n) \/ Resize(n)
  \/ \E i \in 1 .. size, e \in Element : Store(i, e)
  \/ \E at \in 0 .. size, e \in Element : Insert(e, at)
  \/ \E s \in Sources : \E c \in {0} \cup (Len(s) .. MaxSize) :
       AppendFrom(s, c) \/ Copy(s, c)
  \/ Clear \/ Delete

Spec == Init /\ [][Next]_vars
-----------------------------------------------------------------------------
(* Properties *)

TypeOK ==
  /\ live \in BOOLEAN
  /\ size \in Nat /\ capacity \in Nat
  /\ mem \in [data : Seq(Element), blocks : Nat, fault : BOOLEAN]

(* No operation reads or writes outside the block of the array: the growth *)
(* policy leaves room for every element before it is written.              *)
InBounds == ~mem.fault

(* The block holds all the elements the array says it has. *)
DataHoldsSize == size <= Len(mem.data)

(* No block is forgotten: the only one allocated is the one data points to. *)
NoLeak == mem.blocks = IF mem.data = <<>> THEN 0 ELSE 1

(* The state between calls: the size is within the capacity and the        *)
(* capacity within the block, unless there is none.                        *)
Sound ==
  /\ TypeOK /\ InBounds /\ DataHoldsSize /\ NoLeak
  /\ size <= capacity
  /\ mem.data # <<>> => capacity <= Len(mem.data)
  /\ ~live => size = 0 /\ capacity = 0 /\ mem.data = <<>>

(* The array is a vector: every operation has the effect its name says on  *)
(* the elements a client can reach.                                        *)
Contents == SubSeq(mem.data, 1, size)
Calls == [op : {"new", "resize", "reserve"}, n : 0 .. MaxSize]
           \cup [op : {"store", "insert"}, at : 0 .. MaxSize, e : Element]
           \cup [op : {"appendFrom", "copy"}, s : Sources]
           \cup [op : {"clear", "delete"}]
V == INSTANCE Vector WITH contents <- Contents
IsVector == V!Spec
=============================================================================
