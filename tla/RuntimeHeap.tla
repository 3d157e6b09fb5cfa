---------------------------- MODULE RuntimeHeap ----------------------------
(***************************************************************************)
(* The memory the runtime hands out (src/src/scratch_runtime.cpp,          *)
(* Runtime_alloc and Runtime_free): blocks that begin with a               *)
(* Runtime_memory_info, and the number of bytes allocated.  A memory is a  *)
(* record [heap, total]; what a block holds is kept in the block.  Blocks  *)
(* of records and of classes, of which Runtime_alloc allocates the info    *)
(* only, are left out: nothing in the repository allocates one but arrays  *)
(* of them.                                                                *)
(***************************************************************************)
EXTENDS Integers, Sequences, FiniteSetsExt

CONSTANTS Addresses  \* where blocks can be

(* There is room for what Runtime_init allocates. *)
ASSUME AddressAssumption ==
  Addresses \subseteq Nat \ {0} /\ IsFiniteSet(Addresses) /\ Cardinality(Addresses) >= 3

Null == 0
InfoBytes == 24      \* sizeof(Runtime_memory_info)
NoBlock == [type |-> "none", size |-> 0]

Live(m, a) == a \in Addresses /\ m.heap[a] # NoBlock
Free(m) == {a \in Addresses : m.heap[a] = NoBlock}

(* An address tells nothing: the first free one will do. *)
Fresh(m) == Min(Free(m))

Alloc(m, block) ==
  [heap |-> [m.heap EXCEPT ![Fresh(m)] = block],
   total |-> m.total + block.size + InfoBytes]

(* What is no block of the runtime, as far as its info tells, is left      *)
(* alone.                                                                  *)
Freed(m, a) ==
  IF ~Live(m, a) THEN m
  ELSE [heap |-> [m.heap EXCEPT ![a] = NoBlock],
        total |-> m.total - (m.heap[a].size + InfoBytes)]

Bytes(m, blocks) == MapThenSumSet(LAMBDA a : m.heap[a].size + InfoBytes, blocks)

NoMemory == [heap |-> [a \in Addresses |-> NoBlock], total |-> 0]

(* Runtime_init: the instance and its two tables.  Runtime_terminate frees *)
(* them, and reports the bytes that are left.                              *)
Instance == [type |-> "instance", size |-> 32]
ArrayInfos == [type |-> "arrayInfos", size |-> 336]
HashtableInfos == [type |-> "hashtableInfos", size |-> 10584]
RuntimeBlocks(m) ==
  {a \in Addresses : m.heap[a] \in {Instance, ArrayInfos, HashtableInfos}}

Started == Alloc(Alloc(Alloc(NoMemory, Instance), ArrayInfos), HashtableInfos)
=============================================================================
