---------------------------- MODULE RuntimeString ----------------------------
(***************************************************************************)
(* The strings of the runtime (src/src/scratch_runtime.cpp, the section    *)
(* "strings") between Runtime_init and Runtime_terminate.  A string is     *)
(* three blocks of memory: its own, with a hash value that is computed     *)
(* when somebody asks for it; the header of a dynamic array of characters; *)
(* and the characters, of which there are more than the array is long.     *)
(*                                                                         *)
(* Clients keep these rules, without which the code reads through a null   *)
(* pointer or beside a block: a string is not used before it is created or *)
(* after it is deleted, is not assigned to itself, is not hashed between   *)
(* being cleared and being assigned, and is set at an index it has.        *)
(* Strings that begin without an array (Runtime_string_new_empty) can be   *)
(* used for nothing and are only a step on the way to the others.          *)
(***************************************************************************)
EXTENDS RuntimeHeap

CONSTANTS
  Handles,   \* the variables of a client
  Texts,     \* the texts it has, without the 0 at their end
  Chars,     \* the characters it sets
  None       \* no text

ASSUME StringAssumption ==
  /\ 0 \in Chars /\ Chars \subseteq Nat
  /\ Texts \subseteq Seq(Chars) /\ None \notin Seq(Chars)

VARIABLES
  phase,     \* "off", "on", "ended"
  mem,       \* the memory of the runtime
  held,      \* the addresses the client holds, Null for none
  call,      \* the last operation the client called
  retouched, \* history: strings that were set since their hash was computed
  headers    \* history: how often a string was assigned to

vars == <<phase, mem, held, call, retouched, headers>>

Init ==
  /\ phase = "off" /\ mem = NoMemory /\ held = [h \in Handles |-> Null]
  /\ call = [op |-> "none"] /\ retouched = {} /\ headers = 0
-----------------------------------------------------------------------------
(***************************************************************************)
(* Arrays of characters.                                                   *)
(***************************************************************************)
Header(n, data) == [type |-> "array", size |-> 48, length |-> n, data |-> data]
Data(bytes) == [type |-> "chars", size |-> Len(bytes), bytes |-> bytes]

Capacity(n) == IF n < 4 THEN 2 * n ELSE (3 * n) \div 2
Padded(s) == [i \in 1 .. Capacity(Len(s)) |-> IF i <= Len(s) THEN s[i] ELSE 0]

(* Runtime_array_new and Runtime_array_new_copy, which leave the array at  *)
(* Fresh(m). *)
WithArray(m, s) ==
  IF s = <<>> THEN Alloc(m, Header(0, Null))
  ELSE LET a == Fresh(m)
           h == Alloc(m, Header(Len(s), Null))
           d == Alloc(h, Data(Padded(s)))
       IN [d EXCEPT !.heap[a].data = Fresh(h)]

(* An array of length 0 has no characters to free. *)
ArrayCleared(m, a) ==
  LET array == m.heap[a]
      emptied == [m EXCEPT !.heap[a] = Header(0, Null)]
  IN IF array.length = 0 THEN m ELSE Freed(emptied, array.data)
DeletedHeaderOnly(m, a) == Freed(m, a)   \* mutant: the characters stay
ArrayDeleted(m, a) == Freed(ArrayCleared(m, a), a)

Elements(m, a) ==
  IF m.heap[a].length = 0 THEN <<>>
  ELSE SubSeq(m.heap[m.heap[a].data].bytes, 1, m.heap[a].length)
-----------------------------------------------------------------------------
(***************************************************************************)
(* Strings.  A hash of 0 stands for one that is not computed; that of      *)
(* characters that are all 0 is 0.                                         *)
(***************************************************************************)
NoHash == <<>>
HashOf(bytes) == IF \A i \in DOMAIN bytes : bytes[i] = 0 THEN NoHash ELSE bytes

String(array, hash) == [type |-> "string", size |-> 24, array |-> array, hash |-> hash]
Array(m, a) == m.heap[a].array
Text(m, a) == Elements(m, Array(m, a))

WithString(m, s, hash) ==
  LET a == Fresh(m)
      e == Alloc(m, String(Null, NoHash))
  IN [WithArray(e, s) EXCEPT !.heap[a] = String(Fresh(e), hash)]

(* mutant: the copy is as long as the memory of the original *)
WithAllMemory(m, from) == WithString(m, Padded(Text(m, from)), m.heap[from].hash)
WithCopy(m, from) == WithString(m, Text(m, from), m.heap[from].hash)

(* mutant: the hash stays *)
ClearedKeepsHash(m, a) == ArrayCleared(m, Array(m, a))
Cleared(m, a) ==
  [ArrayCleared(m, Array(m, a)) EXCEPT !.heap[a].hash = NoHash]

(* Assigning clears the string and gives it a new array; the header of the *)
(* old one is not freed.                                                   *)
Assigned(m, a, s) ==
  LET c == Cleared(m, a)
  IN [WithArray(c, s) EXCEPT !.heap[a].array = Fresh(c)]
-----------------------------------------------------------------------------
Exists(h) == phase = "on" /\ held[h] # Null
Called(op) == call' = op

Start ==
  /\ phase = "off" /\ phase' = "on"
  /\ mem' = Started /\ Called([op |-> "start"])
  /\ UNCHANGED <<held, retouched, headers>>

Creates(h, m) ==
  /\ phase = "on" /\ held[h] = Null
  /\ Cardinality(Free(mem)) >= 3
  /\ mem' = m /\ held' = [held EXCEPT ![h] = Fresh(mem)]
  /\ UNCHANGED <<phase, headers>>

(* Runtime_string_new, Runtime_string_new_with_size *)
New(h, s) ==
  /\ Creates(h, WithString(mem, Append(s, 0), NoHash))
  /\ Called([op |-> "new", h |-> h, s |-> s])
  /\ UNCHANGED retouched

NewCharCount(h, ch, n) ==
  LET s == [i \in 1 .. n |-> ch]
  IN /\ Creates(h, WithString(mem, Append(s, 0), NoHash))
     /\ Called([op |-> "newCharCount", h |-> h, s |-> s])
     /\ UNCHANGED retouched

NewCopy(h, from) ==
  /\ Exists(from)
  /\ Creates(h, WithCopy(mem, held[from]))
  /\ Called([op |-> "newCopy", h |-> h, from |-> from])
  /\ retouched' = IF from \in retouched THEN retouched \cup {h} ELSE retouched

Delete(h) ==
  /\ Exists(h)
  /\ mem' = Freed(ArrayDeleted(mem, Array(mem, held[h])), held[h])
  /\ held' = [held EXCEPT ![h] = Null]
  /\ Called([op |-> "delete", h |-> h])
  /\ retouched' = retouched \ {h}
  /\ UNCHANGED <<phase, headers>>

Clear(h) ==
  /\ Exists(h)
  /\ mem' = Cleared(mem, held[h])
  /\ Called([op |-> "clear", h |-> h])
  /\ retouched' = retouched \ {h}
  /\ UNCHANGED <<phase, held, headers>>

Assigns(h, s) ==
  /\ Exists(h) /\ Cardinality(Free(mem)) >= 2
  /\ mem' = Assigned(mem, held[h], s)
  /\ retouched' = retouched \ {h}
  /\ headers' = headers + 1
  /\ UNCHANGED <<phase, held>>

(* Runtime_string_assign, Runtime_string_assign_with_size *)
Assign(h, s) ==
  Assigns(h, Append(s, 0)) /\ Called([op |-> "assign", h |-> h, s |-> s])

AssignCharCount(h, ch, n) ==
  LET s == [i \in 1 .. n |-> ch]
  IN Assigns(h, Append(s, 0)) /\ Called([op |-> "assignCharCount", h |-> h, s |-> s])

(* Unlike a new copy, an assigned one computes its own hash. *)
AssignCopy(h, from) ==
  /\ h # from /\ Exists(from)
  /\ Assigns(h, Text(mem, held[from]))
  /\ Called([op |-> "assignCopy", h |-> h, from |-> from])

(* Setting a character does not reset the hash. *)
Set(h, i, ch) ==
  /\ Exists(h) /\ i \in DOMAIN Text(mem, held[h])
  /\ LET data == mem.heap[Array(mem, held[h])].data
     IN mem' = [mem EXCEPT !.heap[data].bytes[i] = ch]
  /\ Called([op |-> "set", h |-> h, i |-> i, ch |-> ch])
  /\ retouched' = IF mem.heap[held[h]].hash = NoHash THEN retouched
                  ELSE retouched \cup {h}
  /\ UNCHANGED <<phase, held, headers>>

(* The hash is computed over the capacity of the array. *)
Hash(h) ==
  /\ Exists(h) /\ Text(mem, held[h]) # <<>>
  /\ LET a == held[h]
         bytes == mem.heap[mem.heap[Array(mem, a)].data].bytes
     IN mem' = IF mem.heap[a].hash # NoHash THEN mem
               ELSE [mem EXCEPT !.heap[a].hash = HashOf(bytes)]
  /\ Called([op |-> "hash", h |-> h])
  /\ UNCHANGED <<phase, held, retouched, headers>>

(* Runtime_terminate frees the blocks of Runtime_init. *)
Terminate ==
  /\ phase = "on" /\ phase' = "ended"
  /\ LET blocks == RuntimeBlocks(mem)
     IN mem' = [heap |-> [a \in Addresses |-> IF a \in blocks THEN NoBlock ELSE mem.heap[a]],
                total |-> mem.total - Bytes(mem, blocks)]
  /\ Called([op |-> "terminate"])
  /\ UNCHANGED <<held, retouched, headers>>

Lengths == {Len(s) : s \in Texts}

Next ==
  \/ Start \/ Terminate
  \/ \E h \in Handles :
       \/ Delete(h) \/ Clear(h) \/ Hash(h)
       \/ \E s \in Texts : New(h, s) \/ Assign(h, s)
       \/ \E ch \in Chars, n \in Lengths : NewCharCount(h, ch, n) \/ AssignCharCount(h, ch, n)
       \/ \E from \in Handles : NewCopy(h, from) \/ AssignCopy(h, from)
       \/ \E ch \in Chars, i \in 1 .. 1 + Max(Lengths) : Set(h, i, ch)

Spec == Init /\ [][Next]_vars
-----------------------------------------------------------------------------
(* The blocks of a string, and those nothing leads to any more.            *)
BlocksOf(h) ==
  IF held[h] = Null THEN {}
  ELSE LET array == Array(mem, held[h])
       IN {held[h], array} \cup ({mem.heap[array].data} \ {Null})
Lost ==
  {a \in Addresses : Live(mem, a)}
    \ (RuntimeBlocks(mem) \cup UNION {BlocksOf(h) : h \in Handles})

(* No string has a block that was freed, or one of another string.         *)
OwnBlocks ==
  \A h \in Handles : held[h] # Null =>
    /\ \A a \in BlocksOf(h) : Live(mem, a)
    /\ \A g \in Handles \ {h} : BlocksOf(g) \cap BlocksOf(h) = {}

(* Strings have blocks of their own; what is lost is one header for every  *)
(* assignment, and the characters never; and the bytes Runtime_terminate   *)
(* reports as left over are those of the strings that were not deleted and *)
(* of the headers lost.                                                    *)
Accounted ==
  /\ OwnBlocks
  /\ Cardinality(Lost) = headers
  /\ \A a \in Lost : mem.heap[a] = Header(0, Null)
  /\ mem.total = Bytes(mem, {a \in Addresses : Live(mem, a)})

(* A hash that has been computed is that of the text, and so the same for  *)
(* strings that compare equal, wherever they came from and however much    *)
(* memory they have been given; but for strings that were set since.       *)
HashIsOfText ==
  \A h \in Handles : held[h] # Null /\ h \notin retouched =>
    mem.heap[held[h]].hash \in {NoHash, HashOf(Padded(Text(mem, held[h])))}

(* Strings are texts of their own: whatever blocks they are made of, an    *)
(* operation changes the string it is given, as it should, and no other.   *)
Store == INSTANCE StringStore WITH
  text <- [h \in Handles |->
             IF held[h] = Null THEN None ELSE Text(mem, held[h])]
IsStringStore == Store!Spec
=============================================================================
