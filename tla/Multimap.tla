------------------------------ MODULE Multimap ------------------------------
(***************************************************************************)
(* What a hashtable of the scratch-lang runtime promises its clients: the  *)
(* values inserted under each key, oldest first (insert never replaces a   *)
(* value).  Module RuntimeHashtable is shown to implement it, for clients  *)
(* that keep to the contract of each operation.                            *)
(***************************************************************************)
EXTENDS Sequences

CONSTANTS Keys, Calls, Null

VARIABLES
  call,     \* the last operation called, with its arguments
  entries,  \* the values of every key
  answer    \* what the last at() returned

mvars == <<call, entries, answer>>

Nothing == [k \in Keys |-> <<>>]

Init == call = [op |-> "none"] /\ entries = Nothing /\ answer = Null

Oldest(s) == IF s = <<>> THEN Null ELSE Head(s)
WithoutOldest(s) == IF s = <<>> THEN s ELSE Tail(s)

(* The entries after the call c, when they were e before. *)
Effect(c, e) ==
  CASE c.op = "insert" -> [e EXCEPT ![c.key] = Append(@, c.val)]
    [] c.op = "erase"  -> [e EXCEPT ![c.key] = WithoutOldest(@)]
    [] c.op = "clear"  -> Nothing
    [] OTHER           -> e

Next ==
  /\ call' \in Calls
  /\ entries' = Effect(call', entries)
  /\ answer' = IF call'.op = "at" THEN Oldest(entries[call'.key]) ELSE answer

Spec == Init /\ [][Next]_mvars
=============================================================================
