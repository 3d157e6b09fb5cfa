------------------------------- MODULE Vector -------------------------------
(***************************************************************************)
(* What an array of the scratch-lang runtime promises its clients: a       *)
(* sequence of elements that every operation changes as its name says.     *)
(* Module RuntimeArray is shown to implement it, for clients that keep to  *)
(* the contract of each operation.                                         *)
(***************************************************************************)
EXTENDS Integers, Sequences

CONSTANTS Zero, Calls

VARIABLES
  call,      \* the last operation called, with its arguments
  contents   \* the elements

vvars == <<call, contents>>

Init == call = [op |-> "none"] /\ contents = <<>>

Inserted(s, at, e) == SubSeq(s, 1, at) \o <<e>> \o SubSeq(s, at + 1, Len(s))

(* The elements after the call c of an operation on the elements s. *)
Effect(c, s) ==
  CASE c.op = "new"        -> [i \in 1 .. c.n |-> Zero]
    [] c.op = "store"      -> [s EXCEPT ![c.at] = c.e]
    [] c.op = "insert"     -> Inserted(s, c.at, c.e)
    [] c.op = "appendFrom" -> s \o c.s
    [] c.op = "copy"       -> c.s
    [] c.op = "resize"     -> [i \in 1 .. c.n |->
                                 IF i <= Len(s) THEN s[i] ELSE Zero]
    [] c.op = "reserve"    -> s
    [] c.op \in {"clear", "delete"} -> <<>>

Next == call' \in Calls /\ contents' = Effect(call', contents)

Spec == Init /\ [][Next]_vvars
=============================================================================
