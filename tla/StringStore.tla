---------------------------- MODULE StringStore ----------------------------
(***************************************************************************)
(* What the strings of the runtime promise: variables that hold a text of  *)
(* their own each, whatever is done to the others.  A text ends with a 0;  *)
(* a string that has been cleared has none.                                *)
(***************************************************************************)
EXTENDS Integers, Sequences

CONSTANTS Handles, None

VARIABLES
  text,   \* the text of every string, None for those that do not exist
  call    \* the last operation, with its arguments

vars == <<text, call>>

Init == text = [h \in Handles |-> None] /\ call = [op |-> "none"]

Becomes(h, t) == text' = [text EXCEPT ![h] = t]

(* The operation just called has done what it is for. *)
Created(h) ==
  /\ text[h] = None
  /\ \/ call'.op \in {"new", "newCharCount"} /\ Becomes(h, Append(call'.s, 0))
     \/ call'.op = "newCopy" /\ Becomes(h, text[call'.from])

Changed(h) ==
  /\ text[h] # None
  /\ \/ call'.op \in {"assign", "assignCharCount"} /\ Becomes(h, Append(call'.s, 0))
     \/ call'.op = "assignCopy" /\ Becomes(h, text[call'.from])
     \/ call'.op = "clear" /\ Becomes(h, <<>>)
     \/ call'.op = "set" /\ Becomes(h, [text[h] EXCEPT ![call'.i] = call'.ch])
     \/ call'.op = "delete" /\ Becomes(h, None)

Next ==
  \/ call'.op \in {"hash", "start", "terminate"} /\ UNCHANGED text
  \/ \E h \in Handles : call'.h = h /\ (Created(h) \/ Changed(h))

Spec == Init /\ [][Next]_vars
=============================================================================
