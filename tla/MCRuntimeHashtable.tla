------------------------- MODULE MCRuntimeHashtable -------------------------
(***************************************************************************)
(* Instances of RuntimeHashtable for TLC: three keys, of which the first   *)
(* two share a bucket at the capacities 1, 2, 3 and 6 but not at 4, and    *)
(* the third shares one with the first at the capacities 1, 2 and 4.       *)
(***************************************************************************)
EXTENDS RuntimeHashtable

CONSTANTS k1, k2, k3

CollidingHash == (k1 :> 0) @@ (k2 :> 6) @@ (k3 :> 4)
=============================================================================
