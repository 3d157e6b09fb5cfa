-------------------------- MODULE MCRuntimeString --------------------------
(* Two strings, short texts. *)
EXTENDS RuntimeString
OneChar == {<<>>, <<1>>}
=============================================================================
