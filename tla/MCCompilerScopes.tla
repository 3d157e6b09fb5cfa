------------------------- MODULE MCCompilerScopes -------------------------
(***************************************************************************)
(* Instances of CompilerScopes for TLC.  Five names for nodes are enough:  *)
(* a send takes at most two, and Room lets a build of one file send two.   *)
(***************************************************************************)
EXTENDS CompilerScopes

NodeNames == <<"t1", "t2", "t3", "t4", "t5">>
=============================================================================
