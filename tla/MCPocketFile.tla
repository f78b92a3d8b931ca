---------------------------- MODULE MCPocketFile ----------------------------
(***************************************************************************)
(* Model-checking instance of PocketFile.  Two requests of a kind tell a   *)
(* completion from the one before it; a third value is the reset contents  *)
(* of the parameter registers.                                             *)
(***************************************************************************)
EXTENDS PocketFile, TLC

RequestSymmetry == Permutations(AsyncReqs) \cup Permutations(SyncReqs)
=============================================================================
