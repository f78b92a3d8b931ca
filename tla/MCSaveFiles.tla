---------------------------- MODULE MCSaveFiles -----------------------------
(***************************************************************************)
(* Model-checking instance of SaveFiles.                                   *)
(***************************************************************************)
EXTENDS SaveFiles, TLC

\* Descriptors are interchangeable: alloc_fd's order matters to no one.
FDSymmetry == Permutations(FDs)
=============================================================================
