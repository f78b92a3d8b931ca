----------------------------- MODULE MCDataSlot -----------------------------
(***************************************************************************)
(* Model-checking instance of DataSlot: two staged parameter sets besides  *)
(* the reset value are enough to tell a command from the one before it and *)
(* from one issued behind it.  They are not declared symmetric: Retires is *)
(* a liveness property.                                                    *)
(***************************************************************************)
EXTENDS DataSlot
=============================================================================
