--------------------------- MODULE MCAudioStream ----------------------------
(***************************************************************************)
(* Model-checking instance of AudioStream: a ring of eight pairs keeps     *)
(* twice the hold floor.                                                   *)
(***************************************************************************)
EXTENDS AudioStream

\* Reopened from the start, or from so far on that the room computed from the
\* old position lets the voice start.
Safe == {0} \cup Floor + 1..Size - 1
=============================================================================
