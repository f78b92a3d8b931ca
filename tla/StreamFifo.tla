----------------------------- MODULE StreamFifo -----------------------------
(***************************************************************************)
(* What the stream of audio.c promises: "voice 31 is a true FIFO".  Pairs  *)
(* of samples are heard in the order in which they were written, each      *)
(* interpolated with the one that follows it; the voice never comes        *)
(* within Floor pairs of the last one written, it waits there; and a stop  *)
(* drops what was not heard.                                               *)
(***************************************************************************)
EXTENDS Naturals, Sequences, SequencesExt

CONSTANTS
    Size,   \* pairs in the ring, one of which stays free
    Floor,  \* STREAM_FLOOR
    Pairs   \* the pairs that may be written

VARIABLES
    fifo,   \* written, not yet heard
    heard   \* the pair heard last and the one it was blended with

fifoVars == <<fifo, heard>>

Init == fifo = <<>> /\ heard = <<>>

Write ==
    /\ IsPrefix(fifo, fifo') /\ Len(fifo') < Size
    /\ fifo' \in Seq(Pairs)
    /\ UNCHANGED heard

\* Rates reach from a part of a pair for each output sample to two pairs.
Hear ==
    /\ Len(fifo) >= Floor
    /\ heard' = SubSeq(fifo, 1, 2)
    /\ \E k \in 0..2 : fifo' = SubSeq(fifo, k + 1, Len(fifo))

Drop == fifo' = <<>> /\ UNCHANGED heard

Next == Write \/ Hear \/ Drop

Spec == Init /\ [][Next]_fifoVars
=============================================================================
