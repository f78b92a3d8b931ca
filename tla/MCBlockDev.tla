----------------------------- MODULE MCBlockDev -----------------------------
(***************************************************************************)
(* Model-checking instance of BlockDev: two images, a buffer of three      *)
(* blocks, a scratch of two, commands of two sectors.                      *)
(***************************************************************************)
EXTENDS BlockDev

MCDisks == {0, 1}
MCSectors == 0..5
MCCells == 0..4
MCBlank == [d \in MCDisks |-> [s \in MCSectors |->
    << <<"a0", "a1", "a2", "a3", "a4", "a5">>,
       <<"b0", "b1", "b2", "b3", "b4", "b5">> >>[d + 1][s + 1]]]
MCImages == {[size |-> 4, ro |-> FALSE], [size |-> 3, ro |-> TRUE]}
MCCounts == {1, 3}
MCPayloads == {<<"w1">>, <<"w2", "w3", "w4">>}
OneImage == {[size |-> 3, ro |-> FALSE]}
OnePayload == {<<"w2", "w3", "w4">>}
OneBlank == [d \in {0} |-> MCBlank[0]]
=============================================================================
