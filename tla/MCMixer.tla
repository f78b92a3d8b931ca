------------------------------ MODULE MCMixer -------------------------------
(***************************************************************************)
(* Model-checking instance of Mixer: the main program plays effects, the   *)
(* timer callback is the MIDI player.                                      *)
(***************************************************************************)
EXTENDS Mixer

AllPlays == {[group |-> "music", prio |-> 0], [group |-> "sfx", prio |-> 1]}

Looped(b) == {c \in Calls : c[Len(c)].op = "loop" /\ c[Len(c)].arg.on = b}
Of(ops) == {c \in Calls : c[Len(c)].op \in ops}
SoundCalls ==
    {c \in Of({"claim"}) : c[1].arg.group = "sfx"}
    \cup Of({"retrigger", "quiet", "copy"})
MidiCalls ==
    {c \in Of({"claim"}) : c[1].arg.group = "music"}
    \cup Of({"stop"}) \cup Looped(TRUE)
=============================================================================
