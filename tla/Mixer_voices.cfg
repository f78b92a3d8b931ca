SPECIFICATION Spec
\* The application may stop playing.
CHECK_DEADLOCK FALSE
CONSTANTS
    Top = 1
    Plays <- AllPlays
    QueueSize = 1
    MainCalls <- SoundCalls
    TimerCalls <- MidiCalls
    Notes = 3
    LateLoops = FALSE
INVARIANTS EndsAreReal SlotsMatchSound
PROPERTIES SoundIsWhole OwnersDecide
