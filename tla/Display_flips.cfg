SPECIFICATION FairSpec
CONSTANTS
    Programs <- MCPrograms
    FrameMax = 3
    PaletteMax = 3
    FreezeMax = 1
INVARIANTS DrawIsFree PresentsWereShown LiveIsWhole
PROPERTIES FramesInOrder  CallReturns PaletteSettles
