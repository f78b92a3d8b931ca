SPECIFICATION Spec
CONSTANTS
    Programs <- GpuOnly
    FrameMax = 3
    PaletteMax = 0
    FreezeMax = 0
INVARIANTS ThirdBuffer
