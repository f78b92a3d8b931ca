SPECIFICATION FairSpec
CONSTANTS
    Disks <- MCDisks
    Sectors <- MCSectors
    Images <- MCImages
    Cells <- MCCells
    Blank <- MCBlank
    Window = 2
    Lengths = {3, 4, 5}
    Downloads = 0
    Mounts = 1
    Pauses = FALSE
    MountAnytime = FALSE
    CpuGivesUp = {"gate"}
    Starts = {1, 3}
    SlowHost = FALSE
    Counts <- MCCounts
    Payloads <- MCPayloads
    Ways = {"cached", "uncached", "bounce"}
    Buffer = 0
    Scratch = 3
    Chunk = 2
    Addressable = 6
    RetryMax = 1
    Calls = 1
    Unasked = 1
INVARIANTS SizeUntorn
PROPERTIES ImplementsStore RespectsImage CallReturns
