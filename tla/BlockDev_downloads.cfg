SPECIFICATION FairSpec
\* Finitely many calls and downloads: then there is nothing left to do.
CHECK_DEADLOCK FALSE
CONSTANTS
    Disks = {0}
    Sectors <- MCSectors
    Images <- OneImage
    Cells <- MCCells
    Blank <- OneBlank
    Window = 2
    Lengths = {3, 5}
    Downloads = 2
    Mounts = 0
    Pauses = TRUE
    MountAnytime = FALSE
    CpuGivesUp = {}
    Starts = {0, 1}
    SlowHost = FALSE
    Counts = {1}
    Payloads = {}
    Ways = {"uncached"}
    Buffer = 0
    Scratch = 3
    Chunk = 2
    Addressable = 6
    RetryMax = 0
    Calls = 2
    Unasked = 0
INVARIANTS LoadedIsWhole StaysInWindow
PROPERTIES QuietIsStatic DownloadEnds
