SPECIFICATION FairSpec
CONSTANTS
    Cmds = {"read"}
    Params = {z, s1, a1}
    Zero = z
    None = none
    Junk = junk
    SyncReqs = {s1}
    AsyncReqs = {a1}
    DirectReqs = {}
    SwMixer = TRUE
    MaxHold = 1
    SyncKinds = {"read"}
    Overlaps = {"slow-host", "sync-during-copy"}
PROPERTIES
    AsyncEnds
    CallReturns
    CopyEnds
