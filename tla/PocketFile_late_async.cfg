SPECIFICATION Spec
CONSTANTS
    Cmds = {"read"}
    Params = {z, a1, a2}
    Zero = z
    None = none
    Junk = junk
    SyncReqs = {}
    AsyncReqs = {a1, a2}
    DirectReqs = {}
    SwMixer = TRUE
    MaxHold = 1
    SyncKinds = {"read"}
    Overlaps = {"slow-host"}
SYMMETRY RequestSymmetry
INVARIANTS
    AsyncDataIntact
