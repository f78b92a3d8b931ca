SPECIFICATION Spec
CONSTANTS
    Cmds = {"read", "getfile"}
    Params = {z, s1, s2, a1, a2}
    Zero = z
    None = none
    Junk = junk
    SyncReqs = {s1}
    AsyncReqs = {a1, a2}
    DirectReqs = {a2}
    SwMixer = FALSE
    MaxHold = 2
    SyncKinds = {"read", "getname"}
    Overlaps = {}
INVARIANTS
    SyncDataIntact
    OwnershipFollowsAsync
    GateSerialises
PROPERTIES
    AsyncContract
