SPECIFICATION DSFairSpec
CONSTANTS
    Cmds = {"read", "write", "openfile"}
    Params = {z, p, q}
    Zero = z
INVARIANTS
    DSTypeOK
    DoneIsOurs
    ExecutesCurrent
    DoneAfterDrain
PROPERTIES
    Retires
