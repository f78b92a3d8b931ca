SPECIFICATION Spec
CONSTANTS
    FDs = {d1}
    Slots = {save, settings}
    Saves = {save}
    Listed = {save}
    Bytes = {blank, x}
    Blank = blank
    Cap = 2
    MaxOff = 3
    Shared = FALSE
    None = none
INVARIANTS
    PublishedIsWhole
PROPERTIES
    ImplementsStore
