SPECIFICATION Spec
CONSTANTS
    Tree <- Library
    Formatted = {0, 1, 2}
    Roots = {"One"}
    Names <- LibraryNames
    SlotIds = {20}
    Base <- LibraryBase
    FixedNv <- Saves
    FixedRead <- App
    DynIds <- TwoIds
    OvfBase = 32
    OvfCount = 1
    CfgBase = 96
    CfgCount = 1
    FilSlots = 2
    IoEntries = 1
    FDs = 1
    Cap = 1
    Texts = {1}
    AtBoot = {{0, 1, 2}}
    Removable = {1}
    Mishaps = 1
    Relaunches = 1
    Writes = 1
    None = None
INVARIANTS ReadsOwnFile ConfigWriteLands
PROPERTIES  NvStays
