SPECIFICATION ClientsSpec
CONSTANTS
    h1 = h1
    h2 = h2
    b1 = b1
    b2 = b2
    f1 = f1
    f2 = f2
    p1 = p1
    p2 = p2
    cat = cat
    NoHandle = NoHandle
    NoPid = NoPid
    SlotObject <- MCSlotObject
    BufferObject <- MCBufferObject
    FilterObject <- MCFilterObject
    Pid <- MCPid
    CatPid <- cat
    BrowserPid <- MCBrowserPid
    CaPid <- MCCaPid
    AssociationFails = FALSE
    SetsAgain = FALSE
    MaxSlot = 2
    MaxFilter = 2
    CountMod = 3
    EisSlotSum = 2
    Orderly = TRUE
SYMMETRY DriverSymmetry
INVARIANTS
    ClientsInv
    FiltersDivided
    SlotsDivided
    RunningIsFed
    CountIsAssociations
    Accounts
PROPERTIES
    ClientsImplementDemux
