SPECIFICATION EisSpec
CONSTANTS
    h1 = h1
    h2 = h2
    b1 = b1
    b2 = b2
    f1 = f1
    f2 = f2
    p1 = p1
    cat = cat
    NoHandle = NoHandle
    NoPid = NoPid
    SlotObject <- MCSlotObject
    BufferObject <- MCBufferObject
    FilterObject <- MCFilterObject
    Pid <- MCPid
    BrowserPid <- MCPid
    CatPid <- cat
    MaxSlot = 2
    MaxFilter = 2
    CountMod = 3
    EisSlotSum = 2
    Orderly = FALSE
SYMMETRY DriverSymmetry
INVARIANTS
    EisInv
    ChannelsAreSlots
    FiltersAttached
    CatLeftAlone
PROPERTIES
    EisImplementsDemux
