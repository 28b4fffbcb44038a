SPECIFICATION NvmSpec
CONSTANTS
    basic = basic
    appmgr = appmgr
    d1 = d1
    d2 = d2
    Region = {appmgr}
    Blocks <- OneRegion
    BlockSize = 2
    Request <- Parts
    Erasure <- Cuts
    Value = {d1}
    Zero = Zero
    Erased = Erased
    Torn = Torn
    MaxMessage = 2
    DeviceFails = TRUE
    VerifiesAll = FALSE
    HeapRefuses = TRUE
    Patient = FALSE
INVARIANTS
    NvmTypeOK
    DirtyAccounted
    BurningBacked
PROPERTIES
    BurnSettles
    EventuallyDurable
