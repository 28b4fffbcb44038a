SPECIFICATION NvmSafety
CONSTANTS
    basic = basic
    appmgr = appmgr
    d1 = d1
    d2 = d2
    Region = {basic, appmgr}
    Blocks <- TwoRegions
    BlockSize = 2
    Request <- Mixed
    Erasure <- Wholes
    Value = {d1, d2}
    Zero = Zero
    Erased = Erased
    Torn = Torn
    MaxMessage = 2
    DeviceFails = FALSE
    VerifiesAll = TRUE
    HeapRefuses = TRUE
    Patient = TRUE
INVARIANTS
    SuccessMeansWritten
SYMMETRY DataSymmetry
