SPECIFICATION EcmSpec
CONSTANTS
    f1 = f1
    Filter = {f1}
    MaxMessage = 2
    Pattern <- AnyPattern
    NoFilter = NoFilter
INVARIANT EcmTypeOK
INVARIANT LockBacked
PROPERTY LockEnds
PROPERTY EveryKey
