SPECIFICATION FairSpec
CONSTANTS
    f1 = f1
    f2 = f2
    Filter = {f1, f2}
    RingSize = 3
    MaxMessage = 2
    MaxSection = 4
    Stream <- TwoFilters
    NoSection = NoSection
    NoFilter = NoFilter
INVARIANT TypeOK
INVARIANT BacklogServed
PROPERTY DeliveredAsCaptured
PROPERTY ImplementsFifo
PROPERTY NewestIsKept
PROPERTY BacklogMoves
