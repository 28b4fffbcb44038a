SPECIFICATION Spec
CONSTANTS
    f1 = f1
    f2 = f2
    Filter = {f1}
    RingSize = 3
    MaxMessage = 2
    MaxSection = 2
    Stream <- AnyFlags
    NoSection = NoSection
    NoFilter = NoFilter
PROPERTY BusyMeansBuffered
