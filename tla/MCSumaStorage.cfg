SPECIFICATION Spec
CONSTANTS
    u1 = u1
    u2 = u2
    Unit = {u1, u2}
    MaxWrite = 3
    Torn = Torn
INVARIANTS
    TypeOK
    ValidIsIntact
    MemoryIntact
    SpareLast
PROPERTIES
    Saved
