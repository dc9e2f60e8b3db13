CONSTANTS
    a = a
    b = b
    t1 = t1
    t2 = t2
    Threads <- MCThreads
    Objects = {o1}
    None = None
    Data <- MCData
    Updates <- MCUpdates
    ExpireArgs = {1}
    ObjectEffective = 1
    ListMaxCount = 2
    U16 = 4
    U32 = 16
    MaxTime = 2
    Faults = {}
SYMMETRY Symmetry
SPECIFICATION Spec
INVARIANTS
    HeaderListsItems
    ReadersSeeQueue
PROPERTIES
    ImplementsQueue
