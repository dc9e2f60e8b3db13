SPECIFICATION Spec
CONSTANTS
    t1 = t1
    t2 = t2
    o1 = o1
    Threads = {t1, t2}
    Objects = {o1}
    None = None
    a = a
    Data = {a}
    Empty = Empty
    DelayArgs = {0, 2}
    SeqValidTime = 1
    SeqClearTime = 0
    ObjectEffective = 1
    Minute = 1
    U32 = 16
    MaxId = 3
    MaxTime = 4
    Faults = {"write"}
SYMMETRY Symmetry
INVARIANTS HeadDescribesValues CacheMatchesStore SeekFindsNewest
PROPERTIES NeverRewritten ImplementsLog
