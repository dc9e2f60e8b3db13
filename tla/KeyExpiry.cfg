CONSTANTS
    Clients = {c1}
    Refresh = refresh
    Values = {v}
    ExpireArgs = {0, 1, 3}
    NoValue = NoValue
    Soon = 2
    LongPeriod = 1
    MaxTimer = 5
    U32 = 32
    MaxTime = 3
    MaxTemp = 1
    Faults = {}
SPECIFICATION Spec
PROPERTIES
    ClearedAutomatically
