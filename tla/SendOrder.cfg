CONSTANTS
    Parts = {"send"}
    Subscriptions = {}
    th1 = th1  th2 = th2  con1 = con1  con2 = con2  none = none  fd1 = fd1  fd2 = fd2
    MaxCount = 5
    MaxBegin = 2
    Times = {1, 2, 3, 4, 5, 6}
    MaxGaps = 1
    U32 = 64
SPECIFICATION MCSpec
CHECK_DEADLOCK FALSE
INVARIANT BytesInOrder
