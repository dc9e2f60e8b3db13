CONSTANTS
    ka = ka  kb = kb  kc = kc
    p = p  q = q
    none = none
    N = 3
    kMaxHeight = 2
    Readers = {p}
    Writer = q
    Junk = 0
SPECIFICATION MCSpec
CHECK_DEADLOCK FALSE
INVARIANTS
    CompleteRecordsSurvive
    NothingSpliced
    WalksTheTable
    GetFindsNewest
    EntriesLiveWhileUsed
    ShowsWhatIsVisible
    LevelsNested
PROPERTIES
    SearchesExact
