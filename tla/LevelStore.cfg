CONSTANTS
    w1 = w1
    w2 = w2
    r1 = r1
    None = None
    Key = {1, 2, 3}
    Writers = {w1, w2}
    Readers = {r1}
    Batches <- MCBatches
    Databases <- MCDatabases
    kNumLevels = 3
    kL0_CompactionTrigger = 1
    kL0_StopWritesTrigger = 2
    kMaxMemCompactLevel = 1
    kMaxGrandParentOverlapBytes = 2
    kExpandedCompactionByteSizeLimit = 5
    Level1Bytes = 4
    WriteBuffer = 1
    GroupBytes = 2
    MaxFileSize = 1
    MaxWrites = 2
    MaxCrashes = 1
    MaxFaults = 1
    Faults = {"log", "table", "manifest"}
SPECIFICATION Spec
SYMMETRY Symmetry
CHECK_DEADLOCK FALSE
INVARIANTS
    ReadersUndisturbed
    FilesPresent
    OnlyCopiesOverlap
    HoldsWhatWasWritten
    WaitersAreServed

    
