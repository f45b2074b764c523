SPECIFICATION Spec
CONSTANTS
    ENTRIES_PER_TABLE = 6
    FirstFrame = 2
    LastFrame = 27
    HeapFrames = 2
    HugeEntries = 4
    VGA = 1
    CPUS = 1
    StackPages = 2
    MaxRegionPages = 2
    MaxPid = 3
    MaxRegion = 2
INVARIANTS
    
    MappedIsLive
    TlbAgrees
PROPERTY
    IsAddressSpace
CHECK_DEADLOCK FALSE
