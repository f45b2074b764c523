SPECIFICATION Spec
CONSTANTS
    m_totalClusters = 6
    DirSlots = 4
    EntryClusters = 5
    MAX_DIR_STACK = 3
    CHUNK_SIZE = 2
    MaxFaults = 1
    MaxCommands = 5
    Name <- MCName
    Length <- MCLength
    Stored <- MCStored
    Path <- MCPath
    Pattern <- MCPattern
    Text <- MCText
INVARIANTS
    EntriesOwnChains
    
    CwdIsKept
PROPERTY
    NothingLost
CHECK_DEADLOCK FALSE
