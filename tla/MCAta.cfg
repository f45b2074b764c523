SPECIFICATION FairSpec
CONSTANTS
    LBA <- Sectors
    Data = {"a", "b"}
    MaxSectors = 2
    MaxPolls = 3
    Radix = 2
    HeadRadix = 2
INVARIANT Lockstep
PROPERTIES IsDisk CallsReturn
