CONSTANTS
    SectorSize = 8
    Sectors = 12
    BPB <- MC_BPB
    Value <- MC_Value
    Block <- MC_Block
    DotBlock <- MC_DotBlock
    none = none
SPECIFICATION MCSpec
INVARIANTS
    CellsApart
    FatCopiesAgree
PROPERTY
    IsCells
